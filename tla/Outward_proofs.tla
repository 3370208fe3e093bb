---------------------------- MODULE Outward_proofs ----------------------------
(***************************************************************************)
(* What holds, for all values of the constants, of what the daemon keeps   *)
(* of others: its connections to the servers (ConnectionPool), then its    *)
(* copy of the registry (RegistryMirror).  The two share no state; neither *)
(* one's facts are used for the other.                                     *)
(***************************************************************************)
EXTENDS ConnectionPool, RegistryMirror, FiniteSetTheorems, TLAPS

-----------------------------------------------------------------------------
(* Which clients there are, and whose.  Calls and connections refer to     *)
(* clients by identity, so that every property rests on these disjoint     *)
(* roles: the connection in use, the open in progress, those closing.      *)

ClientsInv ==
  /\ Opening <=> open.client # None
  /\ Opening => ~Connected /\ open.client \in alive
  /\ open.pc \in {"first", "retry", "hint"} => open.client \notin closing
  /\ Connected => conn.client \in alive /\ conn.client \notin closing
  /\ closing \subseteq alive
  /\ \A c \in Caller : calls[c].pc = "sent" =>
                         calls[c].client \in alive /\ calls[c].client # open.client

LEMMA EmptyTypes == /\ NoConfig \in Config
                    /\ NoConn \in Connection
                    /\ NoOpen \in Open
                    /\ NoFailure \in Failure
                    /\ NoCall \in Call
                    /\ NoProbe \in Probe
                    /\ NoRoute \in Route
<1>1. NoConfig \in Config
  BY BoundAssumption DEF NoConfig, Config
<1>2. Cardinality(Caller) \in Nat
  BY CallerAssumption, FS_CardinalityType
<1>3. NoConn \in Connection
  BY <1>1, <1>2 DEF NoConn, Connection
<1> QED
  BY <1>1, <1>3 DEF NoOpen, Open, NoFailure, Failure, NoCall, Call, NoProbe, Probe, NoRoute, Route

LEMMA ClientsInvInit == Init => ClientsInv
BY DEF Init, ClientsInv, Opening, NoOpen, Connected, NoConn, NoCall

\* Steps that open nothing, close nothing and send nothing.
LEMMA ClientsInvFrame ==
  ASSUME ClientsInv, UNCHANGED <<conn, open, alive, closing, calls>>
  PROVE  ClientsInv'
BY DEF ClientsInv, Opening, Connected

\* The calls an open's end leaves: those that waited have failed.
LEMMA OpenFailsClients ==
  ASSUME TypeOK, ClientsInv, Opening, UNCHANGED conn, OpenFails,
         closing' = closing \ {open.client}
  PROVE  ClientsInv'
<1>1. \A c \in Caller : calls'[c] = calls[c] \/ calls'[c] = NoCall
  BY DEF OpenFails
<1>2. open'.pc = "idle" /\ open'.client = None /\ alive' = alive \ {open.client}
  BY DEF OpenFails, NoOpen
<1>3. \A c \in Caller : calls'[c].pc = "sent" =>
                          calls'[c].client \in alive' /\ calls'[c].client # open'.client
  BY <1>1, <1>2, NoneAssumption DEF ClientsInv, NoCall, TypeOK
<1> QED BY <1>2, <1>3 DEF ClientsInv, Opening, Connected

LEMMA StartOpenClients ==
  ASSUME TypeOK, ClientsInv, ~Connected, ~Opening, StartOpen, UNCHANGED <<conn, closing>>,
         \A c \in Caller : calls'[c].pc = "sent" => calls'[c] = calls[c]
  PROVE  ClientsInv'
<1>1. PICK k \in Client \ alive : open' = Attempt(k) /\ alive' = alive \cup {k}
  BY DEF StartOpen
<1> QED BY <1>1, NoneAssumption DEF ClientsInv, Attempt, Opening, Connected, TypeOK

LEMMA JoinOpenClients ==
  ASSUME TypeOK, ClientsInv, JoinOpen, UNCHANGED <<conn, closing>>,
         \A c \in Caller : calls'[c].pc = "sent" => calls'[c] = calls[c]
  PROVE  ClientsInv'
<1>1. CASE Opening
  BY <1>1 DEF JoinOpen, ClientsInv, Opening, Connected
<1>2. CASE ~Opening
  BY <1>2, StartOpenClients DEF JoinOpen
<1> QED BY <1>1, <1>2

LEMMA DisconnectClients ==
  ASSUME TypeOK, ClientsInv, Disconnect, UNCHANGED <<alive, calls>>
  PROVE  ClientsInv'
<1>1. open'.pc = open.pc /\ open'.client = open.client
  BY DEF Disconnect, TypeOK, Open
<1>2. conn'.client = None
  BY DEF Disconnect, NoConn
<1> QED BY <1>1, <1>2 DEF ClientsInv, Disconnect, Opening, Connected

LEMMA GoneClients ==
  ASSUME TypeOK, ClientsInv, NEW k \in Client, Gone(k), k # open.client, UNCHANGED open,
         conn'.client = None \/ (conn'.client = conn.client /\ conn.client # k),
         closing' = closing \ {k}
  PROVE  ClientsInv'
<1>1. \A c \in Caller : calls'[c].pc = "sent" => calls'[c] = calls[c] /\ calls[c].client # k
  BY DEF Gone, OnClient, NoCall
<1> QED BY <1>1 DEF ClientsInv, Gone, Opening, Connected

LEMMA ClientsInvStep == TypeOK /\ ClientsInv /\ [Next]_vars => ClientsInv'
<1> SUFFICES ASSUME TypeOK, ClientsInv, [Next]_vars PROVE ClientsInv'
  OBVIOUS
<1>0. ASSUME open.pc \in {"first", "retry"}, RecordFailure, UNCHANGED <<conn, closing>>
      PROVE  ClientsInv'
  <2>1. CASE OpenFails
    BY <1>0, <2>1, OpenFailsClients DEF Opening, ClientsInv
  <2>2. CASE open' = [open EXCEPT !.pc = "hint"] /\ UNCHANGED <<alive, calls>>
    BY <1>0, <2>2 DEF ClientsInv, Opening, Connected, TypeOK, Open
  <2> QED BY <1>0, <2>1, <2>2 DEF RecordFailure
<1>1. CASE FirstFails
  <2>1. CASE open' = [open EXCEPT !.pc = "retry"] /\ UNCHANGED <<alive, calls, conn, closing>>
    BY <1>1, <2>1 DEF FirstFails, ClientsInv, Opening, Connected, TypeOK, Open
  <2> QED BY <1>0, <1>1, <2>1 DEF FirstFails
<1>2. CASE RetryFails
  BY <1>0, <1>2 DEF RetryFails
<1>3. CASE HintFound
  BY <1>3, OpenFailsClients DEF HintFound, Opening, ClientsInv
<1>4. CASE Opened
  <2>1. open'.pc = "idle" /\ open'.client = None /\ conn'.client = open.client
    BY <1>4 DEF Opened, NoOpen
  <2>2. Opening /\ open.client \in alive \ closing
    BY <1>4 DEF Opened, Opening, ClientsInv
  <2>3. ASSUME NEW c \in Caller, calls'[c].pc = "sent"
        PROVE  calls'[c].client \in alive' /\ calls'[c].client # open'.client
    <3>1. CASE c \in Waiting
      <4>1. calls'[c].client = open.client
        BY <1>4, <3>1 DEF Opened, TypeOK, Call
      <4>2. open.client # None
        BY <2>2, NoneAssumption DEF TypeOK
      <4>3. alive' = alive
        BY <1>4 DEF Opened
      <4> QED BY <2>1, <2>2, <4>1, <4>2, <4>3
    <3>2. CASE c \notin Waiting
      BY <1>4, <2>1, <2>3, <3>2, NoneAssumption DEF Opened, ClientsInv, TypeOK
    <3> QED BY <3>1, <3>2
  <2> QED BY <1>4, <2>1, <2>2, <2>3 DEF Opened, ClientsInv, Opening, Connected
<1>5. CASE OpenedStale
  BY <1>5 DEF OpenedStale, users, ClientsInv, Opening, Connected, TypeOK, Open
<1>6. CASE Reopen
  <2>1. CASE MayOpen
    BY <1>6, <2>1 DEF Reopen, Attempt, ClientsInv, Opening, Connected
  <2>2. CASE ~MayOpen
    BY <1>6, <2>2, OpenFailsClients DEF Reopen, Opening
  <2> QED BY <2>1, <2>2
<1>7. CASE BackoffEnds \/ VerdictExpires \/ Install
  BY <1>7, ClientsInvFrame DEF BackoffEnds, VerdictExpires, Install, users
<1>8. CASE Health
  BY <1>8, StartOpenClients DEF Health, users
<1>9. CASE ProbeStart
  BY <1>9, JoinOpenClients, ClientsInvFrame DEF ProbeStart
<1>10. CASE ProbeEnds
  BY <1>10, DisconnectClients, ClientsInvFrame DEF ProbeEnds
<1>11. CASE SweepIdle \/ Reconfigure \/ Uninstall
  BY <1>11, DisconnectClients DEF SweepIdle, Reconfigure, Uninstall, users
<1>12. ASSUME NEW c \in Caller, CallTool(c) PROVE ClientsInv'
  <2>1. PICK elicits \in BOOLEAN : CallNow(c, elicits) \/ CallLater(c, elicits)
    BY <1>12 DEF CallTool
  <2>2. CASE CallNow(c, elicits)
    <3>1. conn'.client = conn.client /\ conn.client \in alive /\ conn.client # open.client
      BY <2>2 DEF CallNow, TypeOK, Connection, ClientsInv, Connected
    <3>2. calls'[c].client = conn.client /\ \A d \in Caller \ {c} : calls'[d] = calls[d]
      BY <2>2 DEF CallNow, TypeOK
    <3> QED BY <1>12, <2>2, <3>1, <3>2 DEF CallNow, CallTool, ClientsInv, Opening, Connected
  <2>3. CASE CallLater(c, elicits)
    <3>1. \A d \in Caller : calls'[d].pc = "sent" => calls'[d] = calls[d]
      BY <2>3 DEF CallLater, TypeOK
    <3> QED BY <1>12, <2>3, <3>1, JoinOpenClients DEF CallTool, CallLater
  <2> QED BY <2>1, <2>2, <2>3
<1>13. ASSUME NEW c \in Caller, CallEnds(c) PROVE ClientsInv'
  <2>1. conn'.client = conn.client
    BY <1>13 DEF CallEnds, LeaveConn, TypeOK, Connection
  <2>2. \A d \in Caller : calls'[d].pc = "sent" => calls'[d] = calls[d]
    BY <1>13 DEF CallEnds, TypeOK, NoCall
  <2> QED BY <1>13, <2>1, <2>2 DEF CallEnds, ClientsInv, Opening, Connected
<1>14. ASSUME NEW k \in Client, UpstreamCloses(k) PROVE ClientsInv'
  BY <1>14, GoneClients DEF UpstreamCloses, NoConn
<1>15. ASSUME NEW k \in Client, Closed(k) PROVE ClientsInv'
  <2>1. conn'.client = None \/ (conn'.client = conn.client /\ conn.client # k)
    BY <1>15 DEF Closed, ClientsInv, Connected
  <2> QED BY <1>15, <2>1, GoneClients DEF Closed
<1>16. ASSUME NEW k \in Client, NEW c \in Caller, Push(k, c) PROVE ClientsInv'
  BY <1>16, ClientsInvFrame DEF Push, users
<1>17. CASE UNCHANGED vars
  BY <1>17, ClientsInvFrame DEF vars, users
<1> QED
  BY <1>1, <1>2, <1>3, <1>4, <1>5, <1>6, <1>7, <1>8, <1>9, <1>10, <1>11, <1>12, <1>13, <1>14,
     <1>15, <1>16, <1>17
  DEF Next, OpenStep

-----------------------------------------------------------------------------
(* In-flight counts.                                                       *)

LEMMA OnClientFinite ==
  ASSUME NEW k PROVE IsFiniteSet(OnClient(k)) /\ Cardinality(OnClient(k)) \in 0..Cardinality(Caller)
<1>1. OnClient(k) \in SUBSET Caller
  BY DEF OnClient
<1>2. IsFiniteSet(OnClient(k)) /\ Cardinality(OnClient(k)) <= Cardinality(Caller)
  BY <1>1, CallerAssumption, FS_Subset
<1> QED BY <1>2, CallerAssumption, FS_CardinalityType

LEMMA InflightInit == Init => InflightExact
BY DEF Init, InflightExact, Connected, NoConn

LEMMA InflightDropped == ASSUME conn' = NoConn PROVE InflightExact'
BY DEF InflightExact, Connected, NoConn

\* Steps that leave the connection and the calls on it alone.
LEMMA InflightFrame ==
  ASSUME InflightExact, UNCHANGED conn,
         \A c \in Caller : \/ calls'[c] = calls[c]
                          \/ /\ calls[c].pc = "sent" => calls[c].client # conn.client
                             /\ calls'[c].pc # "sent"
  PROVE  InflightExact'
<1>1. CASE Connected
  <2>1. OnClient(conn.client)' = OnClient(conn.client)
    BY DEF OnClient
  <2>2. {c \in OnClient(conn.client) : calls'[c].elicits} = {c \in OnClient(conn.client) : calls[c].elicits}
    BY DEF OnClient
  <2> QED BY <1>1, <2>1, <2>2 DEF InflightExact, Connected
<1>2. CASE ~Connected
  BY <1>2 DEF InflightExact, Connected
<1> QED BY <1>1, <1>2

LEMMA OpenFailsInflight ==
  ASSUME TypeOK, InflightExact, UNCHANGED conn, OpenFails PROVE InflightExact'
<1>1. \A c \in Caller : calls'[c] = calls[c] \/ (calls[c].pc # "sent" /\ calls'[c].pc # "sent")
  BY DEF OpenFails, Waiting, NoCall
<1> QED BY <1>1, InflightFrame

\* Opening: every call that waited is now on the client, and no other is.
LEMMA OpenedInflight == ASSUME TypeOK, ClientsInv, Opened PROVE InflightExact'
<1>1. open.client # None /\ conn'.client = open.client
  BY DEF Opened, ClientsInv, Opening
<1>2. OnClient(conn.client)' = Waiting
  <2>1. ASSUME NEW c \in Waiting
        PROVE  c \in Caller /\ calls'[c].pc = "sent" /\ calls'[c].client = open.client
    BY <2>1 DEF Opened, Waiting, TypeOK, Call
  <2>2. ASSUME NEW c \in Caller \ Waiting
        PROVE  ~(calls'[c].pc = "sent" /\ calls'[c].client = open.client)
    BY <2>2 DEF Opened, ClientsInv
  <2> QED BY <1>1, <2>1, <2>2 DEF OnClient, Waiting
<1>3. \A c \in Waiting : calls'[c].elicits = calls[c].elicits
  BY DEF Opened, Waiting, TypeOK, Call
<1>4. /\ conn'.inflight = Cardinality(Waiting)
      /\ conn'.elicitors = {c \in Waiting : calls[c].elicits}
  BY DEF Opened
<1>5. {c \in Waiting : calls'[c].elicits} = {c \in Waiting : calls[c].elicits}
  BY <1>3
<1> QED BY <1>1, <1>2, <1>4, <1>5 DEF InflightExact

LEMMA CallNowInflight ==
  ASSUME TypeOK, InflightExact, NEW c \in Caller, calls[c].pc = "idle",
         NEW elicits \in BOOLEAN, CallNow(c, elicits)
  PROVE  InflightExact'
<1> DEFINE before == OnClient(conn.client)
<1>1. /\ conn'.client = conn.client
      /\ conn'.inflight = conn.inflight + 1
      /\ conn'.elicitors = IF elicits THEN conn.elicitors \cup {c} ELSE conn.elicitors
  BY DEF CallNow, TypeOK, Connection
<1>2. /\ calls'[c] = [pc |-> "sent", client |-> conn.client, elicits |-> elicits]
      /\ \A d \in Caller \ {c} : calls'[d] = calls[d]
  BY DEF CallNow, TypeOK
<1>3. c \notin before /\ OnClient(conn.client)' = before \cup {c}
  BY <1>1, <1>2 DEF OnClient
<1>4. Cardinality(before \cup {c}) = conn.inflight + 1
  BY <1>3, OnClientFinite, FS_AddElement DEF InflightExact, CallNow
<1>5. conn'.elicitors = {d \in before \cup {c} : calls'[d].elicits}
  BY <1>1, <1>2, <1>3 DEF InflightExact, CallNow, OnClient
<1> QED BY <1>1, <1>3, <1>4, <1>5 DEF InflightExact

\* A call that ends leaves the count of its own connection, and no other's.
LEMMA CallEndsInflight ==
  ASSUME TypeOK, InflightExact, NEW c \in Caller, CallEnds(c)
  PROVE  InflightExact'
<1>1. calls'[c].pc # "sent" /\ \A d \in Caller \ {c} : calls'[d] = calls[d]
  BY DEF CallEnds, TypeOK, NoCall
<1>2. CASE conn.client # calls[c].client
  BY <1>1, <1>2, InflightFrame DEF CallEnds, LeaveConn
<1>3. CASE conn.client = calls[c].client /\ Connected
  <2> DEFINE before == OnClient(conn.client)
  <2>1. /\ conn'.client = conn.client
        /\ conn'.inflight = conn.inflight - 1
        /\ conn'.elicitors = conn.elicitors \ {c}
    BY <1>3 DEF CallEnds, LeaveConn, TypeOK, Connection
  <2>2. c \in before /\ OnClient(conn.client)' = before \ {c}
    BY <1>1, <1>3, <2>1 DEF OnClient, CallEnds
  <2>3. Cardinality(before \ {c}) = conn.inflight - 1
    BY <1>3, <2>2, OnClientFinite, FS_RemoveElement DEF InflightExact
  <2>4. conn'.elicitors = {d \in before \ {c} : calls'[d].elicits}
    BY <1>1, <1>3, <2>1, <2>2 DEF InflightExact, OnClient
  <2> QED BY <2>1, <2>2, <2>3, <2>4 DEF InflightExact
<1>4. CASE conn.client = calls[c].client /\ ~Connected
  BY <1>4 DEF CallEnds, LeaveConn, InflightExact, Connected, TypeOK, Connection
<1> QED BY <1>2, <1>3, <1>4

LEMMA InflightStep == TypeOK /\ ClientsInv /\ InflightExact /\ [Next]_vars => InflightExact'
<1> SUFFICES ASSUME TypeOK, ClientsInv, InflightExact, [Next]_vars PROVE InflightExact'
  OBVIOUS
<1>0. ASSUME UNCHANGED <<conn, calls>> PROVE InflightExact'
  BY <1>0, InflightFrame
<1>1. ASSUME RecordFailure, UNCHANGED conn PROVE InflightExact'
  BY <1>0, <1>1, OpenFailsInflight DEF RecordFailure
<1>2. CASE FirstFails
  BY <1>0, <1>1, <1>2 DEF FirstFails
<1>3. CASE RetryFails \/ HintFound
  BY <1>1, <1>3, OpenFailsInflight DEF RetryFails, HintFound
<1>4. CASE Opened
  BY <1>4, OpenedInflight
<1>5. CASE OpenedStale \/ BackoffEnds \/ VerdictExpires \/ Install \/ Health \/ ProbeStart
  BY <1>0, <1>5 DEF OpenedStale, BackoffEnds, VerdictExpires, Install, Health, ProbeStart, users
<1>6. CASE Reopen
  BY <1>0, <1>6, OpenFailsInflight DEF Reopen
<1>7. CASE ProbeEnds \/ SweepIdle \/ Reconfigure \/ Uninstall
  BY <1>0, <1>7, InflightDropped DEF ProbeEnds, SweepIdle, Reconfigure, Uninstall, Disconnect
<1>8. ASSUME NEW c \in Caller, CallTool(c) PROVE InflightExact'
  <2>1. PICK elicits \in BOOLEAN : CallNow(c, elicits) \/ CallLater(c, elicits)
    BY <1>8 DEF CallTool
  <2>2. CASE CallLater(c, elicits)
    <3>1. calls'[c].pc # "sent" /\ \A d \in Caller \ {c} : calls'[d] = calls[d]
      BY <2>2 DEF CallLater, TypeOK
    <3> QED BY <1>8, <2>2, <3>1, InflightFrame DEF CallLater, CallTool
  <2> QED BY <1>8, <2>1, <2>2, CallNowInflight DEF CallTool
<1>9. ASSUME NEW c \in Caller, CallEnds(c) PROVE InflightExact'
  BY <1>9, CallEndsInflight
<1>10. ASSUME NEW k \in Client, Gone(k), conn' = NoConn \/ (conn' = conn /\ conn.client # k)
       PROVE  InflightExact'
  <2>1. \A c \in Caller : calls'[c] = calls[c] \/ (calls[c].client = k /\ calls'[c].pc # "sent")
    BY <1>10 DEF Gone, OnClient, NoCall
  <2> QED BY <1>10, <2>1, InflightFrame, InflightDropped
<1>11. ASSUME NEW k \in Client, UpstreamCloses(k) PROVE InflightExact'
  BY <1>10, <1>11 DEF UpstreamCloses
<1>12. ASSUME NEW k \in Client, Closed(k) PROVE InflightExact'
  BY <1>10, <1>12, NoneAssumption DEF Closed, ClientsInv, Connected
<1>13. ASSUME NEW k \in Client, NEW c \in Caller, Push(k, c) PROVE InflightExact'
  BY <1>0, <1>13 DEF Push, users
<1>14. CASE UNCHANGED vars
  BY <1>0, <1>14 DEF vars, users
<1> QED
  BY <1>2, <1>3, <1>4, <1>5, <1>6, <1>7, <1>8, <1>9, <1>11, <1>12, <1>13, <1>14
  DEF Next, OpenStep

-----------------------------------------------------------------------------
(* Typing.  Counting is what bounds inflight: it needs InflightExact.      *)

LEMMA ConnectionType ==
  ASSUME TypeOK, InflightExact', Connected', conn'.inflight \in Int,
         conn' = [client |-> conn'.client, config |-> conn'.config,
                  inflight |-> conn'.inflight, elicitors |-> conn'.elicitors],
         conn'.client \in Client, conn'.config \in Config, conn'.elicitors \subseteq Caller
  PROVE  conn' \in Connection
<1>1. OnClient(conn.client)' \in SUBSET Caller
  BY DEF OnClient
<1>2. Cardinality(OnClient(conn.client)') \in 0..Cardinality(Caller)
  BY <1>1, CallerAssumption, FS_Subset, FS_CardinalityType
<1>3. conn'.inflight \in 0..Cardinality(Caller)
  BY <1>2 DEF InflightExact
<1> QED BY <1>3 DEF Connection

LEMMA DisconnectType ==
  ASSUME TypeOK, Disconnect
  PROVE  conn' \in Connection /\ open' \in Open /\ closing' \in SUBSET Client
BY EmptyTypes DEF TypeOK, Disconnect, Opening, Open, Connected, Connection

LEMMA AttemptType == ASSUME TypeOK, NEW k \in Client PROVE Attempt(k) \in Open
BY DEF TypeOK, Attempt, Open

LEMMA JoinOpenType ==
  ASSUME TypeOK, JoinOpen \/ StartOpen PROVE open' \in Open /\ alive' \in SUBSET Client
<1>1. CASE StartOpen
  BY <1>1, AttemptType DEF StartOpen, TypeOK
<1>2. CASE UNCHANGED <<open, alive>>
  BY <1>2 DEF TypeOK
<1> QED BY <1>1, <1>2 DEF JoinOpen

LEMMA OpenFailsType ==
  ASSUME TypeOK, OpenFails
  PROVE  /\ open' \in Open /\ alive' \in SUBSET Client
         /\ calls' \in [Caller -> Call] /\ probe' \in Probe
BY EmptyTypes DEF TypeOK, OpenFails

LEMMA RecordFailureType ==
  ASSUME TypeOK, RecordFailure
  PROVE  /\ open' \in Open /\ failure' \in Failure /\ alive' \in SUBSET Client
         /\ calls' \in [Caller -> Call] /\ probe' \in Probe
<1>1. failure' \in Failure
  BY DEF RecordFailure, TypeOK, Failure, Open
<1>2. CASE OpenFails
  BY <1>1, <1>2, OpenFailsType
<1>3. CASE open' = [open EXCEPT !.pc = "hint"] /\ UNCHANGED <<alive, calls, probe>>
  BY <1>1, <1>3 DEF TypeOK, Open
<1> QED BY <1>2, <1>3 DEF RecordFailure

LEMMA GoneType ==
  ASSUME TypeOK, NEW k \in Client, Gone(k)
  PROVE  /\ alive' \in SUBSET Client /\ calls' \in [Caller -> Call]
         /\ probe' \in Probe /\ orphans' \in SUBSET (Client \X Caller)
BY EmptyTypes DEF TypeOK, Gone

LEMMA TypeStep ==
  TypeOK /\ ClientsInv /\ InflightExact' /\ [Next]_vars => TypeOK'
<1> SUFFICES ASSUME TypeOK, ClientsInv, InflightExact', [Next]_vars PROVE TypeOK'
  OBVIOUS
<1> USE EmptyTypes DEF TypeOK, Unrouted, row, users
<1>1. CASE FirstFails
  <2>1. open.pc = "first" => [open EXCEPT !.pc = "retry"] \in Open
    BY DEF Open
  <2>2. open' \in Open /\ failure' \in Failure /\ alive' \in SUBSET Client
        /\ calls' \in [Caller -> Call] /\ probe' \in Probe /\ verdict' \in BOOLEAN
    BY <1>1, <2>1, RecordFailureType DEF FirstFails, DropVerdict
  <2> QED BY <1>1, <2>2 DEF FirstFails
<1>2. CASE RetryFails
  BY <1>2, RecordFailureType DEF RetryFails
<1>3. CASE HintFound
  BY <1>3, OpenFailsType DEF HintFound
<1>4. CASE Opened
  <2>1. open.client \in Client
    BY <1>4 DEF Opened, ClientsInv, Opening
  <2>2. calls' \in [Caller -> Call]
    <3>1. ASSUME NEW c \in Caller
          PROVE  [calls[c] EXCEPT !.pc = "sent", !.client = open.client] \in Call
      BY <2>1 DEF Call
    <3> QED BY <1>4, <3>1 DEF Opened
  <2>3. probe' \in Probe
    BY <1>4, <2>1 DEF Opened, Probe
  <2>4. conn' \in Connection
    <3>1. Waiting \in SUBSET Caller /\ Cardinality(Waiting) \in Int
      BY CallerAssumption, FS_Subset, FS_CardinalityType DEF Waiting
    <3>2. Connected'
      BY <1>4, <2>1, NoneAssumption DEF Opened, Connected
    <3> QED BY <1>4, <2>1, <3>1, <3>2, ConnectionType DEF Opened, Open
  <2> QED BY <1>4, <2>2, <2>3, <2>4 DEF Opened
<1>5. CASE OpenedStale
  <2>1. open.client \in Client
    BY <1>5 DEF OpenedStale, ClientsInv, Opening
  <2> QED BY <1>5, <2>1 DEF OpenedStale, Open
<1>6. CASE Reopen
  <2>1. open.client \in Client
    BY <1>6 DEF Reopen, ClientsInv, Opening
  <2> QED BY <1>6, <2>1, AttemptType, OpenFailsType DEF Reopen
<1>7. CASE BackoffEnds
  BY <1>7 DEF BackoffEnds, Failure
<1>8. CASE VerdictExpires
  BY <1>8 DEF VerdictExpires
<1>9. CASE Health
  BY <1>9, JoinOpenType DEF Health
<1>10. CASE ProbeStart
  <2>1. CASE /\ Connected
             /\ probe' = [pc |-> "listing", client |-> conn.client, shared |-> TRUE]
             /\ UNCHANGED <<open, alive>>
    <3>1. conn.client \in Client
      BY <2>1 DEF Connected, Connection
    <3>2. probe' \in Probe
      BY <2>1, <3>1 DEF Probe
    <3> QED BY <1>10, <2>1, <3>2 DEF ProbeStart
  <2>2. CASE /\ JoinOpen
             /\ probe' = [pc |-> "connecting", client |-> None, shared |-> Opening]
    <3>1. Opening \in BOOLEAN
      BY DEF Opening
    <3>2. probe' \in Probe
      BY <2>2, <3>1 DEF Probe
    <3> QED BY <1>10, <2>2, <3>2, JoinOpenType DEF ProbeStart
  <2> QED BY <1>10, <2>1, <2>2 DEF ProbeStart
<1>11. CASE ProbeEnds
  BY <1>11, DisconnectType DEF ProbeEnds, Probe
<1>12. CASE SweepIdle
  BY <1>12, DisconnectType DEF SweepIdle
<1>13. CASE Install
  <2>1. config' \in Config
    BY <1>13, BoundAssumption DEF Install, Config
  <2> QED BY <1>13, <2>1 DEF Install
<1>14. CASE Reconfigure
  <2>1. config' \in Config
    BY <1>14, BoundAssumption DEF Reconfigure, Config
  <2> QED BY <1>14, <2>1, DisconnectType DEF Reconfigure
<1>15. CASE Uninstall
  BY <1>15, DisconnectType DEF Uninstall, Connection
<1>16. ASSUME NEW c \in Caller, CallTool(c) PROVE TypeOK'
  <2>1. PICK elicits \in BOOLEAN : CallNow(c, elicits) \/ CallLater(c, elicits)
    BY <1>16 DEF CallTool
  <2>2. CASE CallNow(c, elicits)
    <3>1. conn.client \in Client
      BY <2>2 DEF CallNow, Connected, Connection
    <3>2. calls' \in [Caller -> Call]
      BY <2>2, <3>1 DEF CallNow, Call
    <3>3. conn' \in Connection
      <4>1. /\ conn'.client = conn.client /\ conn'.config = conn.config
            /\ conn'.inflight = conn.inflight + 1
            /\ conn'.elicitors \subseteq Caller
            /\ conn' = [client |-> conn'.client, config |-> conn'.config,
                        inflight |-> conn'.inflight, elicitors |-> conn'.elicitors]
        BY <2>2 DEF CallNow, Connection
      <4>2. conn.config \in Config /\ conn.inflight + 1 \in Int
        BY DEF Connection
      <4>3. Connected'
        BY <2>2, <4>1 DEF CallNow, Connected
      <4> QED BY <3>1, <4>1, <4>2, <4>3, ConnectionType
    <3> QED BY <1>16, <2>2, <3>2, <3>3 DEF CallNow, CallTool
  <2>3. CASE CallLater(c, elicits)
    BY <1>16, <2>3, JoinOpenType DEF CallLater, CallTool, Call
  <2> QED BY <2>1, <2>2, <2>3
<1>17. ASSUME NEW c \in Caller, CallEnds(c) PROVE TypeOK'
  <2>1. calls[c].client \in Client
    BY <1>17 DEF CallEnds, ClientsInv
  <2>2. conn' \in Connection
    <3>1. CASE conn.client = calls[c].client
      <4>1. /\ conn'.client = conn.client /\ conn'.config = conn.config
            /\ conn'.inflight = conn.inflight - 1
            /\ conn'.elicitors \subseteq Caller
            /\ conn' = [client |-> conn'.client, config |-> conn'.config,
                        inflight |-> conn'.inflight, elicitors |-> conn'.elicitors]
        BY <1>17, <3>1 DEF CallEnds, LeaveConn, Connection
      <4>2. conn.config \in Config /\ conn.inflight - 1 \in Int
        BY DEF Connection
      <4>3. Connected'
        BY <2>1, <3>1, <4>1, NoneAssumption DEF Connected
      <4> QED BY <2>1, <3>1, <4>1, <4>2, <4>3, ConnectionType
    <3> QED BY <1>17, <3>1 DEF CallEnds, LeaveConn
  <2> QED BY <1>17, <2>1, <2>2 DEF CallEnds
<1>18. ASSUME NEW k \in Client, UpstreamCloses(k) PROVE TypeOK'
  BY <1>18, GoneType DEF UpstreamCloses
<1>19. ASSUME NEW k \in Client, Closed(k) PROVE TypeOK'
  BY <1>19, GoneType DEF Closed
<1>20. ASSUME NEW k \in Client, NEW c \in Caller, Push(k, c) PROVE TypeOK'
  <2>1. Answerer \in Caller \cup {Pane}
    <3>1. CASE Connected /\ conn.inflight = 1 /\ Cardinality(conn.elicitors) = 1
      <4>1. conn.elicitors \in SUBSET Caller
        BY DEF Connection
      <4>2. \E e \in conn.elicitors : TRUE
        BY <3>1, <4>1, CallerAssumption, FS_Subset, FS_EmptySet
      <4> QED BY <3>1, <4>1, <4>2 DEF Answerer
    <3> QED BY <3>1 DEF Answerer
  <2> QED BY <1>20, <2>1 DEF Push, Route
<1>21. CASE UNCHANGED vars
  BY <1>21 DEF vars
<1> QED
  BY <1>1, <1>2, <1>3, <1>4, <1>5, <1>6, <1>7, <1>8, <1>9, <1>10, <1>11, <1>12, <1>13, <1>14,
     <1>15, <1>16, <1>17, <1>18, <1>19, <1>20, <1>21
  DEF Next, OpenStep

\* The three are inductive together: roles need types, counts need roles, and
\* the type of the count needs the count.
LEMMA PoolInvHolds == Spec => [](TypeOK /\ ClientsInv /\ InflightExact)
<1>1. Init => TypeOK
  BY EmptyTypes DEF Init, TypeOK
<1>2. TypeOK /\ ClientsInv /\ InflightExact /\ [Next]_vars
        => (TypeOK /\ ClientsInv /\ InflightExact)'
  BY ClientsInvStep, InflightStep, TypeStep
<1> QED BY <1>1, <1>2, ClientsInvInit, InflightInit, PTL DEF Spec

\* Every variable of the pool keeps its type; in particular the in-flight
\* count never goes below zero or above the number of callers.
THEOREM PoolTypeCorrect == Spec => []TypeOK
BY PoolInvHolds, PTL

\* The in-flight count and the elicitors are those of the calls sent on this
\* connection, however late calls on earlier connections end.
THEOREM InflightCorrect == Spec => []InflightExact
BY PoolInvHolds, PTL

-----------------------------------------------------------------------------
\* No upstream process or session is leaked: each one is closing, in use or
\* being opened, whatever fails and whatever overtakes an open.
THEOREM NoStrayCorrect == Spec => []NoStrayClient
<1>1. Init => NoStrayClient
  BY DEF Init, NoStrayClient
<1>2. TypeOK /\ ClientsInv /\ NoStrayClient /\ [Next]_vars => NoStrayClient'
  <2> SUFFICES ASSUME TypeOK, ClientsInv, NoStrayClient, [Next]_vars PROVE NoStrayClient'
    OBVIOUS
  <2>0. ASSUME UNCHANGED <<alive, closing, conn>>, open'.client = open.client PROVE NoStrayClient'
    BY <2>0 DEF NoStrayClient
  <2>1. ASSUME OpenFails, UNCHANGED conn, closing' \in {closing, closing \ {open.client}}
        PROVE  NoStrayClient'
    BY <2>1 DEF NoStrayClient, OpenFails
  <2>2. ASSUME RecordFailure, UNCHANGED <<conn, closing>> PROVE NoStrayClient'
    BY <2>0, <2>1, <2>2 DEF RecordFailure, TypeOK, Open
  <2>3. CASE FirstFails
    BY <2>0, <2>2, <2>3 DEF FirstFails, TypeOK, Open
  <2>4. CASE RetryFails \/ HintFound
    BY <2>1, <2>2, <2>4 DEF RetryFails, HintFound
  <2>5. CASE Opened
    BY <2>5, NoneAssumption DEF Opened, NoOpen, NoStrayClient, ClientsInv, Opening, Connected, TypeOK
  <2>6. CASE OpenedStale
    BY <2>6 DEF OpenedStale, NoStrayClient
  <2>7. CASE Reopen
    <3>1. CASE MayOpen
      BY <2>7, <3>1 DEF Reopen, Attempt, NoStrayClient
    <3> QED BY <2>1, <2>7, <3>1 DEF Reopen
  <2>8. ASSUME JoinOpen \/ (StartOpen /\ ~Opening), UNCHANGED <<conn, closing>> PROVE NoStrayClient'
    <3>1. CASE StartOpen /\ ~Opening
      BY <2>8, <3>1, NoneAssumption DEF StartOpen, Attempt, NoStrayClient, ClientsInv, TypeOK
    <3> QED BY <2>0, <2>8, <3>1 DEF JoinOpen
  <2>9. ASSUME Disconnect, UNCHANGED alive PROVE NoStrayClient'
    BY <2>9, NoneAssumption DEF Disconnect, NoConn, NoStrayClient, Connected, TypeOK, Open
  <2>10. CASE BackoffEnds \/ VerdictExpires \/ Install \/ Health \/ ProbeStart
    BY <2>0, <2>8, <2>10 DEF BackoffEnds, VerdictExpires, Install, Health, ProbeStart
  <2>11. CASE ProbeEnds \/ SweepIdle \/ Reconfigure \/ Uninstall
    BY <2>0, <2>9, <2>11 DEF ProbeEnds, SweepIdle, Reconfigure, Uninstall
  <2>12. ASSUME NEW c \in Caller, CallTool(c) PROVE NoStrayClient'
    BY <2>8, <2>12 DEF CallTool, CallNow, CallLater, NoStrayClient, TypeOK, Connection
  <2>13. ASSUME NEW c \in Caller, CallEnds(c) PROVE NoStrayClient'
    BY <2>13 DEF CallEnds, LeaveConn, NoStrayClient, TypeOK, Connection
  <2>14. ASSUME NEW k \in Client, UpstreamCloses(k) \/ Closed(k) PROVE NoStrayClient'
    BY <2>14 DEF UpstreamCloses, Closed, Gone, NoStrayClient
  <2>15. ASSUME NEW k \in Client, NEW c \in Caller, Push(k, c) PROVE NoStrayClient'
    BY <2>0, <2>15 DEF Push
  <2>16. CASE UNCHANGED vars
    BY <2>0, <2>16 DEF vars
  <2> QED
    BY <2>3, <2>4, <2>5, <2>6, <2>7, <2>10, <2>11, <2>12, <2>13, <2>14, <2>15, <2>16
    DEF Next, OpenStep
<1> QED BY <1>1, <1>2, PoolInvHolds, PTL DEF Spec

-----------------------------------------------------------------------------
(* The open that a reconfiguration overtakes knows it (stale); one it does *)
(* not know of is of an earlier installation, whose number is smaller.     *)

ConfigInv ==
  /\ SameInstallationConfig
  /\ Connected => conn.config.inst <= config.inst
  /\ Opening => open.config.inst <= config.inst
  /\ Opening /\ ~open.stale /\ open.config.inst = config.inst => open.config.ver = config.ver

LEMMA ConfigInvFrame ==
  ASSUME ConfigInv, UNCHANGED config,
         Connected' => Connected /\ conn'.config = conn.config,
         Opening' => Opening /\ open'.config = open.config /\ open'.stale = open.stale
  PROVE  ConfigInv'
BY DEF ConfigInv, SameInstallationConfig

LEMMA DisconnectConfig ==
  ASSUME TypeOK, ConfigInv, Disconnect
  PROVE  ~Connected' /\ (Opening' => Opening /\ open'.config = open.config /\ open'.stale)
BY DEF Disconnect, NoConn, Connected, Opening, TypeOK, Open

LEMMA StartOpenConfig ==
  ASSUME TypeOK, ConfigInv, UNCHANGED config, NEW k, open' = Attempt(k),
         Connected' => Connected /\ conn'.config = conn.config
  PROVE  ConfigInv'
BY DEF ConfigInv, SameInstallationConfig, Attempt, Opening, TypeOK, Config

LEMMA ConfigInvStep == TypeOK /\ ClientsInv /\ ConfigInv /\ [Next]_vars => ConfigInv'
<1> SUFFICES ASSUME TypeOK, ClientsInv, ConfigInv, [Next]_vars PROVE ConfigInv'
  OBVIOUS
<1>0. ASSUME UNCHANGED <<config, conn, open>> PROVE ConfigInv'
  BY <1>0, ConfigInvFrame DEF Connected, Opening
<1>1. ASSUME OpenFails, UNCHANGED <<config, conn>> PROVE ConfigInv'
  <2>1. ~Opening'
    BY <1>1 DEF OpenFails, NoOpen, Opening
  <2> QED BY <1>1, <2>1, ConfigInvFrame DEF Connected
<1>2. ASSUME Opening, NEW pc, open' = [open EXCEPT !.pc = pc], UNCHANGED <<config, conn>>
      PROVE  ConfigInv'
  BY <1>2, ConfigInvFrame DEF Opening, Connected, TypeOK, Open
<1>3. ASSUME Opening, RecordFailure, UNCHANGED <<config, conn>> PROVE ConfigInv'
  BY <1>1, <1>2, <1>3 DEF RecordFailure
<1>4. CASE FirstFails
  BY <1>2, <1>3, <1>4 DEF FirstFails, Opening, row
<1>5. CASE RetryFails \/ HintFound
  BY <1>1, <1>3, <1>5 DEF RetryFails, HintFound, Opening, row
<1>6. CASE Opened
  <2>1. Opening /\ ~open.stale /\ conn'.config = open.config /\ config' = config
    BY <1>6 DEF Opened, Opening, row
  <2>2. ~Opening'
    BY <1>6 DEF Opened, NoOpen, Opening
  <2> QED BY <2>1, <2>2 DEF ConfigInv, SameInstallationConfig
<1>7. CASE OpenedStale
  BY <1>2, <1>7 DEF OpenedStale, Opening, row
<1>8. CASE Reopen
  BY <1>1, <1>8, StartOpenConfig DEF Reopen, Connected, row
<1>9. ASSUME JoinOpen \/ StartOpen, UNCHANGED <<config, conn>> PROVE ConfigInv'
  BY <1>0, <1>9, StartOpenConfig DEF JoinOpen, StartOpen, Connected
<1>10. ASSUME Disconnect, UNCHANGED config PROVE ConfigInv'
  BY <1>10, DisconnectConfig DEF ConfigInv, SameInstallationConfig
<1>11. CASE BackoffEnds \/ VerdictExpires \/ Health \/ ProbeStart
  BY <1>0, <1>9, <1>11 DEF BackoffEnds, VerdictExpires, Health, ProbeStart, row
<1>12. CASE ProbeEnds \/ SweepIdle \/ Uninstall
  BY <1>0, <1>10, <1>12 DEF ProbeEnds, SweepIdle, Uninstall, row
<1>13. CASE Install
  <2>1. config'.inst = config.inst + 1 /\ UNCHANGED <<conn, open>>
    BY <1>13 DEF Install
  <2>2. /\ Connected => conn.config.inst \in Int
        /\ Opening => open.config.inst \in Int
        /\ config.inst \in Int
    BY BoundAssumption DEF TypeOK, Connection, Open, Config
  <2> QED BY <2>1, <2>2 DEF ConfigInv, SameInstallationConfig, Connected, Opening
<1>14. CASE Reconfigure
  <2>1. config'.inst = config.inst /\ Disconnect
    BY <1>14 DEF Reconfigure, TypeOK, Config
  <2> QED BY <2>1, DisconnectConfig DEF ConfigInv, SameInstallationConfig
<1>15. ASSUME NEW c \in Caller, CallTool(c) PROVE ConfigInv'
  <2>1. PICK elicits \in BOOLEAN : CallNow(c, elicits) \/ CallLater(c, elicits)
    BY <1>15 DEF CallTool
  <2>2. CASE CallNow(c, elicits)
    <3>1. Connected /\ conn'.config = conn.config /\ open' = open
      BY <2>2 DEF CallNow, TypeOK, Connection
    <3> QED BY <1>15, <3>1, ConfigInvFrame DEF CallTool, Opening, row
  <2> QED BY <1>9, <1>15, <2>1, <2>2 DEF CallTool, CallLater, row
<1>16. ASSUME NEW c \in Caller, CallEnds(c) PROVE ConfigInv'
  <2>1. conn'.config = conn.config /\ conn'.client = conn.client
    BY <1>16 DEF CallEnds, LeaveConn, TypeOK, Connection
  <2> QED BY <1>16, <2>1, ConfigInvFrame DEF CallEnds, Connected, Opening, row
<1>17. ASSUME NEW k \in Client, UpstreamCloses(k) \/ Closed(k) PROVE ConfigInv'
  <2>1. UNCHANGED <<config, open>> /\ conn' \in {conn, NoConn}
    BY <1>17 DEF UpstreamCloses, Closed, row
  <2> QED BY <2>1, ConfigInvFrame DEF Connected, NoConn, Opening
<1>18. ASSUME NEW k \in Client, NEW c \in Caller, Push(k, c) PROVE ConfigInv'
  BY <1>0, <1>18 DEF Push, row
<1>19. CASE UNCHANGED vars
  BY <1>0, <1>19 DEF vars, row
<1> QED
  BY <1>4, <1>5, <1>6, <1>7, <1>8, <1>11, <1>12, <1>13, <1>14, <1>15, <1>16, <1>17, <1>18, <1>19
  DEF Next, OpenStep

\* Within an installation no connection to an outdated configuration is in use.
THEOREM ConfigCorrect == Spec => []SameInstallationConfig
<1>1. Init => ConfigInv
  BY DEF Init, ConfigInv, SameInstallationConfig, Connected, NoConn, Opening, NoOpen
<1>2. Spec => []ConfigInv
  BY <1>1, ConfigInvStep, PoolInvHolds, PTL DEF Spec
<1> QED BY <1>2, PTL DEF ConfigInv

-----------------------------------------------------------------------------
(* A verdict is stored only when an open succeeds, which clears the        *)
(* backoff; so an open that found none, or retries, knows there is none.   *)

VerdictInv ==
  /\ NeverWedged
  /\ open.pc = "first" /\ verdict => open.prior
  /\ open.pc = "retry" => ~verdict

\* Steps that store no verdict, start no backoff and get no open further.
LEMMA VerdictInvFrame ==
  ASSUME VerdictInv, verdict' => verdict,
         failure'.state # "none" => failure.state # "none",
         (open'.pc = open.pc /\ open'.prior = open.prior) \/ open'.pc \in {"idle", "hint", "closing"}
  PROVE  VerdictInv'
BY DEF VerdictInv, NeverWedged

LEMMA StartOpenVerdict ==
  ASSUME VerdictInv, UNCHANGED <<verdict, failure>>, NEW k, open' = Attempt(k)
  PROVE  VerdictInv'
BY DEF VerdictInv, NeverWedged, Attempt

LEMMA RecordFailureVerdict ==
  ASSUME TypeOK, RecordFailure, UNCHANGED verdict, ~verdict PROVE VerdictInv'
BY DEF RecordFailure, OpenFails, NoOpen, VerdictInv, NeverWedged, TypeOK, Open

LEMMA DisconnectVerdict ==
  ASSUME TypeOK, VerdictInv, Disconnect, UNCHANGED failure, verdict' => verdict PROVE VerdictInv'
BY VerdictInvFrame DEF Disconnect, TypeOK, Open

LEMMA VerdictInvStep == TypeOK /\ VerdictInv /\ [Next]_vars => VerdictInv'
<1> SUFFICES ASSUME TypeOK, VerdictInv, [Next]_vars PROVE VerdictInv'
  OBVIOUS
<1>0. ASSUME UNCHANGED <<open, failure>>, verdict' => verdict PROVE VerdictInv'
  BY <1>0, VerdictInvFrame
<1>1. CASE FirstFails
  <2>1. CASE open' = [open EXCEPT !.pc = "retry"] /\ DropVerdict /\ UNCHANGED failure
    BY <1>1, <2>1 DEF FirstFails, DropVerdict, VerdictInv, NeverWedged, TypeOK, Open
  <2>2. CASE ~open.prior /\ RecordFailure /\ UNCHANGED verdict
    BY <1>1, <2>2, RecordFailureVerdict DEF FirstFails, VerdictInv
  <2> QED BY <1>1, <2>1, <2>2 DEF FirstFails
<1>2. CASE RetryFails
  BY <1>2, RecordFailureVerdict DEF RetryFails, VerdictInv
<1>3. CASE HintFound
  BY <1>3, VerdictInvFrame DEF HintFound, OpenFails, NoOpen
<1>4. CASE Opened
  BY <1>4 DEF Opened, NoOpen, NoFailure, VerdictInv, NeverWedged
<1>5. CASE OpenedStale
  <2>1. open'.pc = "closing" /\ failure'.state = "none" /\ verdict' = verdict
    BY <1>5 DEF OpenedStale, NoFailure, TypeOK, Open
  <2> QED BY <2>1, VerdictInvFrame
<1>6. CASE Reopen
  BY <1>6, StartOpenVerdict, VerdictInvFrame DEF Reopen, OpenFails, NoOpen
<1>7. CASE BackoffEnds
  <2>1. failure.state # "none" /\ UNCHANGED <<open, verdict>>
    BY <1>7 DEF BackoffEnds
  <2> QED BY <2>1, VerdictInvFrame
<1>8. ASSUME JoinOpen \/ StartOpen, UNCHANGED <<verdict, failure>> PROVE VerdictInv'
  BY <1>0, <1>8, StartOpenVerdict DEF JoinOpen, StartOpen
<1>9. CASE VerdictExpires \/ Install \/ Health \/ ProbeStart
  BY <1>0, <1>8, <1>9 DEF VerdictExpires, Install, Health, ProbeStart
<1>10. CASE ProbeEnds \/ SweepIdle \/ Reconfigure \/ Uninstall
  BY <1>0, <1>10, DisconnectVerdict DEF ProbeEnds, SweepIdle, Reconfigure, Uninstall
<1>11. ASSUME NEW c \in Caller, CallTool(c) \/ CallEnds(c) PROVE VerdictInv'
  BY <1>0, <1>8, <1>11 DEF CallTool, CallNow, CallLater, CallEnds
<1>12. ASSUME NEW k \in Client, UpstreamCloses(k) \/ Closed(k) PROVE VerdictInv'
  BY <1>0, <1>12 DEF UpstreamCloses, Closed
<1>13. ASSUME NEW k \in Client, NEW c \in Caller, Push(k, c) PROVE VerdictInv'
  BY <1>0, <1>13 DEF Push
<1>14. CASE UNCHANGED vars
  BY <1>0, <1>14 DEF vars
<1> QED
  BY <1>1, <1>2, <1>3, <1>4, <1>5, <1>6, <1>7, <1>9, <1>10, <1>11, <1>12, <1>13, <1>14
  DEF Next, OpenStep

\* A cached verdict that may have caused a failure never outlives the failure:
\* the next attempt negotiates anew.
THEOREM NeverWedgedCorrect == Spec => []NeverWedged
<1>1. Init => VerdictInv
  BY DEF Init, VerdictInv, NeverWedged, NoOpen
<1>2. Spec => []VerdictInv
  BY <1>1, VerdictInvStep, PoolTypeCorrect, PTL DEF Spec
<1> QED BY <1>2, PTL DEF VerdictInv

-----------------------------------------------------------------------------
\* The question of a call on the connection in use goes to its own caller or to
\* the pane: one call in flight means that call.
THEOREM RoutedCorrect == Spec => []RoutedWhenCurrent
<1>1. Init => RoutedWhenCurrent
  BY DEF Init, RoutedWhenCurrent, NoRoute
<1>2. TypeOK /\ InflightExact /\ RoutedWhenCurrent /\ [Next]_vars => RoutedWhenCurrent'
  <2> SUFFICES ASSUME TypeOK, InflightExact, RoutedWhenCurrent, [Next]_vars
               PROVE  RoutedWhenCurrent'
    OBVIOUS
  <2>1. CASE Unrouted
    BY <2>1 DEF Unrouted, NoRoute, RoutedWhenCurrent
  <2>2. CASE UNCHANGED vars
    BY <2>2 DEF vars, RoutedWhenCurrent
  <2>3. ASSUME NEW k \in Client, NEW c \in Caller, Push(k, c) PROVE RoutedWhenCurrent'
    <3> SUFFICES ASSUME c \in OnClient(k), conn.client = k, Answerer # Pane PROVE Answerer = c
      BY <2>3 DEF Push, RoutedWhenCurrent
    <3>1. /\ Connected /\ conn.inflight = 1 /\ Cardinality(conn.elicitors) = 1
          /\ Answerer = CHOOSE e \in conn.elicitors : TRUE
      BY DEF Answerer
    <3>2. OnClient(k) = {c}
      BY <3>1, OnClientFinite, FS_Singleton DEF InflightExact
    <3>3. conn.elicitors \in SUBSET {c}
      BY <3>1, <3>2 DEF InflightExact
    <3>4. conn.elicitors # {}
      BY <3>1, FS_EmptySet
    <3> QED BY <3>1, <3>3, <3>4
  <2>4. Next => Unrouted \/ \E k \in Client, c \in Caller : Push(k, c)
    BY DEF Next, OpenStep, FirstFails, RetryFails, HintFound, Opened, OpenedStale, Reopen, BackoffEnds,
           VerdictExpires, Health, ProbeStart, ProbeEnds, SweepIdle, Install, Reconfigure, Uninstall,
           CallTool, CallEnds, UpstreamCloses, Closed
  <2> QED BY <2>1, <2>2, <2>3, <2>4
<1> QED BY <1>1, <1>2, PoolInvHolds, PTL DEF Spec

\* Neither the idle sweep, nor the end of an index, nor the end of another open
\* takes the connection from under a call.
THEOREM CallsKeepTheirConnection == Spec => CallKeepsConnection
<1> DEFINE Dropped == Connected /\ conn.inflight > 0 /\ conn'.client # conn.client
<1>1. TypeOK /\ ClientsInv /\ [Next]_vars /\ Dropped
        => Reconfigure \/ Uninstall \/ \E k \in Client : UpstreamCloses(k)
  <2> SUFFICES ASSUME TypeOK, ClientsInv, Next, Dropped, ~Reconfigure, ~Uninstall,
                      \A k \in Client : ~UpstreamCloses(k)
               PROVE  FALSE
    BY DEF vars
  <2>1. CASE OpenStep
    <3>1. Opening
      BY <2>1 DEF OpenStep, FirstFails, RetryFails, HintFound, Opened, OpenedStale, Reopen, Opening
    <3> QED BY <3>1 DEF ClientsInv
  <2>2. CASE BackoffEnds \/ VerdictExpires \/ Health \/ ProbeStart \/ Install
    BY <2>2 DEF BackoffEnds, VerdictExpires, Health, ProbeStart, Install
  <2>3. CASE ProbeEnds \/ SweepIdle
    BY <2>3 DEF ProbeEnds, SweepIdle, OpenedHereUnused
  <2>4. ASSUME NEW c \in Caller, CallTool(c) \/ CallEnds(c) PROVE FALSE
    BY <2>4 DEF CallTool, CallNow, CallLater, CallEnds, LeaveConn, TypeOK, Connection
  <2>5. ASSUME NEW k \in Client, Closed(k) PROVE FALSE
    BY <2>5 DEF Closed
  <2>6. ASSUME NEW k \in Client, NEW c \in Caller, Push(k, c) PROVE FALSE
    BY <2>6 DEF Push
  <2> QED BY <2>1, <2>2, <2>3, <2>4, <2>5, <2>6 DEF Next
<1> QED BY <1>1, PoolInvHolds, PTL DEF Spec, CallKeepsConnection

-----------------------------------------------------------------------------
(* The mirror of the registry (RegistryMirror) *)

\* A set of naturals has a least, and a bounded one a greatest element.
LessThan == {ss \in Nat \X Nat : ss[1] < ss[2]}

LEMMA LessThanIsWellFounded == IsWellFoundedOn(LessThan, Nat)
BY NatLessThanWellFounded DEF OpToRel, LessThan

LEMMA LeastExists ==
  ASSUME NEW S \in SUBSET Nat, S # {}
  PROVE  \E x \in S : \A y \in S : x <= y
<1>1. PICK x \in S : \A y \in S : ~(<<y, x>> \in LessThan)
  BY WFMin, LessThanIsWellFounded, Zenon
<1>2. ASSUME NEW y \in S PROVE x <= y
  <2>1. y \in Nat /\ x \in Nat /\ ~(<<y, x>> \in LessThan)
    BY <1>1
  <2> QED BY <2>1 DEF LessThan
<1> QED BY <1>2

\* The greatest is as far below the bound as the least.
LEMMA GreatestExists ==
  ASSUME NEW n \in Nat, NEW S \in SUBSET (0..n), S # {}
  PROVE  \E x \in S : \A y \in S : y <= x
<1> DEFINE below == {m \in 0..n : n - m \in S}
<1>1. below \in SUBSET Nat /\ below # {}
  <2>1. PICK x \in S : TRUE
    OBVIOUS
  <2>2. x \in 0..n /\ n - (n - x) = x /\ n - x \in 0..n
    BY <2>1
  <2>3. n - x \in below
    BY <2>2
  <2>4. below \in SUBSET Nat
    OBVIOUS
  <2> HIDE DEF below
  <2> QED BY <2>3, <2>4
<1>2. \A y \in S : n - y \in below
  OBVIOUS
<1>3. \A m \in below : m \in 0..n /\ n - m \in S
  OBVIOUS
<1> HIDE DEF below
<1>4. PICK m \in below : \A l \in below : m <= l
  BY <1>1, LeastExists
<1>5. ASSUME NEW y \in S PROVE y <= n - m
  <2>1. m <= n - y /\ y \in 0..n /\ m \in 0..n
    BY <1>2, <1>3, <1>4
  <2> QED BY <2>1
<1> QED BY <1>3, <1>5

LEMMA GreatestIs ==
  ASSUME NEW n \in Nat, NEW S \in SUBSET (0..n), S # {}
  PROVE  Greatest(S) \in S /\ \A y \in S : y <= Greatest(S)
BY GreatestExists DEF Greatest

\* A set of keys has a first and a last one.
LEMMA FirstKey ==
  ASSUME NEW S \in SUBSET Key, S # {}
  PROVE  \E k \in S : \A l \in S : ~Before(l, k)
<1> DEFINE names == {k[1] : k \in S}
<1>1. names \in SUBSET Nat /\ names # {}
  BY BoundsAssumption DEF Key, Name
<1>2. PICK n \in names : \A m \in names : n <= m
  <2> HIDE DEF names
  <2> QED BY <1>1, LeastExists
<1> DEFINE versions == {k[2] : k \in {l \in S : l[1] = n}}
<1>3. versions \in SUBSET Nat /\ versions # {}
  BY BoundsAssumption DEF Key, Version
<1>4. PICK v \in versions : \A w \in versions : v <= w
  <2> HIDE DEF versions
  <2> QED BY <1>3, LeastExists
<1>5. PICK k \in S : k[1] = n /\ k[2] = v
  OBVIOUS
<1>6. ASSUME NEW l \in S PROVE ~Before(l, k)
  <2>1. n <= l[1] /\ (l[1] = n => v <= l[2])
    BY <1>2, <1>4
  <2>2. l[1] \in Nat /\ l[2] \in Nat /\ n \in Nat /\ v \in Nat
    BY <1>5 DEF Key, Name, Version
  <2> QED BY <1>5, <2>1, <2>2 DEF Before
<1> QED BY <1>6

LEMMA LastKey ==
  ASSUME NEW S \in SUBSET Key, S # {}
  PROVE  LastOf(S) \in S /\ \A l \in S : ~Before(LastOf(S), l)
<1> DEFINE names == {k[1] : k \in S}
<1>1. names \in SUBSET (0..Names) /\ names # {}
  BY BoundsAssumption DEF Key, Name
<1>2. PICK n \in names : \A m \in names : m <= n
  <2> HIDE DEF names
  <2> QED BY <1>1, GreatestExists, BoundsAssumption
<1> DEFINE versions == {k[2] : k \in {l \in S : l[1] = n}}
<1>3. versions \in SUBSET (0..MaxVersions) /\ versions # {}
  BY BoundsAssumption DEF Key, Version
<1>4. PICK v \in versions : \A w \in versions : w <= v
  <2> HIDE DEF versions
  <2> QED BY <1>3, GreatestExists, BoundsAssumption
<1>5. PICK k \in S : k[1] = n /\ k[2] = v
  OBVIOUS
<1>6. ASSUME NEW l \in S PROVE ~Before(k, l)
  <2>1. l[1] <= n /\ (l[1] = n => l[2] <= v)
    BY <1>2, <1>4
  <2>2. l[1] \in Nat /\ l[2] \in Nat /\ n \in Nat /\ v \in Nat
    BY <1>5 DEF Key, Name, Version
  <2> QED BY <1>5, <2>1, <2>2 DEF Before
<1> QED BY <1>6 DEF LastOf

\* A key, or where a sync begins: Before orders them.
Place == Nat \X Nat

LEMMA KeyIsPlace == Key \subseteq Place
BY BoundsAssumption DEF Key, Place, Name, Version

LEMMA InOrder ==
  ASSUME NEW k \in Place, NEW l \in Place, NEW m \in Place
  PROVE  /\ Before(k, l) /\ Before(l, m) => Before(k, m)
         /\ ~Before(l, k) /\ Before(l, m) => Before(k, m)
         /\ Before(k, l) /\ ~Before(m, l) => Before(k, m)
         /\ k = l \/ Before(k, l) \/ Before(l, k)
         /\ ~Before(k, k)
<1>1. k = <<k[1], k[2]>> /\ l = <<l[1], l[2]>> /\ k[1] \in Nat /\ k[2] \in Nat /\ l[1] \in Nat /\ l[2] \in Nat
       /\ m[1] \in Nat /\ m[2] \in Nat
  BY DEF Place
<1> QED BY <1>1 DEF Before

\* The keys a sync at a place has asked for.
UpTo(place) == {k \in Key : ~Before(place, k)}

LEMMA KeysFinite == IsFiniteSet(Key) /\ Cardinality(Key) = Names * MaxVersions
<1>1. IsFiniteSet(Name) /\ Cardinality(Name) = Names
  BY FS_Interval, BoundsAssumption DEF Name
<1>2. IsFiniteSet(Version) /\ Cardinality(Version) = MaxVersions
  BY FS_Interval, BoundsAssumption DEF Version
<1> QED BY <1>1, <1>2, FS_Product DEF Key

LEMMA FinitelyMany ==
  ASSUME NEW S \in SUBSET Key
  PROVE  IsFiniteSet(S) /\ Cardinality(S) \in Nat
         /\ \A T \in SUBSET S : Cardinality(T) <= Cardinality(S)
<1>1. IsFiniteSet(S)
  BY KeysFinite, FS_Subset
<1> QED BY <1>1, FS_CardinalityType, FS_Subset

\* A page has the first of what is listed, and is full unless that is all.
LEMMA PageIsFirst ==
  ASSUME NEW all \in SUBSET Key
  PROVE  /\ Page(all) \subseteq all
         /\ \A k \in Page(all), l \in all : Before(l, k) => l \in Page(all)
         /\ Page(all) # all => Cardinality(Page(all)) >= PageLimit /\ Page(all) # {}
<1> DEFINE before(k) == {l \in all : Before(l, k)}
<1>1. Page(all) = {k \in all : Cardinality(before(k)) < PageLimit}
  BY DEF Page
<1>2. ASSUME NEW k \in Page(all), NEW l \in all, Before(l, k) PROVE l \in Page(all)
  <2>1. before(l) \subseteq before(k)
    BY <1>1, <1>2, KeyIsPlace, InOrder
  <2>2. before(k) \in SUBSET Key /\ before(l) \in SUBSET before(k)
    BY <2>1
  <2>3. Cardinality(before(l)) <= Cardinality(before(k)) /\ Cardinality(before(k)) \in Nat
        /\ Cardinality(before(l)) \in Nat
    BY <2>2, FinitelyMany
  <2>4. Cardinality(before(k)) < PageLimit
    BY <1>1
  <2>5. Cardinality(before(l)) < PageLimit
    BY <2>3, <2>4, PagesArePositive
  <2> QED BY <1>1, <2>5
<1>3. ASSUME Page(all) # all PROVE Cardinality(Page(all)) >= PageLimit /\ Page(all) # {}
  <2> DEFINE rest == all \ Page(all)
  <2>1. rest \in SUBSET Key /\ rest # {} /\ Page(all) \in SUBSET Key
    BY <1>1, <1>3
  <2>2. PICK m \in rest : \A l \in rest : ~Before(l, m)
    <3> HIDE DEF rest
    <3> QED BY <2>1, FirstKey
  <2>3. before(m) \in SUBSET Page(all)
    BY <2>2
  <2>4. ~(Cardinality(before(m)) < PageLimit)
    BY <1>1, <2>2
  <2>5. Cardinality(before(m)) <= Cardinality(Page(all)) /\ Cardinality(before(m)) \in Nat
        /\ Cardinality(Page(all)) \in Nat
    BY <2>1, <2>3, FinitelyMany
  <2>6. Cardinality(Page(all)) >= PageLimit
    BY <2>4, <2>5, PagesArePositive
  <2>7. Page(all) # {}
    BY <2>6, FS_EmptySet, PagesArePositive
  <2> QED BY <2>6, <2>7
<1> QED BY <1>1, <1>2, <1>3

-----------------------------------------------------------------------------
(* The registry, and what it answers. *)

Kinds == [status : {"active", "deleted"}, updated : Nat]

RegistryInv ==
  /\ clock \in Nat \ {0}
  /\ registry \in [Name -> Seq(Kinds)]
  /\ \A n \in Name : /\ Len(registry[n]) <= MaxVersions
                     /\ \A v \in 1..Len(registry[n]) : registry[n][v].updated \in 1..clock

\* What an answer to a request has in it, of the names that have not changed since.
AnswerTo(p, from, after, pages) ==
  /\ \A e \in p.entries :
       /\ e.name \in Name /\ e.updated \in 0..clock
       /\ e.name \notin raced => e.version \in 1..Len(registry[e.name]) /\ e = Entry(e.name, e.version)
  /\ \A n \in Name \ raced : \A v \in 1..Len(registry[n]) :
       Listed(from, after, <<n, v>>) /\ (p.next = Nil \/ ~Before(p.next, <<n, v>>))
         => Entry(n, v) \in p.entries
  /\ p.next # Nil =>
       /\ p.next \in Key
       /\ UpTo(p.next) # Key /\ Cardinality(UpTo(p.next)) >= (pages + 1) * PageLimit

-----------------------------------------------------------------------------
LEMMA KeysListed ==
  ASSUME RegistryInv, NEW n \in Name, NEW v \in 1..Len(registry[n])
  PROVE  <<n, v>> \in Key /\ v \in DOMAIN registry[n] /\ registry[n][v].updated \in 1..clock
<1>1. Len(registry[n]) \in Nat /\ Len(registry[n]) <= MaxVersions
  BY DEF RegistryInv
<1> QED BY <1>1, BoundsAssumption DEF RegistryInv, Key, Version

LEMMA AnswerIs ==
  ASSUME RegistryInv, NEW from \in Nat, NEW after \in Place, NEW pages \in Nat,
         Cardinality(UpTo(after)) >= pages * PageLimit
  PROVE  AnswerTo(Answer(from, after), from, after, pages)
<1> DEFINE all == {k \in Key : Listed(from, after, k)}
           p == Answer(from, after)
<1>1. /\ p.entries = {Entry(k[1], k[2]) : k \in Page(all)}
      /\ p.next = IF Page(all) = all THEN Nil ELSE LastOf(Page(all))
  BY DEF Answer
<1>2. all \in SUBSET Key
  OBVIOUS
<1>3. /\ Page(all) \subseteq all
      /\ \A k \in Page(all), l \in all : Before(l, k) => l \in Page(all)
      /\ Page(all) # all => Cardinality(Page(all)) >= PageLimit /\ Page(all) # {}
  <2> HIDE DEF all
  <2> QED BY <1>2, PageIsFirst
<1>4. Page(all) # all => /\ LastOf(Page(all)) \in Page(all)
                         /\ \A l \in Page(all) : ~Before(LastOf(Page(all)), l)
  BY <1>2, <1>3, LastKey
<1>5. \A k \in all : /\ k \in Key /\ k = <<k[1], k[2]>> /\ k[1] \in Name /\ k[2] \in 1..Len(registry[k[1]])
                     /\ Before(after, k)
  BY DEF Listed, Key, RegistryInv
<1> HIDE DEF p, all
<1>6. ASSUME NEW e \in p.entries
      PROVE  /\ e.name \in Name /\ e.updated \in 0..clock
             /\ e.version \in 1..Len(registry[e.name]) /\ e = Entry(e.name, e.version)
  <2>1. PICK k \in Page(all) : e = Entry(k[1], k[2])
    BY <1>1
  <2>2. k[1] \in Name /\ k[2] \in 1..Len(registry[k[1]])
    BY <1>3, <1>5
  <2>3. e.name = k[1] /\ e.version = k[2] /\ e.updated = registry[k[1]][k[2]].updated
    BY <2>1 DEF Entry
  <2> QED BY <2>1, <2>2, <2>3, KeysListed DEF RegistryInv
<1>7. ASSUME NEW n \in Name, NEW v \in 1..Len(registry[n]), Listed(from, after, <<n, v>>),
             p.next = Nil \/ ~Before(p.next, <<n, v>>)
      PROVE  Entry(n, v) \in p.entries
  <2>1. <<n, v>> \in all
    BY <1>7, KeysListed DEF all
  <2>2. <<n, v>> \in Page(all)
    <3>1. CASE Page(all) = all
      BY <2>1, <3>1
    <3>2. CASE Page(all) # all
      <4>1. p.next = LastOf(Page(all)) /\ p.next \in Page(all) /\ p.next \in Key
        BY <1>1, <1>2, <1>3, <1>4, <3>2
      <4>2. p.next # Nil
        BY <4>1, NilAssumption
      <4>3. <<n, v>> = p.next \/ Before(<<n, v>>, p.next)
        BY <1>2, <1>7, <2>1, <4>1, <4>2, KeyIsPlace, InOrder
      <4> QED BY <1>3, <2>1, <4>1, <4>3
    <3> QED BY <3>1, <3>2
  <2>3. \A k \in Page(all) : Entry(k[1], k[2]) \in p.entries
    BY <1>1
  <2> QED BY <2>2, <2>3
<1>8. ASSUME p.next # Nil
      PROVE  /\ p.next \in Key
             /\ UpTo(p.next) # Key /\ Cardinality(UpTo(p.next)) >= (pages + 1) * PageLimit
  <2>1. /\ Page(all) # all /\ p.next = LastOf(Page(all)) /\ p.next \in Page(all) /\ p.next \in Key
        /\ \A l \in Page(all) : ~Before(p.next, l)
        /\ Page(all) \in SUBSET Key
    BY <1>1, <1>2, <1>3, <1>4, <1>8
  <2>2. UpTo(p.next) # Key
    <3>1. PICK l \in all : l \notin Page(all)
      BY <1>3, <2>1
    <3>2. Before(p.next, l)
      BY <1>2, <1>3, <2>1, <3>1, KeyIsPlace, InOrder
    <3> QED BY <1>2, <3>1, <3>2 DEF UpTo
  <2>3. UpTo(after) \cup Page(all) \in SUBSET UpTo(p.next)
    <3>1. ASSUME NEW k \in UpTo(after) PROVE k \in UpTo(p.next)
      <4>1. Before(after, p.next) /\ k \in Key /\ ~Before(after, k)
        BY <1>3, <1>5, <2>1 DEF UpTo
      <4>2. ~Before(p.next, k)
        BY <2>1, <4>1, KeyIsPlace, InOrder
      <4> QED BY <4>1, <4>2 DEF UpTo
    <3> QED BY <2>1, <3>1 DEF UpTo
  <2>4. UpTo(after) \cap Page(all) = {}
    BY <1>3, <1>5 DEF UpTo
  <2>5. /\ UpTo(after) \in SUBSET Key /\ UpTo(p.next) \in SUBSET Key
    BY DEF UpTo
  <2>6. Cardinality(UpTo(after) \cup Page(all)) = Cardinality(UpTo(after)) + Cardinality(Page(all))
    <3>1. /\ IsFiniteSet(UpTo(after)) /\ Cardinality(UpTo(after)) \in Nat
          /\ IsFiniteSet(Page(all)) /\ Cardinality(Page(all)) \in Nat
      BY <2>1, <2>5, FinitelyMany
    <3>2. Cardinality(UpTo(after) \cap Page(all)) = 0
      BY <2>4, FS_EmptySet
    <3> DEFINE old == UpTo(after)  new == Page(all)
    <3> HIDE DEF old, new
    <3>3. Cardinality(old \cup new) = Cardinality(old) + Cardinality(new) - Cardinality(old \cap new)
      BY <3>1, FS_Union DEF old, new
    <3> QED BY <3>1, <3>2, <3>3 DEF old, new
  <2>7. Cardinality(UpTo(p.next)) >= Cardinality(UpTo(after)) + Cardinality(Page(all))
    BY <2>3, <2>5, <2>6, FinitelyMany
  <2>8. /\ Cardinality(UpTo(p.next)) \in Nat /\ Cardinality(UpTo(after)) \in Nat
        /\ Cardinality(Page(all)) \in Nat /\ Cardinality(Page(all)) >= PageLimit
    BY <1>3, <2>1, <2>5, FinitelyMany
  <2>9. (pages + 1) * PageLimit = pages * PageLimit + PageLimit /\ pages * PageLimit \in Nat
    BY PagesArePositive
  <2> QED BY <2>1, <2>2, <2>7, <2>8, <2>9, PagesArePositive
<1> QED BY <1>6, <1>7, <1>8 DEF AnswerTo, p

-----------------------------------------------------------------------------
RowsInv == mirror = [n \in Name |-> mirror[n]] /\ since \in 0..clock

Syncs == [since : Nat, after : Place, pages : Nat, newest : Nat, running : BOOLEAN]

SyncInv ==
  /\ sync \in Syncs /\ sync.newest <= clock
  /\ sync.running => sync.since = since
  /\ Cardinality(UpTo(sync.after)) >= sync.pages * PageLimit
  /\ page # Nil => sync.running /\ AnswerTo(page, sync.since, sync.after, sync.pages)

\* A server that has not changed is as it is in the mirror, or is still to come: in
\* this sync, after its cursor, or in the next one.
CoverInv ==
  \A n \in Name \ raced : registry[n] # <<>> =>
    \/ Current(n)
    \/ IF sync.running THEN Listed(sync.since, sync.after, <<n, Len(registry[n])>>)
                       ELSE Latest(n).updated > since

LookInv ==
  look # Nil =>
    /\ look.name \in Name
    /\ look.name \notin raced => registry[look.name] # <<>> /\ look = Entry(look.name, Len(registry[look.name]))

ReplyInv == reply # Nil /\ reply.from = "mirror" => reply.names = Found

MirrorInv == RegistryInv /\ RowsInv /\ SyncInv /\ CoverInv /\ LookInv /\ ReplyInv

\* What is stored of a page: the latest version, if it is on it, or is in the mirror.
LEMMA LastEntry ==
  ASSUME RegistryInv, NEW n \in Name, registry[n] # <<>>
  PROVE  LET last == Entry(n, Len(registry[n]))
         IN  /\ Len(registry[n]) \in Nat \ {0}
             /\ last.name = n /\ last.version = Len(registry[n]) /\ last.latest = TRUE
             /\ last.status = Latest(n).status /\ last.updated = Latest(n).updated
             /\ \A v \in 1..Len(registry[n]) : Entry(n, v).latest = (v = Len(registry[n]))
<1>1. registry[n] \in Seq(Kinds)
  BY DEF RegistryInv
<1>2. Len(registry[n]) \in Nat \ {0}
  BY <1>1
<1> QED BY <1>2 DEF Entry, Latest

LEMMA LatestTime ==
  ASSUME RegistryInv, NEW n \in Name, registry[n] # <<>>
  PROVE  Len(registry[n]) \in 1..Len(registry[n]) /\ Latest(n).updated \in 1..clock
<1> DEFINE v == Len(registry[n])
<1>1. v \in 1..v
  BY LastEntry
<1> QED BY <1>1, KeysListed DEF Latest

LEMMA UpsertKeepsLatest ==
  ASSUME RegistryInv, NEW n \in Name, registry[n] # <<>>, NEW m, NEW entries,
         \A e \in entries : e.name = n =>
           e.version \in 1..Len(registry[n]) /\ e = Entry(n, e.version),
         Entry(n, Len(registry[n])) \in entries \/ m[n] = Row(Entry(n, Len(registry[n])))
  PROVE  UpsertAll(m, entries)[n] = Row(Entry(n, Len(registry[n])))
<1> DEFINE last == Entry(n, Len(registry[n]))
           es == {e \in entries : e.name = n}
           stay == {e \in es : Stays(e, m[n], es)}
<1>1. /\ last.name = n /\ last.version = Len(registry[n]) /\ last.latest
      /\ Len(registry[n]) \in Nat \ {0}
      /\ \A v \in 1..Len(registry[n]) : Entry(n, v).latest <=> v = Len(registry[n])
  BY LastEntry
<1>2. UpsertAll(m, entries)[n] = IF stay = {} THEN m[n] ELSE Row(CHOOSE e \in stay : TRUE)
  BY DEF UpsertAll
<1>3. \A e \in es : /\ e.version \in 1..Len(registry[n]) /\ e = Entry(n, e.version)
                    /\ e.latest <=> e.version = Len(registry[n])
                    /\ e.latest => e = last
  BY <1>1
<1>4. CASE last \in entries
  <2>1. last \in es
    BY <1>1, <1>4
  <2> HIDE DEF last, es
  <2>2. \A e \in es : Stays(e, m[n], es) <=> e = last
    BY <1>1, <1>3, <2>1 DEF Stays
  <2>3. stay = {last}
    BY <2>1, <2>2
  <2> HIDE DEF stay
  <2> QED BY <1>2, <2>3 DEF last
<1>5. CASE last \notin entries
  <2>1. \A e \in es : ~e.latest
    BY <1>3, <1>5
  <2>2. m[n] = Row(last) /\ m[n].version = Len(registry[n]) /\ m[n] # NoRow
    BY <1>1, <1>5 DEF Row, NoRow
  <2>3. \A e \in es : m[n].version # e.version
    BY <1>3, <2>1, <2>2
  <2> HIDE DEF last, es
  <2>4. \A e \in es : ~Stays(e, m[n], es)
    BY <2>1, <2>2, <2>3 DEF Stays, Replaces
  <2>5. stay = {}
    BY <2>4
  <2> QED BY <1>2, <2>2, <2>5 DEF last
<1> QED BY <1>4, <1>5

-----------------------------------------------------------------------------
\* The registry changes.
LEMMA ChangeStep ==
  ASSUME MirrorInv, NEW n \in Name, NEW s \in Seq(Kinds), NEW v,
         s # <<>>, Len(s) <= MaxVersions, clock' = clock + 1,
         registry' = [registry EXCEPT ![n] = s],
         \A i \in 1..Len(s) : s[i].updated \in 1..(clock + 1),
         IF v = Len(s) THEN s[Len(s)].updated = clock + 1
                       ELSE registry[n] # <<>> /\ Len(s) = Len(registry[n]) /\ s[Len(s)] = Latest(n),
         Races(n, v), NoReply, UNCHANGED <<rows, sync, page, look>>
  PROVE  MirrorInv'
<1> USE DEF MirrorInv
<1>1. /\ registry' \in [Name -> Seq(Kinds)] /\ registry'[n] = s
      /\ \A m \in Name : m # n => registry'[m] = registry[m]
      /\ clock \in Nat \ {0} /\ clock' = clock + 1
  BY DEF RegistryInv
<1>2. RegistryInv'
  <2>1. ASSUME NEW m \in Name
        PROVE  /\ Len(registry'[m]) <= MaxVersions
               /\ \A i \in 1..Len(registry'[m]) : registry'[m][i].updated \in 1..clock'
    <3>1. CASE m = n
      BY <1>1, <3>1
    <3>2. CASE m # n
      BY <1>1, <3>2 DEF RegistryInv
    <3> QED BY <3>1, <3>2
  <2> QED BY <1>1, <2>1 DEF RegistryInv
<1>3. /\ \A m \in Name : m \notin raced' /\ m # n => m \notin raced
      /\ n \notin raced' => ~sync.running /\ look = Nil /\ (v = Len(s) \/ n \notin raced)
      /\ sync.running \/ look # Nil => n \in raced'
  BY <1>1 DEF Races
<1>4. ASSUME NEW m \in Name, m # n
      PROVE  /\ \A i : Entry(m, i)' = Entry(m, i)
             /\ Latest(m)' = Latest(m) /\ Current(m)' = Current(m)
             /\ \A from, after, i : Listed(from, after, <<m, i>>)' = Listed(from, after, <<m, i>>)
  BY <1>1, <1>4 DEF Entry, Latest, Current, Listed, Row, rows
<1>5. RowsInv'
  BY <1>1 DEF RowsInv, rows
<1>6. SyncInv'
  <2>1. CASE page = Nil
    BY <1>1, <2>1 DEF SyncInv, rows, Syncs
  <2>2. CASE page # Nil
    <3>1. AnswerTo(page, sync.since, sync.after, sync.pages) /\ sync.running
      BY <2>2 DEF SyncInv
    <3>2. ASSUME NEW e \in page.entries
          PROVE  /\ e.name \in Name /\ e.updated \in 0..clock'
                 /\ e.name \notin raced' => /\ e.version \in 1..Len(registry'[e.name])
                                            /\ e = Entry(e.name, e.version)'
      BY <1>1, <1>3, <1>4, <3>1 DEF AnswerTo
    <3>3. ASSUME NEW m \in Name \ raced', NEW i \in 1..Len(registry'[m]),
                 Listed(sync.since, sync.after, <<m, i>>)',
                 page.next = Nil \/ ~Before(page.next, <<m, i>>)
          PROVE  Entry(m, i)' \in page.entries
      <4>1. m # n /\ m \notin raced
        BY <1>3, <3>1, <3>3
      <4>2. Listed(sync.since, sync.after, <<m, i>>) /\ i \in 1..Len(registry[m]) /\ Entry(m, i)' = Entry(m, i)
        BY <1>1, <1>4, <3>3, <4>1
      <4> QED BY <3>1, <3>3, <4>1, <4>2 DEF AnswerTo
    <3>4. AnswerTo(page, sync.since, sync.after, sync.pages)'
      BY <3>1, <3>2, <3>3 DEF AnswerTo, UpTo
    <3> QED BY <1>1, <3>1, <3>4 DEF SyncInv, rows, Syncs
  <2> QED BY <2>1, <2>2
<1>7. CoverInv'
  <2> SUFFICES ASSUME NEW m \in Name, m \notin raced', registry'[m] # <<>>, ~Current(m)'
               PROVE  IF sync.running THEN Listed(sync.since, sync.after, <<m, Len(registry[m])>>)'
                                      ELSE Latest(m)'.updated > since
    BY DEF CoverInv, rows
  <2>1. CASE m # n
    BY <1>1, <1>3, <1>4, <2>1 DEF CoverInv
  <2>2. CASE m = n
    <3>1. ~sync.running /\ Latest(n)' = s[Len(s)]
      BY <1>1, <1>3, <2>2 DEF Latest
    <3>2. CASE v = Len(s)
      BY <1>1, <2>2, <3>1, <3>2 DEF RowsInv
    <3>3. CASE v # Len(s)
      <4>1. n \notin raced /\ registry[n] # <<>> /\ Latest(n)' = Latest(n)
        BY <1>3, <2>2, <3>1, <3>3
      <4>2. Entry(n, Len(registry[n]))' = Entry(n, Len(registry[n]))
        BY <1>1, <3>3 DEF Entry, Latest
      <4>3. ~Current(n)
        BY <1>1, <2>2, <3>3, <4>2 DEF Current, rows
      <4> QED BY <2>2, <3>1, <4>1, <4>3 DEF CoverInv
    <3> QED BY <3>2, <3>3
  <2> QED BY <2>1, <2>2
<1>8. LookInv'
  BY <1>1, <1>3, <1>4 DEF LookInv
<1>9. ReplyInv'
  BY DEF ReplyInv, NoReply
<1> QED BY <1>2, <1>5, <1>6, <1>7, <1>8, <1>9

LEMMA Restamped ==
  ASSUME NEW f \in Seq(Kinds), NEW i \in 1..Len(f), NEW t \in Nat
  PROVE  LET g == [f EXCEPT ![i].updated = t]
         IN  /\ g \in Seq(Kinds) /\ Len(g) = Len(f)
             /\ \A j \in 1..Len(f) : g[j].updated = IF j = i THEN t ELSE f[j].updated
<1> DEFINE k == [f[i] EXCEPT !.updated = t]
<1>1. k \in Kinds /\ k.updated = t
  <2>1. f[i] \in Kinds
    OBVIOUS
  <2> QED BY <2>1 DEF Kinds
<1>2. [f EXCEPT ![i].updated = t] = [f EXCEPT ![i] = k]
  OBVIOUS
<1> HIDE DEF k
<1> QED BY <1>1, <1>2

LEMMA Appended ==
  ASSUME NEW f \in Seq(Kinds), NEW k \in Kinds
  PROVE  LET g == Append(f, k)
         IN  /\ g \in Seq(Kinds) /\ Len(g) = Len(f) + 1 /\ g # <<>> /\ g[Len(g)] = k
             /\ \A j \in 1..Len(f) : g[j] = f[j]
OBVIOUS

LEMMA PublishStep == ASSUME MirrorInv, NEW n \in Name, Publish(n) PROVE MirrorInv'
<1>1. registry[n] \in Seq(Kinds) /\ clock \in Nat \ {0} /\ Len(registry[n]) \in Nat /\ clock' = clock + 1
      /\ \A i \in 1..Len(registry[n]) : registry[n][i].updated \in 1..clock
  BY DEF MirrorInv, RegistryInv, Publish, Tick
<1> DEFINE new == [status |-> "active", updated |-> clock']
<1>2. PICK old : /\ old = registry[n] \/ (registry[n] # <<>> /\ old = [registry[n] EXCEPT ![Len(registry[n])].updated = clock'])
                 /\ registry' = [registry EXCEPT ![n] = Append(old, new)]
  BY <1>1 DEF Publish
<1>3. /\ old \in Seq(Kinds) /\ Len(old) = Len(registry[n])
      /\ \A i \in 1..Len(old) : old[i].updated \in 1..(clock + 1)
  <2>1. CASE old = registry[n]
    BY <1>1, <2>1
  <2>2. CASE registry[n] # <<>> /\ old = [registry[n] EXCEPT ![Len(registry[n])].updated = clock']
    <3>1. Len(registry[n]) \in 1..Len(registry[n]) /\ clock' \in Nat /\ clock' \in 1..(clock + 1)
      BY <1>1, <2>2
    <3>2. /\ old \in Seq(Kinds) /\ Len(old) = Len(registry[n])
          /\ \A j \in 1..Len(registry[n]) :
               old[j].updated = IF j = Len(registry[n]) THEN clock' ELSE registry[n][j].updated
      BY <1>1, <2>2, <3>1, Restamped
    <3> QED BY <1>1, <3>1, <3>2
  <2> QED BY <1>2, <2>1, <2>2
<1> DEFINE s == Append(old, new)
<1>4. /\ s \in Seq(Kinds) /\ Len(s) = Len(registry[n]) + 1 /\ s # <<>> /\ s[Len(s)] = new
      /\ \A i \in 1..Len(s) : s[i].updated \in 1..(clock + 1)
  <2>1. new \in Kinds /\ new.updated = clock + 1
    BY <1>1 DEF Kinds
  <2> HIDE DEF new
  <2>2. /\ s \in Seq(Kinds) /\ Len(s) = Len(old) + 1 /\ s # <<>> /\ s[Len(s)] = new
        /\ \A i \in 1..Len(old) : s[i] = old[i]
    BY <1>3, <2>1, Appended
  <2>3. \A i \in 1..Len(s) : i \in 1..Len(old) \/ i = Len(s)
    BY <1>1, <1>3, <2>2
  <2> HIDE DEF s
  <2>4. ASSUME NEW i \in 1..Len(s) PROVE s[i].updated \in 1..(clock + 1)
    <3>1. CASE i \in 1..Len(old)
      BY <1>3, <2>2, <3>1
    <3>2. CASE i = Len(s)
      BY <1>1, <2>1, <2>2, <3>2
    <3> QED BY <2>3, <3>1, <3>2
  <2> QED BY <1>3, <2>2, <2>4
<1>5. new.updated = clock + 1
  BY <1>1
<1>6. registry'[n] = s /\ Len(s) <= MaxVersions
  <2>1. Len(registry[n]) < MaxVersions
    BY DEF Publish
  <2>2. registry' = [registry EXCEPT ![n] = s]
    BY <1>2
  <2> HIDE DEF s
  <2>3. registry'[n] = s
    BY <2>2 DEF MirrorInv, RegistryInv
  <2> QED BY <1>1, <1>4, <2>1, <2>3, BoundsAssumption
<1>7. Races(n, Len(s)) /\ NoReply /\ UNCHANGED <<rows, sync, page, look>>
  BY <1>6 DEF Publish
<1>8. registry' = [registry EXCEPT ![n] = s] /\ s[Len(s)].updated = clock + 1
  BY <1>2, <1>4, <1>5
<1> HIDE DEF s, new
<1> QED BY <1>1, <1>4, <1>6, <1>7, <1>8, ChangeStep

LEMMA TakeDownStep == ASSUME MirrorInv, NEW n \in Name, TakeDown(n) PROVE MirrorInv'
<1>1. registry[n] \in Seq(Kinds) /\ clock \in Nat \ {0} /\ Len(registry[n]) \in Nat /\ clock' = clock + 1
      /\ Len(registry[n]) <= MaxVersions
      /\ \A i \in 1..Len(registry[n]) : registry[n][i].updated \in 1..clock
  BY DEF MirrorInv, RegistryInv, TakeDown, Tick
<1> DEFINE gone == [status |-> "deleted", updated |-> clock']
<1>2. PICK v \in 1..Len(registry[n]) : registry' = [registry EXCEPT ![n][v] = gone] /\ Races(n, v)
  <2>1. DOMAIN registry[n] = 1..Len(registry[n])
    BY <1>1
  <2>2. PICK v \in DOMAIN registry[n] : registry' = [registry EXCEPT ![n][v] = gone] /\ Races(n, v)
    BY Zenon DEF TakeDown
  <2> HIDE DEF gone
  <2> QED BY <2>1, <2>2
<1> DEFINE s == [registry[n] EXCEPT ![v] = gone]
<1>3. registry' = [registry EXCEPT ![n] = s]
  BY <1>2
<1>4. gone \in Kinds /\ gone.updated = clock + 1
  BY <1>1 DEF Kinds
<1> HIDE DEF gone
<1>5. /\ s \in Seq(Kinds) /\ Len(s) = Len(registry[n]) /\ s # <<>>
      /\ \A i \in 1..Len(s) : s[i] = IF i = v THEN gone ELSE registry[n][i]
  BY <1>1, <1>2, <1>4
<1>6. \A i \in 1..Len(s) : s[i].updated \in 1..(clock + 1)
  BY <1>1, <1>4, <1>5
<1>7. IF v = Len(s) THEN s[Len(s)].updated = clock + 1
      ELSE registry[n] # <<>> /\ Len(s) = Len(registry[n]) /\ s[Len(s)] = Latest(n)
  BY <1>1, <1>2, <1>4, <1>5 DEF Latest
<1>8. NoReply /\ UNCHANGED <<rows, sync, page, look>>
  BY DEF TakeDown
<1> HIDE DEF s
<1> QED BY <1>1, <1>2, <1>3, <1>5, <1>6, <1>7, <1>8, ChangeStep

-----------------------------------------------------------------------------
\* A sync begins where the last one ended.
LEMMA BeginStep ==
  ASSUME MirrorInv, Begin, UNCHANGED <<registry, clock, rows, raced>>
  PROVE  RegistryInv' /\ RowsInv' /\ SyncInv' /\ CoverInv'
<1> USE DEF MirrorInv
<1>1. /\ ~sync.running /\ page' = Answer(since, <<0, 0>>)
      /\ sync' = [NoSync EXCEPT !.since = since, !.newest = since, !.running = TRUE]
      /\ UNCHANGED <<registry, clock, mirror, since, raced>>
  BY DEF Begin, Request, rows
<1>2. sync' = [since |-> since, after |-> <<0, 0>>, pages |-> 0, newest |-> since, running |-> TRUE]
  BY <1>1 DEF NoSync
<1>9. /\ sync'.since = since /\ sync'.after = <<0, 0>> /\ sync'.pages = 0 /\ sync'.newest = since
      /\ sync'.running
  BY <1>2
<1>3. RegistryInv' /\ RowsInv' /\ since \in Nat /\ since <= clock
  BY <1>1 DEF RegistryInv, RowsInv
<1>4. <<0, 0>> \in Place /\ Cardinality(UpTo(<<0, 0>>)) >= 0 * PageLimit
  BY FinitelyMany, PagesArePositive DEF Place, UpTo
<1>5. AnswerTo(Answer(since, <<0, 0>>), since, <<0, 0>>, 0)
  BY <1>3, <1>4, AnswerIs
<1>6. AnswerTo(page, sync.since, sync.after, sync.pages)'
  <2> DEFINE p == Answer(since, <<0, 0>>)
  <2>1. page' = p /\ AnswerTo(p, since, <<0, 0>>, 0)
    BY <1>1, <1>5
  <2> HIDE DEF p
  <2> QED BY <1>1, <1>9, <2>1 DEF AnswerTo, Entry, Listed
<1>7. SyncInv'
  <2>1. sync' \in Syncs
    BY <1>2, <1>3, <1>4 DEF Syncs
  <2>2. UpTo(sync.after)' = UpTo(<<0, 0>>)
    BY <1>9 DEF UpTo
  <2> QED BY <1>1, <1>9, <1>3, <1>4, <1>6, <2>1, <2>2 DEF SyncInv
<1>8. CoverInv'
  <2> SUFFICES ASSUME NEW n \in Name, n \notin raced, registry[n] # <<>>, ~Current(n)
               PROVE  Listed(since, <<0, 0>>, <<n, Len(registry[n])>>)
    BY <1>1, <1>9 DEF CoverInv, Current, Entry, Row, Listed
  <2>1. Latest(n).updated > since /\ Len(registry[n]) \in 1..Len(registry[n])
    BY <1>1, LastEntry DEF CoverInv
  <2>2. Len(registry[n]) \in DOMAIN registry[n]
    BY <2>1, KeysListed
  <2> QED BY <2>1, <2>2, BoundsAssumption DEF Listed, Before, Latest, Name
<1> QED BY <1>3, <1>7, <1>8

\* A sync ends, and its pages so far stay.
LEMMA StopStep ==
  ASSUME MirrorInv, sync' = NoSync, page' = Nil, UNCHANGED <<registry, clock, mirror, since, raced>>
  PROVE  RegistryInv' /\ RowsInv' /\ SyncInv' /\ CoverInv'
<1> USE DEF MirrorInv
<1>1. RegistryInv' /\ RowsInv'
  BY DEF RegistryInv, RowsInv
<1>2. SyncInv'
  <2>1. Cardinality(UpTo(<<0, 0>>)) >= 0 * PageLimit
    BY FinitelyMany, PagesArePositive DEF UpTo
  <2>2. UpTo(sync.after)' = UpTo(<<0, 0>>)
    BY DEF UpTo, NoSync
  <2> QED BY <2>1, <2>2 DEF SyncInv, NoSync, Syncs, Place, RegistryInv
<1>3. CoverInv'
  <2> SUFFICES ASSUME NEW n \in Name, n \notin raced, registry[n] # <<>>, ~Current(n)
               PROVE  Latest(n).updated > since
    BY DEF CoverInv, Current, Entry, Row, NoSync, Latest
  <2>1. CASE ~sync.running
    BY <2>1 DEF CoverInv
  <2>2. CASE sync.running
    <3>1. Listed(since, sync.after, <<n, Len(registry[n])>>)
      BY <2>2 DEF CoverInv, SyncInv
    <3>2. Latest(n).updated \in 1..clock /\ since \in Nat
      BY LatestTime DEF RowsInv, RegistryInv
    <3> QED BY <3>1, <3>2 DEF Listed, Latest
  <2> QED BY <2>1, <2>2
<1> QED BY <1>1, <1>2, <1>3

\* The newest change seen is no later than now.
LEMMA NewestIs ==
  ASSUME MirrorInv, page # Nil
  PROVE  Newest(page.entries) \in 0..clock
<1> DEFINE times == {sync.newest} \cup {e.updated : e \in page.entries}
<1>1. times \in SUBSET (0..clock) /\ times # {} /\ clock \in Nat
  BY DEF MirrorInv, SyncInv, Syncs, AnswerTo, RegistryInv
<1> HIDE DEF times
<1>2. Greatest(times) \in times
  BY <1>1, GreatestIs
<1> QED BY <1>1, <1>2 DEF Newest, times

\* After a page, who has not changed is current, or listed after it.
LEMMA PageStored ==
  ASSUME MirrorInv, page # Nil, mirror' = UpsertAll(mirror, page.entries),
         NEW n \in Name, n \notin raced, registry[n] # <<>>,
         mirror'[n] # Row(Entry(n, Len(registry[n])))
  PROVE  /\ Listed(sync.since, sync.after, <<n, Len(registry[n])>>)
         /\ page.next # Nil /\ Before(page.next, <<n, Len(registry[n])>>)
<1> USE DEF MirrorInv
<1>1. AnswerTo(page, sync.since, sync.after, sync.pages) /\ sync.running
  BY DEF SyncInv
<1>2. \A e \in page.entries : e.name = n => e.version \in 1..Len(registry[n]) /\ e = Entry(n, e.version)
  BY <1>1 DEF AnswerTo
<1>3. Entry(n, Len(registry[n])) \notin page.entries /\ ~Current(n)
  BY <1>2, UpsertKeepsLatest DEF Current
<1>4. Listed(sync.since, sync.after, <<n, Len(registry[n])>>) /\ Len(registry[n]) \in 1..Len(registry[n])
  BY <1>1, <1>3, LastEntry DEF CoverInv
<1> QED BY <1>1, <1>3, <1>4 DEF AnswerTo

\* One page more does not reach MAX_PAGES: there would be more listed than there is.
LEMMA PagesLeft ==
  ASSUME MirrorInv, page # Nil, page.next # Nil
  PROVE  sync.pages + 1 < MaxPages
<1> DEFINE done == UpTo(page.next)  count == Cardinality(done)  pages == sync.pages + 1
<1>1. /\ done # Key /\ count >= pages * PageLimit /\ sync.pages \in Nat
  BY DEF MirrorInv, SyncInv, Syncs, AnswerTo
<1>2. done \in SUBSET Key
  BY DEF UpTo
<1>3. count < Names * MaxVersions /\ count \in Nat /\ Names * MaxVersions \in Nat
  <2> HIDE DEF done
  <2>1. count \in Nat /\ count <= Cardinality(Key) /\ count # Cardinality(Key)
    BY <1>1, <1>2, KeysFinite, FinitelyMany, FS_Subset
  <2> QED BY <2>1, KeysFinite, BoundsAssumption
<1> HIDE DEF done, count, pages
<1>4. pages * PageLimit < MaxPages * PageLimit
  <2> HIDE DEF pages
  <2>1. pages \in Nat
    BY <1>1 DEF pages
  <2> QED BY <1>1, <1>3, <2>1, RegistryFits, PagesArePositive
<1>5. pages \in Nat
  BY <1>1 DEF pages
<1>6. pages < MaxPages
  <2> SUFFICES ASSUME pages >= MaxPages PROVE FALSE
    BY <1>5, PagesArePositive
  <2>1. PICK d \in Nat : pages = MaxPages + d
    <3>1. pages - MaxPages \in Nat /\ pages = MaxPages + (pages - MaxPages)
      BY <1>5, PagesArePositive
    <3> QED BY <3>1
  <2>2. pages * PageLimit = MaxPages * PageLimit + d * PageLimit /\ d * PageLimit \in Nat
        /\ MaxPages * PageLimit \in Nat
    BY <2>1, PagesArePositive
  <2> QED BY <1>4, <2>2
<1> QED BY <1>6 DEF pages

LEMMA StorePageStep == ASSUME MirrorInv, StorePage PROVE MirrorInv'
<1> USE DEF MirrorInv
<1>1. /\ page # Nil /\ mirror' = UpsertAll(mirror, page.entries)
      /\ NoReply /\ UNCHANGED <<registry, clock, look, raced>>
  BY DEF StorePage
<1>2. /\ RegistryInv' /\ LookInv' /\ ReplyInv'
      /\ mirror' = [n \in Name |-> mirror'[n]]
  BY <1>1 DEF RegistryInv, LookInv, ReplyInv, NoReply, Entry, UpsertAll
<1>3. CASE page.next # Nil /\ sync.pages + 1 < MaxPages
  <2> DEFINE p == Answer(sync.since, page.next)
  <2>1. /\ sync' = [sync EXCEPT !.after = page.next, !.pages = @ + 1, !.newest = Newest(page.entries)]
        /\ page' = p /\ UNCHANGED since
    BY <1>3 DEF StorePage, Request
  <2>2. /\ sync \in Syncs /\ sync.running /\ sync.since = since
        /\ page.next \in Place /\ Cardinality(UpTo(page.next)) >= (sync.pages + 1) * PageLimit
    BY <1>1, <1>3, KeyIsPlace DEF SyncInv, AnswerTo
  <2>3. /\ sync' \in Syncs /\ sync'.since = since /\ sync'.after = page.next /\ sync'.pages = sync.pages + 1
        /\ sync'.newest = Newest(page.entries) /\ sync'.running
    <3> DEFINE newest == Newest(page.entries)  next == page.next
    <3>1. newest \in Nat
      BY <1>1, NewestIs DEF RegistryInv
    <3>2. sync' = [sync EXCEPT !.after = next, !.pages = @ + 1, !.newest = newest]
          /\ sync \in Syncs /\ next \in Place
      BY <2>1, <2>2
    <3> DEFINE moved == [sync EXCEPT !.after = next]
               counted == [moved EXCEPT !.pages = @ + 1]
               seen == [counted EXCEPT !.newest = newest]
    <3>3. sync' = seen
      BY <3>2
    <3> HIDE DEF newest, next
    <3>4. /\ moved \in Syncs /\ moved.since = sync.since /\ moved.after = next /\ moved.pages = sync.pages
          /\ moved.running = sync.running
      BY <3>2 DEF Syncs
    <3> HIDE DEF moved
    <3>5. /\ counted \in Syncs /\ counted.since = sync.since /\ counted.after = next
          /\ counted.pages = sync.pages + 1 /\ counted.running = sync.running
      BY <3>4 DEF Syncs
    <3> HIDE DEF counted
    <3>6. /\ seen \in Syncs /\ seen.since = sync.since /\ seen.after = next
          /\ seen.pages = sync.pages + 1 /\ seen.newest = newest /\ seen.running = sync.running
      BY <3>1, <3>5 DEF Syncs
    <3> QED BY <2>2, <3>3, <3>6 DEF newest, next
  <2>4. AnswerTo(p, since, page.next, sync.pages + 1)
    BY <2>2, AnswerIs DEF Syncs
  <2>5. SyncInv'
    <3>1. AnswerTo(page, sync.since, sync.after, sync.pages)'
      <4>1. page' = p /\ AnswerTo(p, since, page.next, sync.pages + 1)
        BY <2>1, <2>4
      <4> HIDE DEF p
      <4> QED BY <1>1, <2>3, <4>1 DEF AnswerTo, Entry, Listed
    <3>2. UpTo(sync.after)' = UpTo(page.next)
      BY <2>3 DEF UpTo
    <3> QED BY <1>1, <2>1, <2>2, <2>3, <3>1, <3>2, NewestIs DEF SyncInv
  <2>6. CoverInv'
    <3> SUFFICES ASSUME NEW n \in Name, n \notin raced, registry[n] # <<>>,
                        mirror'[n] # Row(Entry(n, Len(registry[n])))
                 PROVE  Listed(since, page.next, <<n, Len(registry[n])>>)
      BY <1>1, <2>3 DEF CoverInv, Current, Entry, Row, Listed
    <3> QED BY <1>1, <2>2, PageStored DEF Listed
  <2>7. RowsInv'
    BY <1>1, <1>2, <2>1 DEF RowsInv
  <2> QED BY <1>2, <2>5, <2>6, <2>7
<1>4. CASE ~(page.next # Nil /\ sync.pages + 1 < MaxPages)
  <2>1. /\ sync' = NoSync /\ page' = Nil /\ since' = Newest(page.entries) /\ page.next = Nil
    BY <1>1, <1>4, PagesLeft DEF StorePage
  <2>2. RowsInv'
    BY <1>1, <1>2, <2>1, NewestIs DEF RowsInv
  <2>3. SyncInv'
    <3>1. Cardinality(UpTo(<<0, 0>>)) >= 0 * PageLimit
      BY FinitelyMany, PagesArePositive DEF UpTo
    <3>2. UpTo(sync.after)' = UpTo(<<0, 0>>)
      BY <2>1 DEF UpTo, NoSync
    <3> QED BY <1>1, <2>1, <3>1, <3>2 DEF SyncInv, NoSync, Syncs, Place, RegistryInv
  <2>4. CoverInv'
    BY <1>1, <2>1, PageStored DEF CoverInv, Current, Entry, Row
  <2> QED BY <1>2, <2>2, <2>3, <2>4
<1> QED BY <1>3, <1>4

LEMMA LookStep == ASSUME MirrorInv, NEW n \in Name, LookUp(n) PROVE MirrorInv'
<1> USE DEF MirrorInv
<1>1. /\ look' = Entry(n, Len(registry[n])) /\ registry[n] # <<>>
      /\ NoReply /\ UNCHANGED <<registry, clock, mirror, since, sync, page, raced>>
  BY DEF LookUp, rows
<1>2. LookInv'
  BY <1>1, LastEntry DEF LookInv, Entry
<1>3. RegistryInv' /\ RowsInv' /\ SyncInv' /\ CoverInv' /\ ReplyInv'
  BY <1>1 DEF RegistryInv, RowsInv, SyncInv, AnswerTo, Entry, Listed, CoverInv, Current, Latest, ReplyInv,
     NoReply, UpTo
<1> QED BY <1>2, <1>3

LEMMA StoreLookStep == ASSUME MirrorInv, StoreLookUp PROVE MirrorInv'
<1> USE DEF MirrorInv
<1>1. /\ look # Nil /\ mirror' = Upsert(mirror, look) /\ look' = Nil
      /\ NoReply /\ UNCHANGED <<registry, clock, since, sync, page, raced>>
  BY DEF StoreLookUp
<1>2. /\ mirror' = [n \in Name |-> mirror'[n]]
      /\ \A n \in Name : n # look.name => mirror'[n] = mirror[n]
  BY <1>1 DEF Upsert, RowsInv
<1>3. RegistryInv' /\ RowsInv' /\ SyncInv' /\ LookInv' /\ ReplyInv'
  BY <1>1, <1>2 DEF RegistryInv, RowsInv, SyncInv, AnswerTo, Entry, Listed, LookInv, ReplyInv, NoReply, UpTo
<1>4. CoverInv'
  <2> SUFFICES ASSUME NEW n \in Name, n \notin raced, registry[n] # <<>>,
                      mirror'[n] # Row(Entry(n, Len(registry[n])))
               PROVE  ~Current(n)
    BY <1>1 DEF CoverInv, Current, Entry, Row, Listed, Latest
  <2>1. CASE n = look.name
    <3>1. look = Entry(n, Len(registry[n])) /\ look.latest = TRUE
      BY <1>1, <2>1, LastEntry DEF LookInv
    <3>2. mirror' = [mirror EXCEPT ![n] = Row(look)]
      BY <1>1, <2>1, <3>1 DEF Upsert, Replaces
    <3>3. mirror'[n] = Row(look)
      BY <3>2 DEF RowsInv
    <3> QED BY <3>1, <3>3
  <2>2. CASE n # look.name
    BY <1>2, <2>2 DEF Current
  <2> QED BY <2>1, <2>2
<1> QED BY <1>3, <1>4

LEMMA SearchStep == ASSUME MirrorInv, Search PROVE MirrorInv'
<1> USE DEF MirrorInv
<1>1. /\ UNCHANGED <<registry, clock, rows, look, raced>>
      /\ Begin \/ UNCHANGED <<sync, page>>
      /\ reply' = Nil \/ reply'.names = Found
  BY DEF Search, SyncIfStale
<1>2. LookInv' /\ ReplyInv'
  BY <1>1 DEF LookInv, ReplyInv, Entry, Found, rows
<1>3. CASE Begin
  BY <1>1, <1>2, <1>3, BeginStep
<1>4. CASE UNCHANGED <<sync, page>>
  <2>1. RegistryInv' /\ RowsInv' /\ SyncInv' /\ CoverInv'
    BY <1>1, <1>4 DEF RegistryInv, RowsInv, SyncInv, AnswerTo, Entry, Listed, CoverInv, Current, Latest, rows, UpTo
  <2> QED BY <1>2, <2>1
<1> QED BY <1>1, <1>3, <1>4

LEMMA MirrorStays == MirrorInv /\ [MirrorNext]_mirrorVars => MirrorInv'
<1> SUFFICES ASSUME MirrorInv, [MirrorNext]_mirrorVars PROVE MirrorInv'
  OBVIOUS
<1>1. ASSUME NEW n \in Name, Publish(n) \/ TakeDown(n) \/ LookUp(n) PROVE MirrorInv'
  BY <1>1, PublishStep, TakeDownStep, LookStep
<1>2. CASE StartSync
  <2>1. LookInv' /\ ReplyInv' /\ Begin /\ UNCHANGED <<registry, clock, rows, raced>>
    BY <1>2 DEF StartSync, LookInv, ReplyInv, NoReply, Entry, MirrorInv
  <2> QED BY <2>1, BeginStep DEF MirrorInv
<1>3. CASE StorePage
  BY <1>3, StorePageStep
<1>4. CASE SyncFails \/ Restart
  <2>1. LookInv' /\ ReplyInv' /\ sync' = NoSync /\ page' = Nil /\ UNCHANGED <<registry, clock, mirror, since, raced>>
    BY <1>4 DEF SyncFails, Restart, LookInv, ReplyInv, NoReply, Entry, MirrorInv, rows
  <2> QED BY <2>1, StopStep DEF MirrorInv
<1>5. CASE StoreLookUp
  BY <1>5, StoreLookStep
<1>6. CASE Search
  BY <1>6, SearchStep
<1>7. CASE SearchAnswered \/ SearchFails \/ UNCHANGED mirrorVars
  <2>1. /\ UNCHANGED <<registry, clock, mirror, since, sync, page, look, raced>>
        /\ reply' = reply \/ reply'.from \in {"live", "error", "partial"}
    BY <1>7 DEF SearchAnswered, SearchFails, mirrorVars, rows
  <2>2. RegistryInv' /\ RowsInv' /\ SyncInv' /\ CoverInv'
    BY <2>1 DEF MirrorInv, RegistryInv, RowsInv, SyncInv, AnswerTo, Entry, Listed, CoverInv, Current, Latest, UpTo
  <2>3. LookInv' /\ ReplyInv'
    BY <2>1 DEF MirrorInv, LookInv, ReplyInv, Entry, Found
  <2> QED BY <2>2, <2>3 DEF MirrorInv
<1> QED BY <1>1, <1>2, <1>3, <1>4, <1>5, <1>6, <1>7 DEF MirrorNext

LEMMA MirrorStarts == MirrorInit => MirrorInv
<1> SUFFICES ASSUME MirrorInit PROVE MirrorInv
  OBVIOUS
<1>1. RegistryInv
  <2> DEFINE first == <<[status |-> "active", updated |-> 1]>>
  <2>1. first \in Seq(Kinds) /\ Len(first) = 1 /\ first[1].updated = 1
    BY DEF Kinds
  <2>2. <<>> \in Seq(Kinds) /\ Len(<<>>) = 0
    OBVIOUS
  <2> HIDE DEF first
  <2>3. registry \in [Name -> {<<>>, first}] /\ clock = 1
    BY DEF MirrorInit, first
  <2>4. ASSUME NEW n \in Name
        PROVE  registry[n] \in Seq(Kinds) /\ Len(registry[n]) <= MaxVersions
               /\ \A v \in 1..Len(registry[n]) : registry[n][v].updated \in 1..clock
    <3>1. registry[n] = <<>> \/ registry[n] = first
      BY <2>3
    <3>2. CASE registry[n] = <<>>
      BY <2>2, <3>2, BoundsAssumption
    <3>3. CASE registry[n] = first
      <4>0. Len(registry[n]) = 1
        BY <2>1, <3>3
      <4>1. \A v \in 1..Len(registry[n]) : v = 1
        BY <4>0
      <4> QED BY <2>1, <2>3, <3>3, <4>1, BoundsAssumption
    <3> QED BY <3>1, <3>2, <3>3
  <2> QED BY <2>3, <2>4 DEF RegistryInv
<1>2. RowsInv /\ LookInv /\ ReplyInv
  BY DEF MirrorInit, RowsInv, LookInv, ReplyInv
<1>3. SyncInv
  <2>1. Cardinality(UpTo(<<0, 0>>)) >= 0 * PageLimit
    BY FinitelyMany, PagesArePositive DEF UpTo
  <2>2. sync.after = <<0, 0>> /\ sync.pages = 0
    BY DEF MirrorInit, NoSync
  <2> QED BY <2>1, <2>2 DEF SyncInv, MirrorInit, NoSync, Syncs, Place
<1>4. CoverInv
  <2>1. ASSUME NEW n \in Name, registry[n] # <<>> PROVE Latest(n).updated > since
    BY <2>1 DEF MirrorInit, Latest
  <2> QED BY <2>1 DEF CoverInv, MirrorInit, NoSync
<1> QED BY <1>1, <1>2, <1>3, <1>4 DEF MirrorInv

LEMMA PassedIsCurrent ==
  ASSUME MirrorInv, NEW n \in Name \ raced, Passed(n)
  PROVE  Current(n)
<1>1. Latest(n).updated \in 1..clock /\ since \in Nat
  BY LatestTime DEF MirrorInv, RowsInv, RegistryInv, Passed
<1>2. sync.running => ~Listed(sync.since, sync.after, <<n, Len(registry[n])>>)
  BY <1>1 DEF Listed, Latest, Passed, MirrorInv, SyncInv
<1> QED BY <1>1, <1>2 DEF MirrorInv, CoverInv, Passed

\* Whatever the registry, the syncs, their failures and restarts and the lookups do, a
\* server whose latest version is older than the stored cursor is in the mirror as
\* it is, with any number of names, versions and entries a page (doSync, upsert).
THEOREM CursorCorrect == MirrorSpec => []CursorCovers
<1>1. MirrorInv => CursorCovers
  BY PassedIsCurrent DEF CursorCovers
<1> QED BY <1>1, MirrorStarts, MirrorStays, PTL DEF MirrorSpec

\* So a search of the synced mirror finds exactly the active among them (search in
\* registry.ts, marketplace.ts).
THEOREM SearchesCorrect == MirrorSpec => []SearchesAgree
<1>1. MirrorInv => SearchesAgree
  <2> SUFFICES ASSUME MirrorInv, reply # Nil, reply.from = "mirror", NEW n \in Name \ raced, Passed(n)
               PROVE  n \in reply.names <=> Active(n)
    BY DEF SearchesAgree
  <2>1. mirror[n].status = Latest(n).status
    <3>1. mirror[n] = Row(Entry(n, Len(registry[n]))) /\ registry[n] # <<>> /\ RegistryInv
      BY PassedIsCurrent DEF Passed, Current, MirrorInv
    <3>2. Entry(n, Len(registry[n])).status = Latest(n).status
      BY <3>1, LastEntry
    <3> QED BY <3>1, <3>2 DEF Row
  <2>2. reply.names = {m \in Name : mirror[m].status = "active"}
    BY DEF MirrorInv, ReplyInv, Found
  <2> QED BY <2>1, <2>2 DEF Active, Passed
<1> QED BY <1>1, MirrorStarts, MirrorStays, PTL DEF MirrorSpec
=============================================================================
