---------------------------- MODULE DiscoverPane ----------------------------
(***************************************************************************)
(* The /discover pane of the plugin (plugin/hooks/register.tsx, view.tsx). *)
(* What the user presses runs at once, beside what still runs and beside   *)
(* the poll: each a task that sends requests to the daemon and writes the  *)
(* answers into atoms the view draws.  Nothing orders the tasks, and no    *)
(* control is disabled while one runs.                                     *)
(*                                                                         *)
(* What a task does between two requests is one step; a request is handled *)
(* when it is sent, its answer is written in a later step.  A plan needs   *)
(* one secret, marked with the server it was typed for; the definitions of *)
(* a server's tools are a number.  Left out: requests that change none of  *)
(* this (health, secrets of the detail, sign-in, re-index, logs), notices, *)
(* the focus ring; the audit log's paging is in Records.                   *)
(***************************************************************************)
EXTENDS Naturals, Sequences

CONSTANTS Name,          \* servers, and the registry entries they come from
          Task,          \* presses that can run at once
          Clock,         \* the poll
          Nil,
          MaxPresses,    \* bounds what the user does
          MaxMoves       \* bounds what the rest of the world does

ASSUME ClockAssumption == Clock \notin Task /\ Nil \notin Name /\ Name # {}

VARIABLES server, nextId, up,                              \* the daemon
          snapshot, route, detail, confirm, browse, plan,  \* atoms
          busy,
          planValues, typed,     \* values set for the plan, and those still in its field
          task,                  \* what each task has left to do
          reviewed,              \* the definitions the pane has shown of each server
          presses, moves

daemon == <<server, nextId, up>>
drawn == <<snapshot, route, detail, confirm, browse, plan>>
values == <<planValues, typed>>
paneVars == <<daemon, drawn, values, busy, task, reviewed, presses, moves>>

-----------------------------------------------------------------------------
\* The logs and the audit log are tabs of their own.
Tabs == {"servers", "browse"}
OnServer == {"enable", "disable", "approve", "uninstall"}
Acts == OnServer \cup {"refresh", "search", "plan", "install"}

\* A task is the stages it has left; got is the answer to its last request.
\* act(): the function; busy cleared and refresh(); loadView().
Rest == <<"land", "show", "viewed">>
Stages(op) ==
  CASE op = "refresh" -> Rest
    [] op = "install" -> <<"fn", "land", "go", "again", "show", "viewed">>
    [] OTHER          -> <<"fn">> \o Rest

Started(op, name, todo, got) == [op |-> op, name |-> name, todo |-> todo, got |-> got]
Done == Started("none", Nil, <<>>, Nil)
Idle(t) == task[t].todo = <<>>
At(t, stage) == ~Idle(t) /\ Head(task[t].todo) = stage

Quarantined(s) == s.pins # s.defs
Down == [isUp |-> FALSE, rows |-> [n \in Name |-> Nil]]

Fresh(id) == [id |-> id, defs |-> 1, pins |-> 1, enabled |-> FALSE, secret |-> Nil]
Row(s) == IF s = Nil THEN Nil
          ELSE [id |-> s.id, enabled |-> s.enabled, quarantined |-> Quarantined(s)]

\* GET /api/status and /api/servers; the requests of loadDetail().
PollAnswer == IF up THEN [isUp |-> TRUE, rows |-> [n \in Name |-> Row(server[n])]] ELSE Down

DetailOf(n) == [name |-> n, id |-> server[n].id, defs |-> server[n].defs,
                enabled |-> server[n].enabled, quarantined |-> Quarantined(server[n])]

\* The pane at rest, on the list of servers, the results of a search, or a server.
PaneInit ==
  /\ nextId = 3 /\ up = TRUE
  /\ LET n == CHOOSE m \in Name : TRUE
         other == CHOOSE m \in Name : m # n \/ Name = {n}
         installed(s, o) == [m \in Name |-> CASE m = n -> s [] m = other /\ m # n -> o [] OTHER -> Nil]
     IN  \/ /\ server = installed(Fresh(1), Nil)
            /\ route = [tab |-> "servers", server |-> Nil]
            /\ detail = Nil /\ browse = {}
         \/ /\ server = installed(Fresh(1), Nil)
            /\ route = [tab |-> "browse", server |-> Nil]
            /\ detail = Nil /\ browse = Name \ {n}
         \/ /\ \E defs \in {1, 2} : server = installed([Fresh(1) EXCEPT !.defs = defs], Fresh(2))
            /\ route = [tab |-> "servers", server |-> n]
            /\ detail = DetailOf(n) /\ browse = {}
  /\ snapshot = PollAnswer
  /\ confirm = Nil /\ plan = Nil /\ busy = Nil
  /\ planValues = Nil /\ typed = Nil
  /\ task = [t \in Task \cup {Clock} |-> Done]
  /\ reviewed = [n \in Name |-> IF detail # Nil /\ detail.name = n THEN {detail.defs} ELSE {}]
  /\ presses = 0 /\ moves = 0

Servers == [id : Nat, defs : Nat, pins : Nat, enabled : BOOLEAN, secret : Name \cup {Nil}]
PaneTypeOK ==
  /\ \A n \in Name : server[n] = Nil \/ server[n] \in Servers
  /\ up \in BOOLEAN /\ snapshot.isUp \in BOOLEAN
  /\ route \in [tab : Tabs, server : Name \cup {Nil}]
  /\ detail = Nil \/ detail.name \in Name
  /\ plan = Nil \/ plan \in [name : Name, filled : BOOLEAN]
  /\ confirm \in Name \cup {Nil} /\ browse \subseteq Name
  /\ planValues \in Name \cup {Nil} /\ typed \in Name \cup {Nil}
  /\ \A t \in Task \cup {Clock} : Len(task[t].todo) \in 0..6
  /\ busy = Nil \/ busy \in Acts
  /\ \A m, n \in Name : server[m] # Nil /\ server[n] # Nil /\ server[m].id = server[n].id => m = n

-----------------------------------------------------------------------------
(* What the view offers. *)

InDetail == snapshot.isUp /\ route.tab = "servers" /\ route.server # Nil /\ detail # Nil
InPlan == snapshot.isUp /\ route.tab = "browse" /\ plan # Nil
CanInstall == InPlan /\ plan.filled     \* no requirement is missing
InResults == snapshot.isUp /\ route.tab = "browse" /\ plan = Nil

\* The controls of the detail act on the server drawn, which need not be the
\* route's: the detail of the last one stays until the next is loaded.
DetailOffers == {op \in OnServer :
  CASE op = "approve"   -> detail.quarantined
    [] op = "enable"    -> ~detail.quarantined /\ ~detail.enabled
    [] op = "disable"   -> detail.quarantined \/ detail.enabled
    [] op = "uninstall" -> confirm = detail.name}

\* (Refresh, Reload and Retry start what every action ends with.)
Offers ==
  (IF InDetail THEN [op : DetailOffers, name : {detail.name}] ELSE {})
    \cup (IF InResults THEN [op : {"search"}, name : {Nil}] \cup [op : {"plan"}, name : browse]
          ELSE {})
    \cup (IF CanInstall THEN [op : {"install"}, name : {Nil}] ELSE {})

Places ==
  [tab : Tabs, server : {Nil}]
    \cup [tab : {"servers"}, server : {n \in Name : snapshot.rows[n] # Nil}]

-----------------------------------------------------------------------------
(* What the daemon answers. *)

\* serverId(): by the last snapshot, which may be behind the daemon.
ServerId(snap, name) == IF snap.rows[name] = Nil THEN 0 ELSE snap.rows[name].id

\* byId(): the installation with that id; ids are never used twice.
Holder(id) == {n \in Name : server[n] # Nil /\ server[n].id = id}

\* loadView(): the detail of the route's server, or an error, which is swallowed
\* or put in the notice.
ViewAnswer(snap, place) ==
  LET found == IF up /\ place.server # Nil THEN Holder(ServerId(snap, place.server)) ELSE {}
  IN  IF found = {} THEN Nil ELSE DetailOf(CHOOSE n \in found : TRUE)

-----------------------------------------------------------------------------
(* The user. *)

Press == presses < MaxPresses /\ presses' = presses + 1

\* Which task a press becomes makes no difference.
NextTask == CHOOSE t \in Task : Idle(t)
Free == \E t \in Task : Idle(t)

\* act(): busy, then the function in a later step.
Act ==
  /\ Press /\ Free
  /\ \E offer \in Offers :
       /\ busy' = offer.op
       /\ task' = [task EXCEPT ![NextTask] = Started(offer.op, offer.name, Stages(offer.op), Nil)]
  /\ UNCHANGED <<daemon, drawn, values, reviewed, moves>>

\* go(): the route changes at once, and what was typed into fields is forgotten.
Moved(place) ==
  /\ route' = place /\ confirm' = Nil /\ typed' = Nil

Go ==
  /\ Press /\ Free /\ snapshot.isUp
  /\ \E place \in Places :
       /\ Moved(place)
       /\ task' = [task EXCEPT ![NextTask] = Started("go", Nil, <<"viewed">>, ViewAnswer(snapshot, place))]
  /\ UNCHANGED <<daemon, snapshot, detail, browse, plan, busy, planValues, reviewed, moves>>

AskUninstall ==
  /\ InDetail
  /\ confirm' = IF confirm = detail.name THEN Nil ELSE detail.name
  /\ UNCHANGED <<daemon, snapshot, route, detail, browse, plan, values, busy, task, reviewed, presses, moves>>

\* Typing into the field of the plan shown, and submitting it (fillSecret, fillPlan).
TypeValue ==
  /\ InPlan /\ ~plan.filled
  /\ typed' = plan.name
  /\ UNCHANGED <<daemon, drawn, planValues, busy, task, reviewed, presses, moves>>

FillPlan ==
  /\ InPlan /\ typed # Nil
  /\ planValues' = typed /\ typed' = Nil
  /\ plan' = [plan EXCEPT !.filled = TRUE]
  /\ UNCHANGED <<daemon, snapshot, route, detail, confirm, browse, busy, task, reviewed, presses, moves>>

CancelPlan ==
  /\ Press /\ InPlan
  /\ planValues' = Nil /\ typed' = Nil /\ plan' = Nil
  /\ UNCHANGED <<daemon, snapshot, route, detail, confirm, browse, busy, task, reviewed, moves>>

-----------------------------------------------------------------------------
(* The requests. *)

\* Slips no step makes, here and below: each breaks a property (see PROJECT.json).
CurrentHashes(name, n) == IF detail # Nil /\ detail.name = name THEN server[n].defs ELSE 0

\* The hashes approve() sends: those of the detail, if it is this server's.
Hashes(name, n) == IF detail # Nil /\ detail.name = name THEN detail.defs ELSE 0

DetailTarget(name) == IF detail = Nil THEN {} ELSE Holder(detail.id)

\* call(): the installation a press named.
Target(name) == Holder(ServerId(snapshot, name))

Changed(op, name, n) ==
  CASE op = "enable"    -> [server[n] EXCEPT !.enabled = TRUE]
    [] op = "disable"   -> [server[n] EXCEPT !.enabled = FALSE]
    [] op = "approve"   -> [server[n] EXCEPT !.pins = server[n].defs]
    [] op = "uninstall" -> Nil

\* A request on a server: refused when it is quarantined, or when its tools are
\* no longer those reviewed.
Granted(op, name, n) ==
  /\ op = "enable" => ~Quarantined(server[n])
  /\ op = "approve" => Hashes(name, n) = server[n].defs

NextStage(t, got) == [task EXCEPT ![t].todo = Tail(@), ![t].got = got]

\* act() catches what its function throws, and goes on.
Thrown(t) == [task EXCEPT ![t] = Started("refresh", Nil, Rest, Nil)]

CallServer(t) ==
  /\ At(t, "fn") /\ task[t].op \in OnServer
  /\ LET op == task[t].op
         ok == {n \in Target(task[t].name) : up /\ Granted(op, task[t].name, n)}
     IN  \/ /\ ok = {}
            /\ task' = Thrown(t)
            /\ UNCHANGED server
         \/ \E n \in ok : /\ server' = [server EXCEPT ![n] = Changed(op, task[t].name, n)]
                          /\ task' = NextStage(t, op)
  /\ UNCHANGED <<nextId, up, drawn, values, busy, reviewed, presses, moves>>

\* find(): which results are installed is read before the request.
Search(t) ==
  /\ At(t, "fn") /\ task[t].op = "search"
  /\ plan' = Nil
  /\ task' = NextStage(t, {n \in Name : snapshot.rows[n] = Nil})
  /\ UNCHANGED <<daemon, snapshot, route, detail, confirm, browse, values, busy, reviewed, presses, moves>>

\* showPlan(): the values are cleared when it starts.
ShowPlan(t) ==
  /\ At(t, "fn") /\ task[t].op = "plan"
  /\ planValues' = Nil
  /\ task' = IF up THEN NextStage(t, task[t].name) ELSE Thrown(t)
  /\ UNCHANGED <<daemon, drawn, typed, busy, reviewed, presses, moves>>

CreatedAgain(secret) == [Fresh(1) EXCEPT !.secret = secret]
Created(secret) == [Fresh(nextId) EXCEPT !.secret = secret]

\* install(): of the plan, and with the values, there are when it starts.
InstallPlan(t) ==
  /\ At(t, "fn") /\ task[t].op = "install"
  /\ \/ /\ up /\ plan # Nil /\ server[plan.name] = Nil
        /\ server' = [server EXCEPT ![plan.name] = Created(planValues)]
        /\ nextId' = nextId + 1
        /\ task' = [NextStage(t, Nil) EXCEPT ![t].name = plan.name]
     \/ /\ ~(up /\ plan # Nil /\ server[plan.name] = Nil)
        /\ task' = Thrown(t)
        /\ UNCHANGED <<server, nextId>>
  /\ UNCHANGED <<up, drawn, values, busy, reviewed, presses, moves>>

-----------------------------------------------------------------------------
(* The answers. *)

ShownPlan(name) == [name |-> name, filled |-> FALSE]

\* The function ends: its answer, busy (install() goes on), the request of refresh().
Land(t) ==
  /\ At(t, "land")
  /\ LET op == task[t].op
     IN  /\ route' = IF op = "uninstall" THEN [tab |-> "servers", server |-> Nil] ELSE route
         /\ confirm' = IF op = "uninstall" THEN Nil ELSE confirm
         /\ detail' = IF op = "uninstall" THEN Nil ELSE detail
         /\ browse' = IF op = "search" THEN task[t].got ELSE browse
         /\ plan' = CASE op = "plan" -> ShownPlan(task[t].got)
                      [] op = "install" -> Nil
                      [] OTHER -> plan
         /\ planValues' = IF op = "install" THEN Nil ELSE planValues
         /\ busy' = IF op = "install" THEN busy ELSE Nil
  /\ task' = NextStage(t, PollAnswer)
  /\ UNCHANGED <<daemon, snapshot, typed, reviewed, presses, moves>>

-----------------------------------------------------------------------------
(* refresh() and loadView(), after every action and by the clock. *)

\* Every VIEW_TICKS ticks, unless the last poll still runs.  (The ticks between
\* only refresh the snapshot.)
Poll ==
  /\ Idle(Clock)
  /\ task' = [task EXCEPT ![Clock] = Started("tick", Nil, <<"show", "viewed">>, PollAnswer)]
  /\ UNCHANGED <<daemon, drawn, values, busy, reviewed, presses, moves>>

Show(t) ==
  /\ At(t, "show")
  /\ snapshot' = task[t].got
  /\ task' = NextStage(t, ViewAnswer(task[t].got, route))
  /\ UNCHANGED <<daemon, route, detail, confirm, browse, plan, values, busy, reviewed, presses, moves>>

\* install(): after its refresh(), go() to the server it installed.
GoInstalled(t) ==
  /\ At(t, "go")
  /\ snapshot' = task[t].got
  /\ Moved([tab |-> "servers", server |-> task[t].name])
  /\ task' = NextStage(t, ViewAnswer(task[t].got, route'))
  /\ UNCHANGED <<daemon, detail, browse, plan, planValues, busy, reviewed, presses, moves>>

SameServer(got) == IF detail # Nil /\ detail.name = got.name THEN got ELSE detail

\* loadDetail() writes what it got, whatever the route and the detail are by now.
LandedDetail(got) == got

Written(got) ==
  IF got = Nil THEN UNCHANGED <<detail, reviewed>>
  ELSE /\ detail' = LandedDetail(got)
       /\ reviewed' = [reviewed EXCEPT ![got.name] = @ \cup {got.defs}]

Viewed(t) ==
  /\ At(t, "viewed")
  /\ Written(task[t].got)
  /\ task' = [task EXCEPT ![t] = Done]
  /\ UNCHANGED <<daemon, snapshot, route, confirm, browse, plan, values, busy, presses, moves>>

\* install() ends: its act() goes on with busy and refresh().
ViewedInstalled(t) ==
  /\ At(t, "again")
  /\ Written(task[t].got)
  /\ busy' = Nil
  /\ task' = NextStage(t, PollAnswer)
  /\ UNCHANGED <<daemon, snapshot, route, confirm, browse, plan, values, presses, moves>>

-----------------------------------------------------------------------------
(* Others: MCP clients, upstream servers, the daemon itself. *)

Move == moves < MaxMoves /\ moves' = moves + 1

Drift(n) ==
  /\ Move /\ server[n] # Nil
  /\ server' = [server EXCEPT ![n].defs = @ + 1]
  /\ UNCHANGED <<nextId, up, drawn, values, busy, task, reviewed, presses>>

InstallElsewhere(n) ==
  /\ Move /\ server[n] = Nil
  /\ server' = [server EXCEPT ![n] = Fresh(nextId)]
  /\ nextId' = nextId + 1
  /\ UNCHANGED <<up, drawn, values, busy, task, reviewed, presses>>

UninstallElsewhere(n) ==
  /\ Move /\ server[n] # Nil
  /\ server' = [server EXCEPT ![n] = Nil]
  /\ UNCHANGED <<nextId, up, drawn, values, busy, task, reviewed, presses>>

DaemonStopsOrStarts ==
  /\ Move /\ up' = ~up
  /\ UNCHANGED <<server, nextId, drawn, values, busy, task, reviewed, presses>>

-----------------------------------------------------------------------------
User == Act \/ Go \/ AskUninstall \/ TypeValue \/ FillPlan \/ CancelPlan
Step(t) == \/ CallServer(t) \/ Search(t) \/ ShowPlan(t) \/ InstallPlan(t) \/ Land(t)
           \/ Show(t) \/ GoInstalled(t) \/ Viewed(t) \/ ViewedInstalled(t)
World == (\E n \in Name : Drift(n) \/ InstallElsewhere(n) \/ UninstallElsewhere(n))
           \/ DaemonStopsOrStarts

PaneNext == User \/ (\E t \in Task \cup {Clock} : Step(t)) \/ Poll \/ World

\* A request is answered or fails (api()), and the clock goes on.
PaneFairness == (\A t \in Task : WF_paneVars(Step(t))) /\ WF_paneVars(Step(Clock) \/ Poll)

PaneSpec == PaneInit /\ [][PaneNext]_paneVars
PaneFairSpec == PaneSpec /\ PaneFairness

-----------------------------------------------------------------------------
\* What a press changes is the server it named: the id is taken from a snapshot
\* that other tasks replace, beside a detail that may be of another server, and
\* the name may have been installed again (serverId, byId).
ActsOnServerNamed ==
  [][\A t \in Task : \A n \in Name :
       CallServer(t) /\ server'[n] # server[n] => n = task[t].name]_paneVars

\* An approval pins only definitions the pane has shown of that server, also when
\* they change between the review and the press (approve, the hashes of the detail).
ApprovedWasShown ==
  [][\A n \in Name : server[n] # Nil /\ server'[n] # Nil /\ server'[n].pins # server[n].pins
                      /\ server'[n].id = server[n].id
       => server'[n].pins \in reviewed[n]]_paneVars

\* When the user and the rest of the world are quiet, the pane comes to show what
\* is: no action pending, and the detail of the route's server as the daemon has
\* it, whatever late answers of earlier loads are written on the way.
Current == /\ busy = Nil
           /\ up /\ route.server # Nil /\ server[route.server] # Nil
                => detail = DetailOf(route.server)
PaneSettles == <>[]Current
=============================================================================
