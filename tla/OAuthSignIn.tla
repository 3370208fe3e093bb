---------------------------- MODULE OAuthSignIn ----------------------------
(***************************************************************************)
(* domain/oauth.ts with the callers that wait for it (mcp/server.ts) and   *)
(* the pane's routes (transport/rest.ts): sign-ins to upstream servers,    *)
(* several of them at a time, in tabs that come back late, after the user  *)
(* said no, or after the server was uninstalled.                           *)
(*                                                                         *)
(* A sign-in is a number: it stands for its state, its PKCE verifier and   *)
(* its URL.  Secrets are values under the server's name, and rows that     *)
(* belong to the installation (secrets.ts).                                *)
(***************************************************************************)
EXTENDS Integers, FiniteSets

CONSTANTS Name, Caller, Pane, None,   \* Pane asks as a client's call does
          MaxSignIns, MaxInstalls, MaxFaults      \* bounds

ASSUME BoundsAssumption == MaxSignIns \in Nat
ASSUME PaneAssumption == Pane \notin Caller

SignIn == 1..MaxSignIns
Asker == Caller \cup {Pane}

VARIABLES
  server,     \* server[n]: its id, 0 when it is not installed
  rows,       \* rows[n]: the secrets its installation has rows of
  verifier, tokens,   \* the values stored under the name: sign-ins
  life,       \* life[n]: whether the tokens are fresh or expired
  states,     \* states[k]: the server a state was minted for, None when used or expired
  pending,    \* pending[n]: the sign-in whose URL is handed out
  refresh,    \* refresh[w]: the refresh of tokens that w has under way
  tab,        \* tab[k]: where the user's browser is
  exchange,   \* exchange[k]: the callback that finishes k; late: it read a verifier
              \* when the server was settled (for the properties)
  caller,     \* a client's call: which URL it was answered with
  settled,    \* settled[n]: a callback has signed n in, and no URL was handed out
              \* since (for the properties)
  begun, installs, faults

secrets == <<rows, verifier, tokens, life>>
vars == <<server, secrets, states, pending, tab, refresh, exchange, caller, settled, begun,
          installs, faults>>

NoExchange == [server |-> None, owner |-> 0, step |-> "none", verifier |-> None, late |-> FALSE]
Idle == [phase |-> "idle", server |-> None, url |-> None]
Failed == [phase |-> "failed", server |-> None, url |-> None]
NoRefresh == [server |-> None, owner |-> 0]

------------------------------------------------------------------------------
(* The store of one installation. *)

Known(n, owner, key) == server[n] = owner /\ key \in rows[n]
Authorized(n) == Known(n, server[n], "tokens")
Fresh(n) == Authorized(n) /\ life[n] = "fresh"

\* What the pane is told of a server: tokens come first, expired ones too.
Status(n) ==
  IF Authorized(n) THEN "authorized" ELSE IF pending[n] # None THEN "required" ELSE "unknown"

------------------------------------------------------------------------------
(* The SDK's auth(): a request gets 401, or the pane asks for it, signed in or not. *)

\* Without tokens that can be refreshed it mints a state, stores its verifier and hands
\* out the URL.  What it keeps of the tokens is up to the authorization server.
Redirect(n, dropped) ==
  LET k == begun + 1
  IN /\ begun < MaxSignIns /\ begun' = k
     /\ states' = [states EXCEPT ![k] = n]
     /\ verifier' = [verifier EXCEPT ![n] = k]
     /\ rows' = [rows EXCEPT ![n] = (@ \ dropped) \cup {"verifier"}]
     /\ pending' = [pending EXCEPT ![n] = k]
     /\ tab' = [tab EXCEPT ![k] = "open"]
     /\ settled' = [settled EXCEPT ![n] = FALSE]

Refreshes(w, n) ==
  /\ Authorized(n)
  /\ refresh' = [refresh EXCEPT ![w] = [server |-> n, owner |-> server[n]]]
  /\ UNCHANGED <<rows, verifier, states, pending, tab, settled, begun>>

PaneBegins(n) ==
  /\ server[n] # 0 /\ refresh[Pane] = NoRefresh
  /\ \/ Redirect(n, {}) /\ UNCHANGED refresh
     \/ Refreshes(Pane, n)
  /\ UNCHANGED <<server, tokens, life, exchange, caller, installs, faults>>

Answer(w, answer) == caller' = IF w = Pane THEN caller ELSE [caller EXCEPT ![w] = answer]
Asked(n) == [phase |-> "asked", server |-> n, url |-> begun + 1]

\* A call whose tokens are missing or expired is answered with the URL, for the user to open.
Call(c, n) ==
  /\ caller[c].phase \in {"idle", "failed"} /\ server[n] # 0 /\ ~Fresh(n)
  /\ \/ Redirect(n, {}) /\ Answer(c, Asked(n)) /\ UNCHANGED refresh
     \/ Refreshes(c, n) /\ Answer(c, [phase |-> "calling", server |-> n, url |-> None])
  /\ UNCHANGED <<server, tokens, life, exchange, installs, faults>>

Ends(w) == refresh' = [refresh EXCEPT ![w] = NoRefresh]
Own(r) == r # NoRefresh /\ server[r.server] = r.owner

Refreshed(w) ==
  LET n == refresh[w].server
  IN /\ Own(refresh[w]) /\ Ends(w) /\ Answer(w, Idle)
     /\ rows' = [rows EXCEPT ![n] = @ \cup {"tokens"}]
     /\ life' = [life EXCEPT ![n] = "fresh"]
     /\ UNCHANGED <<server, verifier, tokens, states, pending, tab, exchange, settled, begun,
                    installs, faults>>

\* The refresh meets a server error, or the grant or the client is refused and the
\* tokens are dropped: the user signs in.
SignsInAnew(w) ==
  LET n == refresh[w].server
  IN /\ Own(refresh[w]) /\ Ends(w) /\ Answer(w, Asked(n))
     /\ \E dropped \in SUBSET {"tokens"} : Redirect(n, dropped)
     /\ UNCHANGED <<server, tokens, life, exchange, installs, faults>>

Everything == {"tokens", "verifier"}

\* The network fails in between; a refused client has lost everything.
RefreshFails(w) ==
  /\ Own(refresh[w]) /\ Ends(w) /\ Answer(w, Failed)
  /\ faults < MaxFaults /\ faults' = faults + 1
  /\ \E dropped \in {{}, {"tokens"}, Everything} :
       rows' = [rows EXCEPT ![refresh[w].server] = @ \ dropped]
  /\ UNCHANGED <<server, verifier, tokens, life, states, pending, tab, exchange, settled, begun,
                 installs>>

\* The server was uninstalled meanwhile: nothing can be stored for it.
RefreshOrphaned(w) ==
  /\ refresh[w] # NoRefresh /\ ~Own(refresh[w]) /\ Ends(w) /\ Answer(w, Failed)
  /\ UNCHANGED <<server, secrets, states, pending, tab, exchange, settled, begun, installs, faults>>

------------------------------------------------------------------------------
(* The user, at the authorization server. *)

Decides(k) ==
  /\ tab[k] = "open"
  /\ \E answer \in {"granted", "denied"} : tab' = [tab EXCEPT ![k] = answer]
  /\ UNCHANGED <<server, secrets, states, pending, refresh, exchange, caller, settled, begun,
                 installs, faults>>

StateExpires(k) ==
  /\ states[k] # None
  /\ states' = [states EXCEPT ![k] = None]
  /\ UNCHANGED <<server, secrets, pending, tab, refresh, exchange, caller, settled, begun,
                 installs, faults>>

TokensExpire(n) ==
  /\ Fresh(n) /\ life' = [life EXCEPT ![n] = "expired"]
  /\ UNCHANGED <<server, rows, verifier, tokens, states, pending, tab, refresh, exchange, caller,
                 settled, begun, installs, faults>>

------------------------------------------------------------------------------
(* The callback. *)

Waits(c, n) == caller[c].phase = "waiting" /\ caller[c].server = n
WokenBy(n) == {c \in Caller : Waits(c, n)}
Wake(callers) == caller' = [c \in Caller |-> IF c \in callers THEN Idle ELSE caller[c]]

\* A slip a callback does not make: a refusal wakes the callers that wait.
DeniedAndWakes(k) ==
  /\ tab[k] = "denied" /\ tab' = [tab EXCEPT ![k] = "done"]
  /\ states' = [states EXCEPT ![k] = None]
  /\ IF states[k] = None THEN UNCHANGED <<pending, caller>>
     ELSE pending' = [pending EXCEPT ![states[k]] = None] /\ Wake(WokenBy(states[k]))
  /\ UNCHANGED <<server, secrets, refresh, exchange, settled, begun, installs, faults>>

\* A refusal forgets the URL and wakes nobody.
Denied(k) ==
  /\ tab[k] = "denied" /\ tab' = [tab EXCEPT ![k] = "done"]
  /\ states' = [states EXCEPT ![k] = None]
  /\ pending' = IF states[k] = None THEN pending ELSE [pending EXCEPT ![states[k]] = None]
  /\ UNCHANGED <<server, secrets, refresh, exchange, caller, settled, begun, installs, faults>>

\* A state works once, and only for an installed server, whose row is kept.
Callback(k) ==
  LET n == states[k]
  IN /\ tab[k] = "granted" /\ tab' = [tab EXCEPT ![k] = "done"]
     /\ states' = [states EXCEPT ![k] = None]
     /\ exchange' = IF n = None \/ server[n] = 0 THEN exchange
                    ELSE [exchange EXCEPT ![k] = [server |-> n, owner |-> server[n],
                            step |-> "discovery", verifier |-> None, late |-> FALSE]]
     /\ UNCHANGED <<server, secrets, pending, refresh, caller, settled, begun, installs, faults>>

Finish(k) == exchange' = [exchange EXCEPT ![k] = NoExchange]

\* The verifier is read when the authorization server has been discovered.
ReadVerifier(k) ==
  LET n == exchange[k].server
  IN /\ exchange[k].step = "discovery"
     /\ IF Known(n, exchange[k].owner, "verifier")
        THEN exchange' = [exchange EXCEPT ![k].step = "token", ![k].verifier = verifier[n],
                                        ![k].late = settled[n]]
        ELSE Finish(k)
     /\ UNCHANGED <<server, secrets, states, tab, pending, refresh, caller, settled, begun,
                    installs, faults>>

\* Slips the callback does not make: it leaves the verifier; or the URL.
CompleteKeepingVerifier(n) ==
  /\ rows' = [rows EXCEPT ![n] = @ \cup {"tokens"}]
  /\ pending' = [pending EXCEPT ![n] = None]
  /\ Wake(WokenBy(n))
  /\ settled' = [settled EXCEPT ![n] = TRUE]
CompleteKeepingUrl(n) ==
  /\ rows' = [rows EXCEPT ![n] = (@ \cup {"tokens"}) \ {"verifier"}]
  /\ UNCHANGED pending
  /\ Wake(WokenBy(n))
  /\ settled' = [settled EXCEPT ![n] = TRUE]

\* Tokens are stored; the verifier and the URL go, whichever sign-in they are of, and
\* all who wait for the server go on.
Complete(n) ==
  /\ rows' = [rows EXCEPT ![n] = (@ \cup {"tokens"}) \ {"verifier"}]
  /\ pending' = [pending EXCEPT ![n] = None]
  /\ Wake(WokenBy(n))
  /\ settled' = [settled EXCEPT ![n] = TRUE]

\* The token is given for the verifier of the same sign-in.  When the server was
\* uninstalled meanwhile, the value is stored but its row is not, and that is an error.
Granted(k) ==
  LET n == exchange[k].server
  IN /\ exchange[k].step = "token" /\ exchange[k].verifier = k
     /\ tokens' = [tokens EXCEPT ![n] = k]
     /\ IF server[n] = exchange[k].owner
        THEN Complete(n) /\ life' = [life EXCEPT ![n] = "fresh"]
        ELSE UNCHANGED <<rows, life, pending, caller, settled>>
     /\ Finish(k)
     /\ UNCHANGED <<server, verifier, states, tab, refresh, begun, installs, faults>>

\* A code without its verifier is an invalid grant, and the SDK drops the tokens.
Invalid(k) ==
  LET n == exchange[k].server
  IN /\ exchange[k].step = "token" /\ exchange[k].verifier # k
     /\ rows' = IF server[n] = exchange[k].owner THEN [rows EXCEPT ![n] = @ \ {"tokens"}] ELSE rows
     /\ Finish(k)
     /\ UNCHANGED <<server, verifier, tokens, life, states, tab, pending, refresh, caller, settled,
                    begun, installs, faults>>

\* A client the authorization server no longer knows loses everything that is stored.
InvalidClient(k) ==
  LET n == exchange[k].server
  IN /\ exchange[k].step = "token" /\ faults < MaxFaults /\ faults' = faults + 1
     /\ rows' = IF server[n] = exchange[k].owner THEN [rows EXCEPT ![n] = {}] ELSE rows
     /\ Finish(k)
     /\ UNCHANGED <<server, verifier, tokens, life, states, tab, pending, refresh, caller, settled,
                    begun, installs>>

ExchangeFails(k) ==
  /\ exchange[k] # NoExchange /\ faults < MaxFaults /\ faults' = faults + 1
  /\ Finish(k)
  /\ UNCHANGED <<server, secrets, states, tab, pending, refresh, caller, settled, begun, installs>>

------------------------------------------------------------------------------
(* The call again, when its user has opened the URL. *)

Retry(c) ==
  /\ caller[c].phase = "asked"
  /\ caller' = [caller EXCEPT ![c] =
                  IF pending[caller[c].server] = None THEN Idle
                  ELSE [caller[c] EXCEPT !.phase = "waiting"]]
  /\ UNCHANGED <<server, secrets, states, pending, tab, refresh, exchange, settled, begun,
                 installs, faults>>

Declines(c) ==
  /\ caller[c].phase = "asked"
  /\ caller' = [caller EXCEPT ![c] = Idle]
  /\ UNCHANGED <<server, secrets, states, pending, tab, refresh, exchange, settled, begun,
                 installs, faults>>

WaitTimesOut(c) ==
  /\ caller[c].phase = "waiting"
  /\ caller' = [caller EXCEPT ![c] = Failed]
  /\ UNCHANGED <<server, secrets, states, pending, tab, refresh, exchange, settled, begun,
                 installs, faults>>

------------------------------------------------------------------------------
Install(n) ==
  /\ server[n] = 0 /\ installs < MaxInstalls
  /\ installs' = installs + 1
  /\ server' = [server EXCEPT ![n] = installs + 1]
  /\ UNCHANGED <<secrets, states, pending, tab, refresh, exchange, caller, settled, begun, faults>>

\* The installation's secrets go, values and rows; what the manager keeps stays.
Uninstall(n) ==
  /\ server[n] # 0
  /\ server' = [server EXCEPT ![n] = 0]
  /\ rows' = [rows EXCEPT ![n] = {}]
  /\ life' = [life EXCEPT ![n] = "fresh"]
  /\ UNCHANGED <<verifier, tokens, states, pending, tab, refresh, exchange, caller, settled, begun,
                 installs, faults>>

Init ==
  /\ server = [n \in Name |-> 0] /\ rows = [n \in Name |-> {}]
  /\ verifier = [n \in Name |-> None] /\ tokens = [n \in Name |-> None]
  /\ life = [n \in Name |-> "fresh"] /\ settled = [n \in Name |-> FALSE]
  /\ refresh = [w \in Asker |-> NoRefresh]
  /\ states = [k \in SignIn |-> None] /\ tab = [k \in SignIn |-> "none"]
  /\ exchange = [k \in SignIn |-> NoExchange]
  /\ pending = [n \in Name |-> None]
  /\ caller = [c \in Caller |-> Idle]
  /\ begun = 0 /\ installs = 0 /\ faults = 0

Next ==
  \/ \E n \in Name : PaneBegins(n) \/ TokensExpire(n) \/ Install(n) \/ Uninstall(n)
  \/ \E w \in Asker : Refreshed(w) \/ SignsInAnew(w) \/ RefreshFails(w) \/ RefreshOrphaned(w)
  \/ \E c \in Caller : (\E n \in Name : Call(c, n)) \/ Retry(c) \/ Declines(c) \/ WaitTimesOut(c)
  \/ \E k \in SignIn : Decides(k) \/ StateExpires(k) \/ Denied(k) \/ Callback(k) \/ ReadVerifier(k)
                       \/ Granted(k) \/ Invalid(k) \/ InvalidClient(k) \/ ExchangeFails(k)

Spec == Init /\ [][Next]_vars

------------------------------------------------------------------------------
(* Properties. *)

\* A completed sign-in leaves nobody behind: until another URL is handed out, who comes
\* back finds no URL to wait for, and who waited is woken, whichever of several tabs it
\* was, whether tokens expire, are refreshed or are lost later (oauth.ts:193-196,
\* server.ts:259-261).
NobodyWaitsSettled ==
  \A c \in Caller : caller[c].phase = "waiting" => ~settled[caller[c].server]

\* "Resolves true when the server's sign-in completes" (oauth.ts:200): not when it is
\* refused, and not while the installation has no tokens.
WokenIsAuthorized ==
  [][\A n \in Name : (\E c \in WokenBy(n) : caller'[c] = Idle) => Fresh(n)']_vars

\* A tab that comes back when another one has signed the server in, and no URL was handed
\* out since, finds no verifier (oauth.ts:193): its code is not tried and the tokens are
\* not dropped for it.  A callback that drops them read its verifier before, or one of a
\* sign-in begun later.
LateTabsDoNoHarm ==
  [][\A n \in Name, k \in SignIn :
       exchange[k].server = n /\ exchange'[k] = NoExchange /\ Authorized(n) /\ ~Authorized(n)'
         => ~exchange[k].late]_vars

\* "finish in the browser and the call resumes" (docs/USER-MANUAL.md:193): when the
\* exchange of a granted tab ends and nothing failed, no call it was opened for still waits.
FinishedIsResumed ==
  [][\A k \in SignIn :
       LET e == exchange[k]
       IN e # NoExchange /\ exchange'[k] = NoExchange /\ server[e.server] = e.owner /\ faults' = faults
            => \A c \in Caller : caller'[c].phase = "waiting" => caller'[c].url # k]_vars

\* "returns the URL to open when sign-in is needed" (oauth.ts:159): the pane that begins
\* a sign-in of a server without fresh tokens is told that one is required.
BeginReturnsTheUrl ==
  [][\A n \in Name : PaneBegins(n) /\ ~Fresh(n) /\ begun' # begun => Status(n)' = "required"]_vars
=============================================================================
