------------------------- MODULE OAuthSignIn_proofs -------------------------
(* Several tabs, late callbacks, refreshes and waiting calls never harm a     *)
(* sign-in that completed, for any number of servers, callers, sign-ins and   *)
(* installations.                                                             *)
EXTENDS OAuthSignIn, TLAPS

Maybe(S) == S \cup {None}

Exchange == [server : Maybe(Name), owner : Nat, step : {"none", "discovery", "token"},
             verifier : Maybe(SignIn), late : BOOLEAN]
Waiter == [phase : {"idle", "failed", "calling", "asked", "waiting"}, server : Maybe(Name),
           url : Nat \cup {None}]
Refreshing == [server : Maybe(Name), owner : Nat]

Types ==
  /\ server \in [Name -> Nat]
  /\ rows \in [Name -> SUBSET {"verifier", "tokens"}]
  /\ verifier \in [Name -> Maybe(SignIn)] /\ tokens \in [Name -> Maybe(SignIn)]
  /\ life \in [Name -> {"fresh", "expired"}]
  /\ settled \in [Name -> BOOLEAN]
  /\ refresh \in [Asker -> Refreshing]
  /\ states \in [SignIn -> Maybe(Name)]
  /\ pending \in [Name -> Maybe(SignIn)]
  /\ exchange \in [SignIn -> Exchange]
  /\ caller \in [Caller -> Waiter]
  /\ begun \in Nat /\ installs \in Nat
  /\ \A k \in SignIn : exchange[k].step # "none" => exchange[k].server \in Name
  /\ \A c \in Caller : caller[c].phase \in {"asked", "waiting"} => caller[c].server \in Name
  /\ \A w \in Asker : refresh[w] # NoRefresh => refresh[w].server \in Name

\* What a completed sign-in leaves behind: no verifier for a late tab, no URL to wait
\* for, nobody waiting.  Handing out another URL ends it, so the three stay away
\* whatever becomes of the tokens; and no exchange read a verifier of a settled server.
Settled(n) ==
  settled[n] =>
    /\ "verifier" \notin rows[n]
    /\ pending[n] = None
    /\ \A c \in Caller : ~Waits(c, n)

SignInInv ==
  /\ Types
  /\ \A n \in Name : Settled(n)
  /\ \A k \in SignIn : ~exchange[k].late

-----------------------------------------------------------------------------
(* Steps that several actions share. *)

LEMMA NothingYet ==
  NoExchange \in Exchange /\ Idle \in Waiter /\ Failed \in Waiter /\ NoRefresh \in Refreshing
BY DEF NoExchange, Exchange, Idle, Failed, Waiter, Maybe, NoRefresh, Refreshing

LEMMA RedirectTypes ==
  ASSUME Types, NEW n \in Name, NEW dropped, Redirect(n, dropped)
  PROVE  /\ begun' \in Nat /\ states' \in [SignIn -> Maybe(Name)]
         /\ verifier' \in [Name -> Maybe(SignIn)]
         /\ rows' \in [Name -> SUBSET {"verifier", "tokens"}]
         /\ pending' \in [Name -> Maybe(SignIn)]
         /\ settled' \in [Name -> BOOLEAN]
<1> DEFINE k == begun + 1
<1>1. begun' = k /\ k \in Nat /\ begun < MaxSignIns
  BY DEF Redirect, Types
<1>2. /\ states' = [states EXCEPT ![k] = n] /\ verifier' = [verifier EXCEPT ![n] = k]
      /\ rows' = [rows EXCEPT ![n] = (@ \ dropped) \cup {"verifier"}]
      /\ pending' = [pending EXCEPT ![n] = k]
      /\ settled' = [settled EXCEPT ![n] = FALSE]
  BY DEF Redirect
<1>3. k \in SignIn
  BY <1>1, BoundsAssumption DEF SignIn, Types
<1> QED
  BY <1>1, <1>2, <1>3 DEF Types, Maybe

\* No caller begins to wait, and the servers whose URL stays keep what they had.
NobodyNew == \A c \in Caller, n \in Name : Waits(c, n)' => Waits(c, n)

LEMMA RedirectSettled ==
  ASSUME Types, NEW n \in Name, NEW dropped, Redirect(n, dropped), NobodyNew,
         NEW m \in Name, Settled(m)
  PROVE  Settled(m)'
<1>1. /\ rows' = [rows EXCEPT ![n] = (@ \ dropped) \cup {"verifier"}]
      /\ settled' = [settled EXCEPT ![n] = FALSE]
      /\ (m # n => pending'[m] = pending[m])
  BY DEF Redirect, Types
<1>2. CASE m = n
  BY <1>1, <1>2 DEF Settled, Types
<1>3. CASE m # n
  <2>1. rows'[m] = rows[m] /\ settled'[m] = settled[m]
    BY <1>1, <1>3 DEF Types
  <2> QED BY <1>1, <1>3, <2>1 DEF Settled, NobodyNew
<1> QED BY <1>2, <1>3

LEMMA WakeWakes ==
  ASSUME Types, NEW n \in Name, Wake(WokenBy(n))
  PROVE  /\ caller' \in [Caller -> Waiter]
         /\ \A c \in Caller : caller'[c] = caller[c] \/ caller'[c] = Idle
         /\ \A c \in Caller : ~Waits(c, n)'
         /\ \A c \in Caller : caller[c] # caller'[c] => caller[c].server = n
BY NothingYet DEF Wake, WokenBy, Waits, Types, Idle

\* A server that gets no verifier, no URL and no waiter stays settled.
LEMMA SettledElsewhere ==
  ASSUME NEW n \in Name, Settled(n), settled'[n] = settled[n], "verifier" \in rows'[n] => "verifier" \in rows[n],
         pending'[n] = pending[n] \/ pending'[n] = None, NobodyNew
  PROVE  Settled(n)'
BY DEF Settled, NobodyNew

\* What an answer to a call, or to the pane, does to the callers: nobody waits for it.
LEMMA Answered ==
  ASSUME Types, NEW w \in Asker, NEW answer \in Waiter, Answer(w, answer),
         answer.phase # "waiting", answer.phase = "asked" => answer.server \in Name
  PROVE  /\ caller' \in [Caller -> Waiter]
         /\ \A c \in Caller : caller'[c].phase \in {"asked", "waiting"} => caller'[c].server \in Name
         /\ NobodyNew
<1>1. \A c \in Caller : caller'[c] = caller[c] \/ caller'[c] = answer
  BY PaneAssumption DEF Answer, Types
<1>2. caller' \in [Caller -> Waiter]
  BY PaneAssumption DEF Answer, Types
<1> QED BY <1>1, <1>2 DEF Types, NobodyNew, Waits

\* A refresh begins, or ends.
LEMMA RefreshTypes ==
  ASSUME Types, NEW w \in Asker, NEW n \in Name, Ends(w) \/ Refreshes(w, n)
  PROVE  /\ refresh' \in [Asker -> Refreshing]
         /\ \A v \in Asker : refresh'[v] # NoRefresh => refresh'[v].server \in Name
<1> DEFINE e == [server |-> n, owner |-> server[n]]
<1>1. e \in Refreshing /\ e.server \in Name
  BY DEF Types, Refreshing, Maybe
<1>2. refresh' = [refresh EXCEPT ![w] = NoRefresh] \/ refresh' = [refresh EXCEPT ![w] = e]
  BY DEF Ends, Refreshes
<1> HIDE DEF e
<1> QED BY <1>1, <1>2, NothingYet DEF Types

LEMMA CallbackTypes ==
  ASSUME Types, NEW k \in SignIn, Callback(k)
  PROVE  exchange' \in [SignIn -> Exchange]
         /\ (\A j \in SignIn : exchange'[j].step # "none" => exchange'[j].server \in Name)
         /\ ((\A j \in SignIn : ~exchange[j].late) => \A j \in SignIn : ~exchange'[j].late)
<1>1. CASE states[k] = None \/ server[states[k]] = 0
  BY <1>1 DEF Callback, Types
<1>2. CASE states[k] # None /\ server[states[k]] # 0
  <2> DEFINE e == [server |-> states[k], owner |-> server[states[k]],
                   step |-> "discovery", verifier |-> None, late |-> FALSE]
  <2>1. states[k] \in Name
    BY <1>2 DEF Types, Maybe
  <2>2. e \in Exchange
    BY <2>1 DEF Types, Exchange, Maybe
  <2>3. exchange' = [exchange EXCEPT ![k] = e]
    BY <1>2 DEF Callback
  <2> HIDE DEF e
  <2>4. e.server \in Name /\ ~e.late
    BY <2>1 DEF e
  <2> QED BY <2>2, <2>3, <2>4 DEF Types
<1> QED BY <1>1, <1>2

LEMMA FinishTypes ==
  ASSUME Types, NEW k \in SignIn, Finish(k)
  PROVE  exchange' \in [SignIn -> Exchange]
         /\ (\A j \in SignIn : exchange'[j].step # "none" => exchange'[j].server \in Name)
         /\ ((\A j \in SignIn : ~exchange[j].late) => \A j \in SignIn : ~exchange'[j].late)
BY NothingYet DEF Finish, Types, NoExchange

\* A verifier is read only of a server that is not settled.
LEMMA ReadTypes ==
  ASSUME Types, NEW k \in SignIn, \A n \in Name : Settled(n), ReadVerifier(k)
  PROVE  exchange' \in [SignIn -> Exchange]
         /\ (\A j \in SignIn : exchange'[j].step # "none" => exchange'[j].server \in Name)
         /\ ((\A j \in SignIn : ~exchange[j].late) => \A j \in SignIn : ~exchange'[j].late)
<1> DEFINE n == exchange[k].server
<1>1. n \in Name /\ exchange[k] \in Exchange
  BY DEF ReadVerifier, Types
<1>2. CASE Known(n, exchange[k].owner, "verifier")
  <2>1. settled[n] = FALSE
    BY <1>1, <1>2 DEF Settled, Known, Types
  <2> DEFINE e == [exchange[k] EXCEPT !.step = "token", !.verifier = verifier[n], !.late = FALSE]
  <2>2. exchange' = [exchange EXCEPT ![k] = e]
    <3>1. exchange' = [exchange EXCEPT ![k].step = "token", ![k].verifier = verifier[n],
                                      ![k].late = settled[n]]
      BY <1>2 DEF ReadVerifier
    <3> QED BY <1>1, <2>1, <3>1 DEF Types, Exchange
  <2>3. verifier[n] \in Maybe(SignIn)
    BY <1>1 DEF Types
  <2>4. e \in Exchange /\ e.server \in Name /\ ~e.late
    BY <1>1, <2>3 DEF Exchange
  <2> HIDE DEF e
  <2> QED BY <2>2, <2>4 DEF Types
<1>3. CASE ~Known(n, exchange[k].owner, "verifier")
  BY <1>3, FinishTypes DEF ReadVerifier
<1> QED BY <1>2, <1>3

-----------------------------------------------------------------------------
LEMMA SignInInvInit == Init => SignInInv
<1> SUFFICES ASSUME Init PROVE SignInInv
  OBVIOUS
<1>1. Types
  BY NothingYet DEF Init, Types, NoExchange, Idle, Maybe
<1> QED BY <1>1 DEF Init, SignInInv, Settled, NoExchange

LEMMA GrantedKeeps ==
  ASSUME SignInInv, NEW k \in SignIn, Granted(k)
  PROVE  SignInInv'
<1> USE DEF SignInInv
<1>0. exchange[k].server \in Name /\ k \in Maybe(SignIn)
  BY DEF Granted, Types, Maybe
<1> PICK n \in Name : n = exchange[k].server
  BY <1>0
<1>1. n \in Name /\ k \in Maybe(SignIn)
  BY <1>0
<1>2. Finish(k) /\ tokens' = [tokens EXCEPT ![n] = k]
      /\ UNCHANGED <<server, verifier, states, tab, refresh, begun, installs, faults>>
  BY DEF Granted
<1>3. CASE server[n] = exchange[k].owner
  <2>1. rows' = [rows EXCEPT ![n] = (@ \cup {"tokens"}) \ {"verifier"}]
        /\ pending' = [pending EXCEPT ![n] = None] /\ Wake(WokenBy(n))
        /\ life' = [life EXCEPT ![n] = "fresh"] /\ settled' = [settled EXCEPT ![n] = TRUE]
    BY <1>3 DEF Granted, Complete
  <2>2. /\ caller' \in [Caller -> Waiter]
        /\ \A c \in Caller : caller'[c] = caller[c] \/ caller'[c] = Idle
        /\ \A c \in Caller : ~Waits(c, n)'
    BY <1>1, <2>1, WakeWakes
  <2>3. Types'
    <3>1. \A c \in Caller : caller'[c].phase \in {"asked", "waiting"} => caller'[c].server \in Name
      BY <2>2 DEF Types, Idle
    <3>2. /\ rows' \in [Name -> SUBSET {"verifier", "tokens"}]
          /\ tokens' \in [Name -> Maybe(SignIn)] /\ pending' \in [Name -> Maybe(SignIn)]
          /\ life' \in [Name -> {"fresh", "expired"}] /\ settled' \in [Name -> BOOLEAN]
      BY <1>1, <1>2, <2>1 DEF Types, Maybe
    <3> QED BY <1>2, <2>1, <2>2, <3>1, <3>2, FinishTypes DEF Types
  <2>4. ASSUME NEW m \in Name PROVE Settled(m)'
    <3>1. CASE m = n
      BY <1>1, <2>1, <2>2, <3>1 DEF Settled, Types
    <3>2. CASE m # n
      <4>1. rows'[m] = rows[m] /\ pending'[m] = pending[m] /\ settled'[m] = settled[m]
        BY <1>2, <2>1, <3>2 DEF Types
      <4>2. NobodyNew
        BY <2>2 DEF NobodyNew, Waits, Idle
      <4> QED BY <4>1, <4>2, SettledElsewhere
    <3> QED BY <3>1, <3>2
  <2> QED BY <1>2, <2>3, <2>4, FinishTypes
<1>4. CASE server[n] # exchange[k].owner
  <2>1. UNCHANGED <<server, rows, life, pending, caller, settled>>
    BY <1>4 DEF Granted
  <2>2. Types'
    BY <1>1, <1>2, <2>1, FinishTypes DEF Types
  <2>3. \A m \in Name : Settled(m)'
    BY <2>1 DEF Settled, Waits
  <2> QED BY <1>2, <2>2, <2>3, FinishTypes
<1> QED BY <1>3, <1>4

LEMMA RedirectKeeps ==
  ASSUME SignInInv, NEW n \in Name, NEW dropped, Redirect(n, dropped),
         UNCHANGED <<server, tokens, life, exchange, installs>>, NobodyNew,
         caller' \in [Caller -> Waiter],
         \A c \in Caller : caller'[c].phase \in {"asked", "waiting"} => caller'[c].server \in Name,
         refresh' \in [Asker -> Refreshing],
         \A w \in Asker : refresh'[w] # NoRefresh => refresh'[w].server \in Name
  PROVE  SignInInv'
<1>1. Types'
  BY RedirectTypes DEF SignInInv, Types
<1>2. \A m \in Name : Settled(m)'
  BY RedirectSettled DEF SignInInv
<1> QED BY <1>1, <1>2 DEF SignInInv

\* The callers and refreshes change, and rows only go: nothing else does.
LEMMA RestKeeps ==
  ASSUME SignInInv, UNCHANGED <<server, verifier, tokens, states, pending, exchange, settled, begun, installs>>,
         life' \in [Name -> {"fresh", "expired"}], rows' \in [Name -> SUBSET {"verifier", "tokens"}],
         \A n \in Name : "verifier" \in rows'[n] => "verifier" \in rows[n],
         NobodyNew, caller' \in [Caller -> Waiter],
         \A c \in Caller : caller'[c].phase \in {"asked", "waiting"} => caller'[c].server \in Name,
         refresh' \in [Asker -> Refreshing],
         \A w \in Asker : refresh'[w] # NoRefresh => refresh'[w].server \in Name
  PROVE  SignInInv'
<1>1. Types'
  BY DEF SignInInv, Types
<1>2. \A m \in Name : Settled(m)'
  BY SettledElsewhere DEF SignInInv
<1> QED BY <1>1, <1>2 DEF SignInInv

LEMMA AskedAnswer ==
  ASSUME Types, NEW n \in Name
  PROVE  /\ Asked(n) \in Waiter /\ Asked(n).phase = "asked" /\ Asked(n).server = n
         /\ [phase |-> "calling", server |-> n, url |-> None] \in Waiter
BY DEF Types, Asked, Waiter, Maybe

LEMMA RefreshesKeeps ==
  ASSUME SignInInv, NEW w \in Asker, NEW n \in Name, Refreshes(w, n),
         UNCHANGED <<server, tokens, life, exchange, installs>>, NobodyNew,
         caller' \in [Caller -> Waiter],
         \A c \in Caller : caller'[c].phase \in {"asked", "waiting"} => caller'[c].server \in Name
  PROVE  SignInInv'
<1>1. UNCHANGED <<rows, verifier, states, pending, tab, settled, begun>>
  BY DEF Refreshes
<1>2. Types
  BY DEF SignInInv
<1> QED BY <1>1, <1>2, RefreshTypes, RestKeeps DEF Types

LEMMA SignInInvStep == SignInInv /\ [Next]_vars => SignInInv'
<1> SUFFICES ASSUME SignInInv, [Next]_vars PROVE SignInInv'
  OBVIOUS
<1> USE DEF SignInInv
<1>0. Pane \in Asker /\ Caller \subseteq Asker
  BY DEF Asker
<1>1. ASSUME NEW n \in Name, PaneBegins(n) PROVE SignInInv'
  <2>1. UNCHANGED <<server, tokens, life, exchange, caller, installs>>
    BY <1>1 DEF PaneBegins
  <2>2. NobodyNew
    BY <2>1 DEF NobodyNew, Waits
  <2>3. CASE Redirect(n, {}) /\ UNCHANGED refresh
    BY <2>1, <2>2, <2>3, RedirectKeeps DEF Types
  <2>4. CASE Refreshes(Pane, n)
    BY <1>0, <2>1, <2>2, <2>4, RefreshesKeeps DEF Types
  <2> QED BY <1>1, <2>3, <2>4 DEF PaneBegins
<1>2. ASSUME NEW n \in Name, NEW c \in Caller, Call(c, n) PROVE SignInInv'
  <2>1. UNCHANGED <<server, tokens, life, exchange, installs>> /\ c \in Asker
    BY <1>0, <1>2 DEF Call
  <2>2. CASE Redirect(n, {}) /\ Answer(c, Asked(n)) /\ UNCHANGED refresh
    <3>1. /\ caller' \in [Caller -> Waiter] /\ NobodyNew
          /\ \A d \in Caller : caller'[d].phase \in {"asked", "waiting"} => caller'[d].server \in Name
      BY <2>1, <2>2, Answered, AskedAnswer
    <3> QED BY <2>1, <2>2, <3>1, RedirectKeeps DEF Types
  <2>3. CASE Refreshes(c, n) /\ Answer(c, [phase |-> "calling", server |-> n, url |-> None])
    <3>1. /\ caller' \in [Caller -> Waiter] /\ NobodyNew
          /\ \A d \in Caller : caller'[d].phase \in {"asked", "waiting"} => caller'[d].server \in Name
      BY <2>1, <2>3, Answered, AskedAnswer
    <3> QED BY <2>1, <2>3, <3>1, RefreshesKeeps
  <2> QED BY <1>2, <2>2, <2>3 DEF Call
<1>3. ASSUME NEW w \in Asker, SignsInAnew(w) PROVE SignInInv'
  <2> DEFINE n == refresh[w].server
  <2>1. /\ n \in Name /\ Ends(w) /\ Answer(w, Asked(n))
        /\ UNCHANGED <<server, tokens, life, exchange, installs>>
    BY <1>3 DEF SignsInAnew, Own, Types
  <2>2. PICK dropped \in SUBSET {"tokens"} : Redirect(n, dropped)
    BY <1>3 DEF SignsInAnew
  <2>3. /\ caller' \in [Caller -> Waiter] /\ NobodyNew
        /\ \A d \in Caller : caller'[d].phase \in {"asked", "waiting"} => caller'[d].server \in Name
    BY <2>1, Answered, AskedAnswer
  <2>4. /\ refresh' \in [Asker -> Refreshing]
        /\ \A v \in Asker : refresh'[v] # NoRefresh => refresh'[v].server \in Name
    BY <2>1, RefreshTypes
  <2> QED BY <2>1, <2>2, <2>3, <2>4, RedirectKeeps
<1>4. ASSUME NEW w \in Asker, Refreshed(w) \/ RefreshFails(w) \/ RefreshOrphaned(w) PROVE SignInInv'
  <2> DEFINE n == refresh[w].server
  <2>1. /\ Ends(w) /\ (Answer(w, Idle) \/ Answer(w, Failed)) /\ n \in Name
        /\ UNCHANGED <<server, verifier, tokens, states, pending, exchange, settled, begun, installs>>
    BY <1>4 DEF Refreshed, RefreshFails, RefreshOrphaned, secrets, Own, Types
  <2>2. /\ life' \in [Name -> {"fresh", "expired"}] /\ rows' \in [Name -> SUBSET {"verifier", "tokens"}]
        /\ \A m \in Name : "verifier" \in rows'[m] => "verifier" \in rows[m]
    <3>1. CASE Refreshed(w)
      BY <2>1, <3>1 DEF Refreshed, Types
    <3>2. CASE RefreshFails(w)
      <4>1. PICK dropped \in {{}, {"tokens"}, Everything} : rows' = [rows EXCEPT ![n] = @ \ dropped]
        BY <3>2 DEF RefreshFails
      <4> QED BY <2>1, <3>2, <4>1 DEF RefreshFails, Types
    <3>3. CASE RefreshOrphaned(w)
      BY <3>3 DEF RefreshOrphaned, secrets, Types
    <3> QED BY <1>4, <3>1, <3>2, <3>3
  <2>3. Idle.phase = "idle" /\ Failed.phase = "failed"
    BY DEF Idle, Failed
  <2>4. /\ caller' \in [Caller -> Waiter] /\ NobodyNew
        /\ \A d \in Caller : caller'[d].phase \in {"asked", "waiting"} => caller'[d].server \in Name
    BY <2>1, <2>3, Answered, NothingYet
  <2>5. /\ refresh' \in [Asker -> Refreshing]
        /\ \A v \in Asker : refresh'[v] # NoRefresh => refresh'[v].server \in Name
    BY <2>1, RefreshTypes
  <2> QED BY <2>1, <2>2, <2>4, <2>5, RestKeeps
<1>5. ASSUME NEW n \in Name, TokensExpire(n) PROVE SignInInv'
  <2>1. NobodyNew
    BY <1>5 DEF TokensExpire, NobodyNew, Waits
  <2> QED BY <1>5, <2>1, RestKeeps DEF TokensExpire, Types
<1>6. ASSUME NEW n \in Name, Install(n) \/ Uninstall(n) PROVE SignInInv'
  <2>1. NobodyNew
    BY <1>6 DEF Install, Uninstall, NobodyNew, Waits
  <2>2. /\ UNCHANGED <<settled, pending, exchange, caller>> /\ (rows' = rows \/ rows' = [rows EXCEPT ![n] = {}])
    BY <1>6 DEF Install, Uninstall, secrets
  <2>3. Types'
    BY <1>6 DEF Install, Uninstall, Types, secrets
  <2>4. \A m \in Name : Settled(m)'
    BY <2>1, <2>2, SettledElsewhere DEF Types
  <2> QED BY <2>2, <2>3, <2>4
<1>7. ASSUME NEW c \in Caller, Retry(c) PROVE SignInInv'
  <2> DEFINE n == caller[c].server
             e == [phase |-> "waiting", server |-> n, url |-> caller[c].url]
  <2>1. n \in Name /\ e \in Waiter /\ e.server = n
    BY <1>7 DEF Retry, Types, Waiter
  <2>2. caller' = [caller EXCEPT ![c] = IF pending[n] = None THEN Idle ELSE e]
        /\ UNCHANGED <<server, secrets, states, pending, tab, refresh, exchange, settled, begun,
                       installs, faults>>
    <3>1. [caller[c] EXCEPT !.phase = "waiting"] = e
      BY DEF Types, Waiter
    <3> QED BY <1>7, <3>1 DEF Retry
  <2> HIDE DEF e
  <2>3. Types'
    BY <2>1, <2>2, NothingYet DEF Types, secrets, Idle
  <2>4. ASSUME NEW m \in Name PROVE Settled(m)'
    <3>1. settled[m] => \A d \in Caller : Waits(d, m)' => Waits(d, m)
      BY <2>1, <2>2 DEF secrets, Settled, Idle, Types, Waits
    <3> QED BY <2>2, <3>1 DEF Settled, secrets
  <2> QED BY <2>2, <2>3, <2>4
<1>8. ASSUME NEW c \in Caller, Declines(c) \/ WaitTimesOut(c) PROVE SignInInv'
  <2>1. PICK a \in {Idle, Failed} : caller' = [caller EXCEPT ![c] = a]
    BY <1>8 DEF Declines, WaitTimesOut
  <2>2. UNCHANGED <<server, secrets, states, pending, tab, refresh, exchange, settled, begun,
                    installs, faults>>
    BY <1>8 DEF Declines, WaitTimesOut
  <2>3. a \in Waiter /\ a.phase \notin {"asked", "waiting"}
    BY <2>1, NothingYet DEF Idle, Failed
  <2>4. /\ caller' \in [Caller -> Waiter] /\ NobodyNew
        /\ \A d \in Caller : caller'[d].phase \in {"asked", "waiting"} => caller'[d].server \in Name
    BY <2>1, <2>3 DEF Types, NobodyNew, Waits
  <2> QED BY <2>2, <2>4, RestKeeps DEF Types, secrets
<1>9. ASSUME NEW k \in SignIn, Decides(k) \/ StateExpires(k) \/ Denied(k) PROVE SignInInv'
  <2>1. UNCHANGED <<server, secrets, refresh, exchange, caller, settled, begun, installs>>
        /\ states' \in [SignIn -> Maybe(Name)] /\ pending' \in [Name -> Maybe(SignIn)]
        /\ \A n \in Name : pending'[n] = pending[n] \/ pending'[n] = None
    BY <1>9 DEF Decides, StateExpires, Denied, Types, Maybe
  <2>2. Types' /\ NobodyNew
    BY <2>1 DEF Types, secrets, NobodyNew, Waits
  <2> QED BY <2>1, <2>2, SettledElsewhere DEF secrets
<1>10. ASSUME NEW k \in SignIn, Callback(k) PROVE SignInInv'
  <2>1. UNCHANGED <<server, secrets, pending, refresh, caller, settled, begun, installs, faults>>
        /\ states' \in [SignIn -> Maybe(Name)]
    BY <1>10 DEF Callback, Types, Maybe
  <2>2. Types' /\ NobodyNew
    BY <1>10, <2>1, CallbackTypes DEF Types, secrets, NobodyNew, Waits
  <2> QED BY <1>10, <2>1, <2>2, CallbackTypes, SettledElsewhere DEF secrets
<1>11. ASSUME NEW k \in SignIn, ReadVerifier(k) PROVE SignInInv'
  <2>1. UNCHANGED <<server, secrets, states, tab, pending, refresh, caller, settled, begun, installs,
                    faults>>
    BY <1>11 DEF ReadVerifier
  <2>2. Types' /\ NobodyNew
    BY <1>11, <2>1, ReadTypes DEF Types, secrets, NobodyNew, Waits
  <2> QED BY <1>11, <2>1, <2>2, ReadTypes, SettledElsewhere DEF secrets
<1>12. ASSUME NEW k \in SignIn, Invalid(k) \/ InvalidClient(k) \/ ExchangeFails(k) PROVE SignInInv'
  <2> DEFINE n == exchange[k].server
  <2>1. /\ Finish(k)
        /\ UNCHANGED <<server, verifier, tokens, life, states, tab, pending, refresh, caller, settled,
                        begun, installs>>
        /\ \/ n \in Name /\ rows' \in {[rows EXCEPT ![n] = @ \ {"tokens"}], [rows EXCEPT ![n] = {}]}
           \/ rows' = rows
    BY <1>12 DEF Invalid, InvalidClient, ExchangeFails, secrets, Types
  <2>2. rows' \in [Name -> SUBSET {"verifier", "tokens"}] /\ NobodyNew
        /\ \A m \in Name : "verifier" \in rows'[m] => "verifier" \in rows[m]
    BY <2>1 DEF Types, NobodyNew, Waits
  <2>3. Types'
    BY <2>1, <2>2, FinishTypes DEF Types
  <2> QED BY <2>1, <2>2, <2>3, FinishTypes, SettledElsewhere
<1>13. CASE UNCHANGED vars
  BY <1>13 DEF vars, secrets, Types, Settled, Waits
<1> QED
  BY <1>1, <1>2, <1>3, <1>4, <1>5, <1>6, <1>7, <1>8, <1>9, <1>10, <1>11, <1>12, <1>13, GrantedKeeps
  DEF Next

LEMMA SignInInvCorrect == Spec => []SignInInv
BY SignInInvInit, SignInInvStep, PTL DEF Spec

-----------------------------------------------------------------------------
\* Who refreshes for its call does nothing else meanwhile.
Refreshers == \A c \in Caller : refresh[c] # NoRefresh => caller[c].phase = "calling"

LEMMA RefreshersStep == SignInInv /\ Refreshers /\ [Next]_vars => Refreshers'
<1> SUFFICES ASSUME SignInInv, Refreshers, [Next]_vars PROVE Refreshers'
  OBVIOUS
<1> USE DEF SignInInv
<1>0. Caller \subseteq Asker
  BY DEF Asker
<1>1. ASSUME NEW n \in Name, PaneBegins(n) PROVE Refreshers'
  BY <1>0, <1>1, PaneAssumption DEF PaneBegins, Refreshes, Refreshers, Types
<1>2. ASSUME NEW c \in Caller, NEW n \in Name, Call(c, n) PROVE Refreshers'
  <2>1. \A d \in Caller : d # c => refresh'[d] = refresh[d] /\ caller'[d] = caller[d]
    BY <1>0, <1>2, PaneAssumption DEF Call, Refreshes, Answer, Types
  <2>2. CASE UNCHANGED refresh
    BY <1>2, <2>1, <2>2 DEF Call, Refreshers
  <2>3. CASE Refreshes(c, n) /\ Answer(c, [phase |-> "calling", server |-> n, url |-> None])
    BY <2>1, <2>3, PaneAssumption DEF Refreshers, Answer, Types
  <2> QED BY <1>2, <2>2, <2>3 DEF Call
<1>3. ASSUME NEW w \in Asker, Refreshed(w) \/ SignsInAnew(w) \/ RefreshFails(w) \/ RefreshOrphaned(w)
      PROVE Refreshers'
  <2>1. Ends(w) /\ \A d \in Caller : d # w => caller'[d] = caller[d]
    BY <1>3 DEF Refreshed, SignsInAnew, RefreshFails, RefreshOrphaned, Answer, Types
  <2>2. refresh'[w] = NoRefresh /\ \A d \in Caller : d # w => refresh'[d] = refresh[d]
    BY <1>0, <2>1 DEF Ends, Types
  <2> QED BY <2>1, <2>2 DEF Refreshers
<1>4. ASSUME NEW c \in Caller, Retry(c) \/ Declines(c) \/ WaitTimesOut(c) PROVE Refreshers'
  BY <1>4 DEF Retry, Declines, WaitTimesOut, Refreshers, Types
<1>5. ASSUME NEW k \in SignIn, Granted(k) PROVE Refreshers'
  <2>1. refresh' = refresh
    BY <1>5 DEF Granted
  <2>2. ASSUME NEW c \in Caller, caller[c].phase = "calling" PROVE caller'[c] = caller[c]
    BY <1>5, <2>2 DEF Granted, Complete, Wake, WokenBy, Waits
  <2> QED BY <2>1, <2>2 DEF Refreshers
<1>6. CASE UNCHANGED <<refresh, caller>>
  BY <1>6 DEF Refreshers
<1> QED
  BY <1>1, <1>2, <1>3, <1>4, <1>5, <1>6 DEF Next, vars, TokensExpire, Install, Uninstall, Decides,
    StateExpires, Denied, Callback, ReadVerifier, Invalid, InvalidClient, ExchangeFails

LEMMA RefreshersCorrect == Spec => []Refreshers
<1>1. Init => Refreshers
  BY DEF Init, Refreshers, Asker
<1> QED BY <1>1, RefreshersStep, SignInInvCorrect, PTL DEF Spec

-----------------------------------------------------------------------------
\* From the callback that completes a sign-in until another URL of the server is handed
\* out, no call waits for it, whatever becomes of its tokens and however many tabs,
\* callers and servers there are (oauth.ts:193-196, server.ts:259-261).
THEOREM NobodyWaits == Spec => []NobodyWaitsSettled
<1>1. SignInInv => NobodyWaitsSettled
  <2> SUFFICES ASSUME SignInInv, NEW c \in Caller, caller[c].phase = "waiting",
                      settled[caller[c].server]
               PROVE FALSE
    BY DEF NobodyWaitsSettled
  <2>1. caller[c].server \in Name /\ Waits(c, caller[c].server)
    BY DEF SignInInv, Types, Waits
  <2> QED BY <2>1 DEF SignInInv, Settled
<1> QED BY <1>1, SignInInvCorrect, PTL

\* A caller that waits is woken by nothing but tokens of the server it waits for: no
\* refusal, failed exchange, refresh or uninstall resolves its wait (oauth.ts:200).
THEOREM WokenAuthorized == Spec => WokenIsAuthorized
<1> DEFINE Step == \A n \in Name : (\E c \in WokenBy(n) : caller'[c] = Idle) => Fresh(n)'
<1>1. ASSUME SignInInv, Refreshers, [Next]_vars PROVE Step
  <2> SUFFICES ASSUME NEW n \in Name, NEW c \in Caller, Waits(c, n), caller'[c] = Idle
               PROVE  Fresh(n)'
    BY DEF WokenBy
  <2> USE <1>1 DEF SignInInv
  <2>1. caller'[c] # caller[c] /\ caller[c].phase = "waiting" /\ caller[c].server = n
    BY DEF Idle, Waits
  <2>2. CASE \E k \in SignIn : Granted(k)
    <3>1. PICK k \in SignIn : Granted(k)
      BY <2>2
    <3> DEFINE m == exchange[k].server
    <3>2. m \in Name
      BY <3>1 DEF Granted, Types
    <3>3. server[m] = exchange[k].owner /\ Wake(WokenBy(m))
      BY <2>1, <3>1 DEF Granted, Complete
    <3>4. m = n
      <4>1. \A d \in Caller : caller[d] # caller'[d] => caller[d].server = m
        BY <3>2, <3>3, WakeWakes
      <4> QED BY <2>1, <4>1
    <3>5. server' = server /\ rows' = [rows EXCEPT ![m] = (@ \cup {"tokens"}) \ {"verifier"}]
          /\ life' = [life EXCEPT ![m] = "fresh"]
      BY <3>1, <3>3 DEF Granted, Complete
    <3> QED BY <3>2, <3>4, <3>5 DEF Types, Fresh, Authorized, Known
  <2>3. CASE ~\E k \in SignIn : Granted(k)
    <3>1. caller' # caller
      BY <2>1
    <3>2. CASE \E w \in Asker : Refreshed(w) \/ SignsInAnew(w) \/ RefreshFails(w) \/ RefreshOrphaned(w)
      <4>1. PICK w \in Asker : Refreshed(w) \/ SignsInAnew(w) \/ RefreshFails(w) \/ RefreshOrphaned(w)
        BY <3>2
      <4>2. refresh[w] # NoRefresh
        BY <4>1 DEF Refreshed, SignsInAnew, RefreshFails, RefreshOrphaned, Own
      <4>3. \A d \in Caller : d # w => caller'[d] = caller[d]
        BY <4>1 DEF Refreshed, SignsInAnew, RefreshFails, RefreshOrphaned, Answer, Types
      <4> QED BY <1>1, <2>1, <4>2, <4>3 DEF Refreshers
    <3>3. CASE ~\E w \in Asker : Refreshed(w) \/ SignsInAnew(w) \/ RefreshFails(w) \/ RefreshOrphaned(w)
      <4>1. PICK d \in Caller : (\E m \in Name : Call(d, m)) \/ Retry(d) \/ Declines(d) \/ WaitTimesOut(d)
        BY <2>3, <3>1, <3>3 DEF Next, vars, PaneBegins, TokensExpire, Install, Uninstall,
          Decides, StateExpires, Denied, Callback, ReadVerifier, Invalid, InvalidClient, ExchangeFails
      <4>2. d = c
        BY <2>1, <4>1 DEF Types, Call, Answer, Retry, Declines, WaitTimesOut
      <4>3. caller[c].phase # "waiting" \/ caller' = [caller EXCEPT ![c] = Failed]
        BY <4>1, <4>2 DEF Call, Retry, Declines, WaitTimesOut
      <4> QED BY <2>1, <4>3 DEF Types, Failed, Idle
    <3> QED BY <3>2, <3>3
  <2> QED BY <2>2, <2>3
<1>2. ASSUME SignInInv, Refreshers, [Next]_vars PROVE [Step]_vars
  BY <1>1, <1>2
<1> QED BY <1>2, SignInInvCorrect, RefreshersCorrect, PTL DEF Spec, WokenIsAuthorized

\* The tab that comes back late does not undo a sign-in: a callback that drops the tokens
\* has not read its verifier while the sign-in of another tab was the latest (oauth.ts:193).
THEOREM LateTabsHarmless == Spec => LateTabsDoNoHarm
<1> DEFINE Step == \A n \in Name, k \in SignIn :
             exchange[k].server = n /\ exchange'[k] = NoExchange /\ Authorized(n) /\ ~Authorized(n)'
               => ~exchange[k].late
<1>1. SignInInv => Step
  BY DEF SignInInv
<1> QED BY <1>1, SignInInvCorrect, PTL DEF LateTabsDoNoHarm
=============================================================================
