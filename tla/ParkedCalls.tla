---------------------------- MODULE ParkedCalls ----------------------------
(***************************************************************************)
(* Calls of upstream tools that stop to ask the user (mcp/server.ts): one  *)
(* upstream call lives through several downstream requests, rounds.  A     *)
(* round relays the call until it ends or asks; a question is returned to  *)
(* the client and the call parked under its id; the round that carries the *)
(* answer takes it from there.                                             *)
(*                                                                         *)
(* ConnectionPool says which call a question of the upstream is routed to; *)
(* here it arrives at its call.  Calls of clients that cannot be asked are *)
(* left out: the pane answers for them.                                    *)
(***************************************************************************)
EXTENDS Naturals, Sequences, FiniteSets

CONSTANTS Round,        \* downstream tools/call requests that can run at once
          Call,         \* upstream calls (RunningCall)
          Question,     \* ids of parked calls; bounds the questions asked
          None,         \* no call
          CallTimeout,  \* CALL_TIMEOUT_MS, in ticks
          ParkTTL       \* PARK_TTL_MS, in ticks

ASSUME NoneAssumption == None \notin Call
ASSUME TimesAssumption == CallTimeout \in Nat \ {0} /\ ParkTTL \in Nat \ {0}

VARIABLES call,      \* each upstream call, with its queue of questions
          round,     \* the call each round relays and waits for, or None
          question   \* what became of each question

vars == <<call, round, question>>

-----------------------------------------------------------------------------
\* age: since the request was sent or the last progress; items: the queue.
CallState == [pc : {"over", "flight", "timedout"}, aborted : BOOLEAN, age : 0..CallTimeout,
              items : Seq(Question)]
NewCall == [pc |-> "flight", aborted |-> FALSE, age |-> 0, items |-> <<>>]
InFlight(c) == call[c].pc = "flight"

\* "given" is what the user answered; no usable answer is a cancel.
Answer == {"given", "cancel"}
Asked == [pc : {"free", "queued", "parked", "dropped"}, of : Call \cup {None},
          answer : {"none"}, age : 0..ParkTTL]
Settled == [pc : {"answered"}, of : Call, answer : Answer, age : 0..ParkTTL]
Unasked == [pc |-> "free", of |-> None, answer |-> "none", age |-> 0]

TypeOK == /\ call \in [Call -> CallState]
          /\ round \in [Round -> Call \cup {None}]
          /\ question \in [Question -> Asked \cup Settled]

Init == /\ call = [c \in Call |-> [NewCall EXCEPT !.pc = "over"]]
        /\ round = [d \in Round |-> None]
        /\ question = [q \in Question |-> Unasked]

Relaying(c) == {d \in Round : round[d] = c}
Parked(c) == {q \in Question : question[q].pc = "parked" /\ question[q].of = c}
Queued(c) == {q \in Question : question[q].pc = "queued" /\ question[q].of = c}

-----------------------------------------------------------------------------
\* startCall() and relay(): a new upstream call and the round that waits for it.
StartCall(d) ==
  /\ round[d] = None
  /\ \E c \in Call : /\ ~InFlight(c) /\ Parked(c) = {}
                     /\ call' = [call EXCEPT ![c] = NewCall]
                     /\ round' = [round EXCEPT ![d] = c]
  /\ UNCHANGED question

\* parked.set, with its timer; the client gets the question and its id.
Park(q, c, asked) == [asked EXCEPT ![q] = [pc |-> "parked", of |-> c, answer |-> "none", age |-> 0]]

\* onElicit: handed to the round that waits, or queued until one does.
Ask(c, q) ==
  /\ InFlight(c) /\ ~call[c].aborted
  /\ question[q].pc = "free"
  /\ IF Relaying(c) # {}
       THEN /\ question' = Park(q, c, question)
            /\ round' = [d \in Round |-> IF round[d] = c THEN None ELSE round[d]]
            /\ UNCHANGED call
       ELSE /\ question' = [question EXCEPT ![q].pc = "queued", ![q].of = c]
            /\ call' = [call EXCEPT ![c].items = Append(@, q)]
            /\ UNCHANGED round

\* Slips no action makes, here and below: each breaks a property (see PROJECT.json).
RelayUnread(d, c, asked) ==
  /\ question' = asked
  /\ round' = IF InFlight(c) THEN [round EXCEPT ![d] = c] ELSE round
  /\ UNCHANGED call

\* relay() of a parked call: its result if it is over, else the first question
\* queued, else the round waits.
Relay(d, c, asked) ==
  \/ /\ ~InFlight(c)
     /\ question' = asked
     /\ UNCHANGED <<call, round>>
  \/ /\ InFlight(c) /\ call[c].items # <<>>
     /\ question' = Park(Head(call[c].items), c, asked)
     /\ call' = [call EXCEPT ![c].items = Tail(@)]
     /\ UNCHANGED round
  \/ /\ InFlight(c) /\ call[c].items = <<>>
     /\ question' = asked
     /\ round' = [round EXCEPT ![d] = c]
     /\ UNCHANGED call

AnsweredKept(q, answer) == [question EXCEPT ![q].answer = answer]

\* parked.delete and question.answer: in one run, so that an id is used once.
Answered(q, answer) == [question EXCEPT ![q].pc = "answered", ![q].answer = answer]

\* forward() with the id of a parked call.  (With an id that is not parked, or for
\* another tool, the client is told that the question expired; nothing changes.)
Retry(d) ==
  /\ round[d] = None
  /\ \E q \in Question, answer \in Answer :
        /\ question[q].pc = "parked"
        /\ Relay(d, question[q].of, Answered(q, answer))

ExpireUnguarded(q) ==
  /\ question[q].pc \in {"parked", "answered"}
  /\ question' = Answered(q, "cancel")
  /\ UNCHANGED <<call, round>>

ExpireSilently(q) ==
  /\ question[q].pc = "parked"
  /\ question[q].age = ParkTTL
  /\ question' = [question EXCEPT ![q].pc = "answered"]
  /\ UNCHANGED <<call, round>>

\* The parked question's timer: the upstream gets a cancel, and the call goes on
\* without a round.
Expire(q) ==
  /\ question[q].pc = "parked"
  /\ question[q].age = ParkTTL
  /\ question' = Answered(q, "cancel")
  /\ UNCHANGED <<call, round>>

\* The client gives the round up: the request to the upstream is aborted, and
\* its rejection ends the round.  Nobody listens for that while a call is parked.
AbortRound(d) ==
  /\ round[d] # None
  /\ call' = [call EXCEPT ![round[d]].aborted = TRUE]
  /\ UNCHANGED <<round, question>>

EndedUnheard(c, pc) ==
  /\ call' = [call EXCEPT ![c].pc = pc, ![c].items = <<>>]
  /\ round' = [d \in Round |-> IF round[d] = c /\ ~call[c].aborted THEN None ELSE round[d]]
  /\ question' = [q \in Question |-> IF q \in Queued(c) THEN [question[q] EXCEPT !.pc = "dropped"]
                                                        ELSE question[q]]

\* The call's result: it goes to the round that waits, or to one that comes for
\* it; it goes before questions nobody has seen.
Ended(c, pc) ==
  /\ call' = [call EXCEPT ![c].pc = pc, ![c].items = <<>>]
  /\ round' = [d \in Round |-> IF round[d] = c THEN None ELSE round[d]]
  /\ question' = [q \in Question |-> IF q \in Queued(c) THEN [question[q] EXCEPT !.pc = "dropped"]
                                                        ELSE question[q]]

\* An answer, an error, a needed sign-in, or the rejection of an aborted request.
CallEnds(c) == InFlight(c) /\ Ended(c, "over")

CallTimesOut(c) == InFlight(c) /\ call[c].age = CallTimeout /\ Ended(c, "timedout")

\* resetTimeoutOnProgress.
Progress(c) ==
  /\ InFlight(c) /\ ~call[c].aborted
  /\ call' = [call EXCEPT ![c].age = 0]
  /\ UNCHANGED <<round, question>>

\* Time passes, but no timer that is due is passed over.
Tick ==
  /\ \A c \in Call : InFlight(c) => call[c].age < CallTimeout
  /\ \A q \in Question : question[q].pc = "parked" => question[q].age < ParkTTL
  /\ call' = [c \in Call |-> IF InFlight(c) THEN [call[c] EXCEPT !.age = @ + 1] ELSE call[c]]
  /\ question' = [q \in Question |-> IF question[q].pc = "parked"
                                       THEN [question[q] EXCEPT !.age = @ + 1] ELSE question[q]]
  /\ UNCHANGED round

-----------------------------------------------------------------------------
Next == \/ Tick
        \/ \E d \in Round : StartCall(d) \/ Retry(d) \/ AbortRound(d)
        \/ \E c \in Call : CallEnds(c) \/ CallTimesOut(c) \/ Progress(c)
        \/ \E c \in Call, q \in Question : Ask(c, q)
        \/ \E q \in Question : Expire(q)

Spec == Init /\ [][Next]_vars

\* Timers fire and time passes; nothing is assumed of clients and upstreams.
Fairness == /\ WF_vars(Tick)
            /\ \A q \in Question : WF_vars(Expire(q))
            /\ \A c \in Call : WF_vars(CallTimesOut(c))
FairSpec == Spec /\ Fairness

-----------------------------------------------------------------------------
(* Properties *)

\* A call waits at one place at most: with one round, or parked on one question.
\* Two rounds would share the queue's only waiter, and one of them lose its turn.
CallInOnePlace ==
  \A c \in Call : /\ \A d, e \in Relaying(c) : d = e
                  /\ \A p, q \in Parked(c) : p = q
                  /\ Relaying(c) = {} \/ Parked(c) = {}

\* To clients and upstreams the queue, the timers and the rounds that come and go
\* make no difference: what is asked is shown at one place until it is settled, once,
\* whether the answer comes late, twice or not at all (relay, onElicit and the parked
\* calls of mcp/server.ts).
Conversation == INSTANCE Conversations WITH
  listening <- [c \in Call |-> Relaying(c)],
  shown <- [c \in Call |-> Parked(c)],
  answer <- [q \in Question |-> question[q].answer]
KeepsConversation == Conversation!Spec

\* A round never waits beside a question its call has asked, nor on a call that
\* is over; and the queue holds the call's unseen questions, each once.
NoMissedQuestion ==
  /\ \A d \in Round : round[d] # None => InFlight(round[d]) /\ Queued(round[d]) = {}
  /\ \A c \in Call : /\ Queued(c) = {call[c].items[i] : i \in DOMAIN call[c].items}
                     /\ Cardinality(Queued(c)) = Len(call[c].items)

\* Every round is answered, also one that joined an aborted or abandoned call,
\* unless the upstream reports progress forever.
RoundsAnswered ==
  (\A c \in Call : <>[][~Progress(c)]_vars) => \A d \in Round : round[d] # None ~> round[d] = None

=============================================================================
