--------------------------- MODULE Conversations ---------------------------
(***************************************************************************)
(* What clients and upstreams are promised of calls that stop to ask: the  *)
(* next word of a call goes to one round, which gets a result or brings a  *)
(* question to the user, or it waits for the answer of the one question    *)
(* that was brought; and a question is brought once and settled once, by   *)
(* whoever goes on with the call or by nobody in time.  ParkedCalls is     *)
(* shown to implement this.                                                *)
(***************************************************************************)
CONSTANTS Round, Call, Question

VARIABLES listening,   \* listening[c]: the round the next word of c goes to, if there is one
          shown,       \* shown[c]: the question the user has of c, if there is one
          answer       \* answer[q]: what the upstream was told, or "none"

vars == <<listening, shown, answer>>

Answer == {"given", "cancel"}

Init == /\ listening = [c \in Call |-> {}]
        /\ shown = [c \in Call |-> {}]
        /\ answer = [q \in Question |-> "none"]

Free(d) == \A c \in Call : d \notin listening[c]
Unseen(q) == answer[q] = "none" /\ \A c \in Call : q \notin shown[c]

Place(c, rounds, questions) ==
  /\ listening' = [listening EXCEPT ![c] = rounds]
  /\ shown' = [shown EXCEPT ![c] = questions]

Start(c, d) == /\ listening[c] = {} /\ shown[c] = {} /\ Free(d)
               /\ Place(c, {d}, {})
               /\ UNCHANGED answer

\* The round that listens brings a question, or a result.
Ask(c, q) == /\ listening[c] # {} /\ Unseen(q)
             /\ Place(c, {}, {q})
             /\ UNCHANGED answer

End(c) == /\ listening[c] # {}
          /\ Place(c, {}, {})
          /\ UNCHANGED answer

\* The round that brings the answer listens, or gets a result or another question;
\* nobody listens when the time for an answer is over.
Settle(c, q) ==
  /\ q \in shown[c]
  /\ \E given \in Answer : answer' = [answer EXCEPT ![q] = given]
  /\ \/ \E d \in Round : Free(d) /\ Place(c, {d}, {})
     \/ \E p \in Question : Unseen(p) /\ Place(c, {}, {p})
     \/ Place(c, {}, {})

Next == \E c \in Call : \/ \E d \in Round : Start(c, d)
                        \/ \E q \in Question : Ask(c, q) \/ Settle(c, q)
                        \/ End(c)

Spec == Init /\ [][Next]_vars
=============================================================================
