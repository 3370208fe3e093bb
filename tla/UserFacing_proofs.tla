-------------------------- MODULE UserFacing_proofs --------------------------
(***************************************************************************)
(* What holds of the two places where the program meets its user, for all  *)
(* values of the constants: the calls that are parked while their user is  *)
(* asked (ParkedCalls), then the pane (DiscoverPane).  The two share no    *)
(* state; neither's facts are used for the other.                          *)
(***************************************************************************)
EXTENDS ParkedCalls, DiscoverPane, FiniteSetTheorems, SequenceTheorems, TLAPS

-----------------------------------------------------------------------------
(* Typing *)

LEMMA ParkType ==
  ASSUME NEW asked \in [Question -> Asked \cup Settled], NEW q \in Question, NEW c \in Call
  PROVE  Park(q, c, asked) \in [Question -> Asked \cup Settled]
<1>1. [pc |-> "parked", of |-> c, answer |-> "none", age |-> 0] \in Asked
  BY TimesAssumption DEF Asked
<1> QED BY <1>1 DEF Park

LEMMA AnsweredType ==
  ASSUME TypeOK, NEW q \in Question, question[q].pc = "parked", question[q].of \in Call,
         NEW answer \in Answer
  PROVE  Answered(q, answer) \in [Question -> Asked \cup Settled]
<1>1. question[q] \in Asked
  BY DEF TypeOK, Settled
<1>2. [question[q] EXCEPT !.pc = "answered", !.answer = answer] \in Settled
  BY <1>1 DEF Asked, Settled
<1> QED BY <1>2 DEF Answered, TypeOK

\* A question that waits is of some call: queued or parked.
OfInv == \A q \in Question : question[q].pc \in {"queued", "parked"} => question[q].of \in Call

LEMMA NewCallType == NewCall \in CallState
BY TimesAssumption, EmptySeq DEF NewCall, CallState

LEMMA CallType == ASSUME TypeOK, NEW c \in Call PROVE call[c] \in CallState
BY DEF TypeOK

LEMMA PopType ==
  ASSUME TypeOK, NEW c \in Call, call[c].items # <<>>
  PROVE  /\ Head(call[c].items) \in Question
         /\ [call[c] EXCEPT !.items = Tail(@)] \in CallState
<1>1. call[c] \in CallState /\ call[c].items \in Seq(Question)
  BY DEF TypeOK, CallState
<1>2. Head(call[c].items) \in Question /\ Tail(call[c].items) \in Seq(Question)
  BY <1>1, HeadTailProperties
<1> QED BY <1>1, <1>2 DEF CallState

LEMMA RelayType ==
  ASSUME TypeOK, NEW d \in Round, NEW c \in Call, NEW asked \in [Question -> Asked \cup Settled],
         Relay(d, c, asked)
  PROVE  TypeOK'
<1>1. CASE ~InFlight(c) /\ question' = asked /\ UNCHANGED <<call, round>>
  BY <1>1 DEF TypeOK
<1>2. CASE /\ InFlight(c) /\ call[c].items # <<>>
           /\ question' = Park(Head(call[c].items), c, asked)
           /\ call' = [call EXCEPT ![c].items = Tail(@)]
           /\ UNCHANGED round
  BY <1>2, PopType, ParkType DEF TypeOK
<1>3. CASE question' = asked /\ round' = [round EXCEPT ![d] = c] /\ UNCHANGED call
  BY <1>3 DEF TypeOK
<1> QED BY <1>1, <1>2, <1>3 DEF Relay

LEMMA EndedType ==
  ASSUME TypeOK, NEW c \in Call, NEW pc \in {"over", "timedout"}, Ended(c, pc)
  PROVE  TypeOK'
<1>1. [call[c] EXCEPT !.pc = pc, !.items = <<>>] \in CallState
  BY EmptySeq DEF TypeOK, CallState
<1>2. ASSUME NEW q \in Queued(c) PROVE [question[q] EXCEPT !.pc = "dropped"] \in Asked
  BY <1>2 DEF TypeOK, Queued, Asked, Settled
<1> QED BY <1>1, <1>2 DEF Ended, TypeOK

LEMMA TypeStep == TypeOK /\ OfInv /\ [Next]_vars => TypeOK'
<1> SUFFICES ASSUME TypeOK, OfInv, [Next]_vars PROVE TypeOK'
  OBVIOUS
<1>1. CASE Tick
  <2>1. ASSUME NEW c \in Call, InFlight(c)
        PROVE  [call[c] EXCEPT !.age = @ + 1] \in CallState
    <3>1. call[c] \in CallState /\ call[c].age < CallTimeout
      BY <1>1, <2>1, CallType DEF Tick
    <3>2. call[c].age + 1 \in 0..CallTimeout
      BY <3>1, TimesAssumption DEF CallState
    <3> QED BY <3>1, <3>2 DEF CallState
  <2>2. ASSUME NEW q \in Question, question[q].pc = "parked"
        PROVE  [question[q] EXCEPT !.age = @ + 1] \in Asked
    BY <1>1, <2>2, TimesAssumption DEF Tick, TypeOK, Asked, Settled
  <2> QED BY <1>1, <2>1, <2>2 DEF Tick, TypeOK
<1>2. ASSUME NEW d \in Round, StartCall(d) PROVE TypeOK'
  BY <1>2, NewCallType DEF StartCall, TypeOK
<1>3. ASSUME NEW d \in Round, Retry(d) PROVE TypeOK'
  <2>1. PICK q \in Question, answer \in Answer :
          question[q].pc = "parked" /\ Relay(d, question[q].of, Answered(q, answer))
    BY <1>3 DEF Retry
  <2>2. question[q].of \in Call
    BY <2>1 DEF OfInv
  <2> QED BY <2>1, <2>2, AnsweredType, RelayType
<1>4. ASSUME NEW d \in Round, AbortRound(d) PROVE TypeOK'
  BY <1>4 DEF AbortRound, TypeOK, CallState
<1>5. ASSUME NEW c \in Call, CallEnds(c) \/ CallTimesOut(c) PROVE TypeOK'
  BY <1>5, EndedType DEF CallEnds, CallTimesOut
<1>6. ASSUME NEW c \in Call, Progress(c) PROVE TypeOK'
  <2>1. [call[c] EXCEPT !.age = 0] \in CallState
    <3>1. call[c] \in CallState /\ 0 \in 0..CallTimeout
      BY CallType, TimesAssumption
    <3> QED BY <3>1 DEF CallState
  <2> QED BY <1>6, <2>1 DEF Progress, TypeOK
<1>7. ASSUME NEW c \in Call, NEW q \in Question, Ask(c, q) PROVE TypeOK'
  <2>1. CASE Relaying(c) # {}
    BY <1>7, <2>1, ParkType DEF Ask, TypeOK
  <2>2. CASE Relaying(c) = {}
    <3>1. [question[q] EXCEPT !.pc = "queued", !.of = c] \in Asked
      BY <1>7 DEF Ask, TypeOK, Asked, Settled
    <3>2. [call[c] EXCEPT !.items = Append(@, q)] \in CallState
      <4>1. call[c] \in CallState /\ call[c].items \in Seq(Question)
        BY CallType DEF CallState
      <4>2. Append(call[c].items, q) \in Seq(Question)
        BY <4>1, AppendProperties
      <4> QED BY <4>1, <4>2 DEF CallState
    <3> QED BY <1>7, <2>2, <3>1, <3>2 DEF Ask, TypeOK
  <2> QED BY <2>1, <2>2
<1>8. ASSUME NEW q \in Question, Expire(q) PROVE TypeOK'
  BY <1>8, AnsweredType DEF Expire, OfInv, Answer, TypeOK
<1>9. CASE UNCHANGED vars
  BY <1>9 DEF vars, TypeOK
<1> QED BY <1>1, <1>2, <1>3, <1>4, <1>5, <1>6, <1>7, <1>8, <1>9 DEF Next

LEMMA OfInvStep == TypeOK /\ OfInv /\ [Next]_vars => OfInv'
<1> SUFFICES ASSUME TypeOK, OfInv, [Next]_vars PROVE OfInv'
  OBVIOUS
<1> USE DEF OfInv
<1>1. CASE Tick
  BY <1>1 DEF Tick, TypeOK, Asked, Settled
<1>2. ASSUME NEW d \in Round, StartCall(d) \/ AbortRound(d) PROVE OfInv'
  BY <1>2 DEF StartCall, AbortRound
<1>3. ASSUME NEW d \in Round, Retry(d) PROVE OfInv'
  <2>1. PICK q \in Question, answer \in Answer :
          question[q].pc = "parked" /\ Relay(d, question[q].of, Answered(q, answer))
    BY <1>3 DEF Retry
  <2>2. question[q].of \in Call
    BY <2>1
  <2>3. \A p \in Question : Answered(q, answer)[p].pc \in {"queued", "parked"} =>
                              Answered(q, answer)[p].of \in Call
    BY <2>2 DEF Answered, TypeOK, Asked, Settled
  <2>4. Answered(q, answer) \in [Question -> Asked \cup Settled]
    BY <2>1, <2>2, AnsweredType
  <2> QED BY <2>1, <2>2, <2>3, <2>4 DEF Relay, Park
<1>4. ASSUME NEW c \in Call, CallEnds(c) \/ CallTimesOut(c) PROVE OfInv'
  BY <1>4 DEF CallEnds, CallTimesOut, Ended, TypeOK, Asked, Settled
<1>5. ASSUME NEW c \in Call, Progress(c) PROVE OfInv'
  BY <1>5 DEF Progress
<1>6. ASSUME NEW c \in Call, NEW q \in Question, Ask(c, q) PROVE OfInv'
  BY <1>6 DEF Ask, Park, TypeOK, Asked, Settled
<1>7. ASSUME NEW q \in Question, Expire(q) PROVE OfInv'
  BY <1>7 DEF Expire, Answered, TypeOK, Asked, Settled
<1>8. CASE UNCHANGED vars
  BY <1>8 DEF vars
<1> QED BY <1>1, <1>2, <1>3, <1>4, <1>5, <1>6, <1>7, <1>8 DEF Next

\* Every call, round and question keeps its type; an answered question has its
\* answer and its call.
THEOREM ParkedTypeCorrect == Spec => []TypeOK
<1>1. Init => TypeOK /\ OfInv
  <2>1. Init => TypeOK
    <3>1. [NewCall EXCEPT !.pc = "over"] \in CallState
      BY NewCallType DEF CallState
    <3>2. Unasked \in Asked
      BY TimesAssumption DEF Unasked, Asked
    <3> QED BY <3>1, <3>2 DEF Init, TypeOK
  <2> QED BY <2>1 DEF Init, OfInv, Unasked
<1>2. TypeOK /\ OfInv /\ [Next]_vars => (TypeOK /\ OfInv)'
  BY TypeStep, OfInvStep
<1> QED BY <1>1, <1>2, PTL DEF Spec

LEMMA OfInvHolds == Spec => []OfInv
<1>1. Init => OfInv
  BY DEF Init, OfInv, Unasked
<1>2. TypeOK /\ OfInv /\ [Next]_vars => OfInv'
  BY OfInvStep
<1> QED BY <1>1, <1>2, ParkedTypeCorrect, PTL DEF Spec

-----------------------------------------------------------------------------
(* A queue that enumerates a set: every element once. *)

Enumerates(s, Q) == /\ s \in Seq(Question)
                    /\ \A i \in 1..Len(s) : s[i] \in Q
                    /\ \A i, j \in 1..Len(s) : s[i] = s[j] => i = j
                    /\ \A q \in Q : \E i \in 1..Len(s) : s[i] = q
                    /\ IsFiniteSet(Q) /\ Cardinality(Q) = Len(s)

LEMMA EnumeratesNothing == Enumerates(<<>>, {})
BY FS_EmptySet, EmptySeq DEF Enumerates

LEMMA EnumeratesAppend ==
  ASSUME NEW s, NEW Q, Enumerates(s, Q), NEW q \in Question, q \notin Q
  PROVE  Enumerates(Append(s, q), Q \cup {q})
<1> DEFINE t == Append(s, q)
           n == Len(s)
<1>0. n \in Nat /\ s \in Seq(Question)
  BY LenProperties DEF Enumerates
<1>1. /\ t \in Seq(Question) /\ Len(t) = n + 1
      /\ \A i \in 1..n : t[i] = s[i]
      /\ t[n + 1] = q
  BY <1>0, AppendProperties
<1>2. \A i \in 1..n : s[i] \in Q
  BY DEF Enumerates
<1>3. \A i, j \in 1..(n + 1) : t[i] = t[j] => i = j
  <2> SUFFICES ASSUME NEW i \in 1..(n + 1), NEW j \in 1..(n + 1), t[i] = t[j] PROVE i = j
    OBVIOUS
  <2>1. CASE i \in 1..n /\ j \in 1..n
    <3>1. s[i] = s[j]
      BY <1>1, <2>1
    <3> QED BY <2>1, <3>1 DEF Enumerates
  <2>2. CASE i \in 1..n /\ j = n + 1
    <3>1. s[i] = q
      BY <1>1, <2>2
    <3> QED BY <1>2, <2>2, <3>1
  <2>3. CASE i = n + 1 /\ j \in 1..n
    <3>1. s[j] = q
      BY <1>1, <2>3
    <3> QED BY <1>2, <2>3, <3>1
  <2>4. (i \in 1..n \/ i = n + 1) /\ (j \in 1..n \/ j = n + 1)
    BY <1>0
  <2> QED BY <2>1, <2>2, <2>3, <2>4
<1>4. \A p \in Q \cup {q} : \E i \in 1..(n + 1) : t[i] = p
  <2>1. ASSUME NEW p \in Q PROVE \E i \in 1..(n + 1) : t[i] = p
    <3>1. PICK i \in 1..n : s[i] = p
      BY DEF Enumerates
    <3>2. i \in 1..(n + 1) /\ t[i] = p
      BY <1>0, <1>1, <3>1
    <3> QED BY <3>2
  <2>2. n + 1 \in 1..(n + 1)
    BY <1>0
  <2> QED BY <1>1, <2>1, <2>2
<1>5. \A i \in 1..(n + 1) : t[i] \in Q \cup {q}
  <2> SUFFICES ASSUME NEW i \in 1..(n + 1) PROVE t[i] \in Q \cup {q}
    OBVIOUS
  <2>1. i \in 1..n \/ i = n + 1
    BY <1>0
  <2> QED BY <1>1, <1>2, <2>1
<1>6. IsFiniteSet(Q \cup {q}) /\ Cardinality(Q \cup {q}) = n + 1
  BY FS_AddElement DEF Enumerates
<1> QED BY <1>1, <1>3, <1>4, <1>5, <1>6 DEF Enumerates

LEMMA EnumeratesTail ==
  ASSUME NEW s, NEW Q, Enumerates(s, Q), s # <<>>
  PROVE  Head(s) \in Q /\ Enumerates(Tail(s), Q \ {Head(s)})
<1> DEFINE t == Tail(s)
           n == Len(s)
           h == Head(s)
<1>1. /\ n \in Nat /\ n # 0 /\ h = s[1] /\ h \in Q
      /\ t \in Seq(Question) /\ Len(t) = n - 1
      /\ \A i \in 1..(n - 1) : t[i] = s[i + 1]
  BY HeadTailProperties, LenProperties, EmptySeq DEF Enumerates
<1>2. \A i \in 1..(n - 1) : i + 1 \in 1..n /\ s[i + 1] # h
  BY <1>1 DEF Enumerates
<1>3. \A i \in 1..(n - 1) : t[i] \in Q \ {h}
  BY <1>1, <1>2 DEF Enumerates
<1>4. \A i, j \in 1..(n - 1) : t[i] = t[j] => i = j
  <2> SUFFICES ASSUME NEW i \in 1..(n - 1), NEW j \in 1..(n - 1), t[i] = t[j] PROVE i = j
    OBVIOUS
  <2>1. s[i + 1] = s[j + 1]
    BY <1>1
  <2>2. i + 1 = j + 1
    BY <1>2, <2>1 DEF Enumerates
  <2> QED BY <2>2
<1>5. ASSUME NEW q \in Q \ {h} PROVE \E i \in 1..(n - 1) : t[i] = q
  <2>1. PICK k \in 1..n : s[k] = q
    BY DEF Enumerates
  <2>2. k - 1 \in 1..(n - 1) /\ t[k - 1] = q
    BY <1>1, <2>1
  <2> QED BY <2>2
<1>6. IsFiniteSet(Q \ {h}) /\ Cardinality(Q \ {h}) = n - 1
  BY <1>1, FS_RemoveElement DEF Enumerates
<1> QED BY <1>1, <1>3, <1>4, <1>5, <1>6 DEF Enumerates

LEMMA EnumeratesOnlyNothing == ASSUME NEW Q, Enumerates(<<>>, Q) PROVE Q = {}
BY FS_EmptySet, EmptySeq DEF Enumerates

-----------------------------------------------------------------------------
(* The queue of a call is its unseen questions, and empty once it is over. *)

QueueInv == /\ \A c \in Call : Enumerates(call[c].items, Queued(c))
            /\ \A c \in Call : ~InFlight(c) => call[c].items = <<>>

\* Steps that queue nothing and take nothing from a queue.
LEMMA QueueFrame ==
  ASSUME QueueInv,
         \A c \in Call : call'[c].items = call[c].items /\ call'[c].pc = call[c].pc,
         \A q \in Question : (question'[q].pc = "queued") <=> (question[q].pc = "queued"),
         \A q \in Question : question[q].pc = "queued" => question'[q].of = question[q].of
  PROVE  QueueInv'
<1>1. ASSUME NEW c \in Call PROVE Queued(c)' = Queued(c)
  BY DEF Queued
<1> QED BY <1>1 DEF QueueInv, InFlight

LEMMA RelayQueue ==
  ASSUME TypeOK, QueueInv, NEW d \in Round, NEW q \in Question, question[q].pc = "parked",
         NEW answer \in Answer, NEW c \in Call, Relay(d, c, Answered(q, answer))
  PROVE  QueueInv'
<1>1. \A p \in Question : /\ (Answered(q, answer)[p].pc = "queued") <=> (question[p].pc = "queued")
                         /\ Answered(q, answer)[p].of = question[p].of
  BY DEF Answered, TypeOK, Asked, Settled
<1>2. CASE question' = Answered(q, answer) /\ UNCHANGED call
  BY <1>1, <1>2, QueueFrame
<1>3. CASE /\ InFlight(c) /\ call[c].items # <<>>
           /\ question' = Park(Head(call[c].items), c, Answered(q, answer))
           /\ call' = [call EXCEPT ![c].items = Tail(@)]
  <2> DEFINE h == Head(call[c].items)
  <2>1. h \in Queued(c) /\ Enumerates(Tail(call[c].items), Queued(c) \ {h})
    <3>1. Enumerates(call[c].items, Queued(c))
      BY DEF QueueInv
    <3> QED BY <1>3, <3>1, EnumeratesTail
  <2>2. /\ question'[h].pc = "parked"
        /\ \A p \in Question \ {h} : question'[p] = Answered(q, answer)[p]
    BY <1>3, <2>1 DEF Park, Answered, TypeOK, Queued
  <2>3. /\ call'[c].items = Tail(call[c].items) /\ call'[c].pc = "flight"
        /\ \A e \in Call \ {c} : call'[e] = call[e]
    BY <1>3, CallType DEF CallState, InFlight, TypeOK
  <2>4. Queued(c)' = Queued(c) \ {h}
    BY <1>1, <2>2 DEF Queued
  <2>5. \A e \in Call \ {c} : Queued(e)' = Queued(e)
    BY <1>1, <2>1, <2>2 DEF Queued
  <2> QED BY <2>1, <2>3, <2>4, <2>5 DEF QueueInv, InFlight
<1> QED BY <1>2, <1>3 DEF Relay

LEMMA EndedQueue ==
  ASSUME TypeOK, QueueInv, NEW c \in Call, NEW pc, Ended(c, pc)
  PROVE  QueueInv'
<1>1. /\ call'[c].items = <<>>
      /\ \A e \in Call \ {c} : call'[e] = call[e]
  BY CallType DEF Ended, CallState, TypeOK
<1>2. \A q \in Question : question'[q] = IF q \in Queued(c) THEN [question[q] EXCEPT !.pc = "dropped"]
                                                          ELSE question[q]
  BY DEF Ended
<1>3. ASSUME NEW q \in Queued(c) PROVE question'[q].pc = "dropped"
  <2>1. question[q] \in Asked \cup Settled
    BY <1>3 DEF TypeOK, Queued
  <2> QED BY <1>2, <1>3, <2>1 DEF Asked, Settled, Queued
<1>4. Queued(c)' = {}
  BY <1>2, <1>3 DEF Queued
<1>5. \A e \in Call \ {c} : Queued(e)' = Queued(e)
  BY <1>2, <1>3 DEF Queued
<1> QED BY <1>1, <1>4, <1>5, EnumeratesNothing DEF QueueInv, InFlight

LEMMA AskQueue ==
  ASSUME TypeOK, QueueInv, NEW c \in Call, NEW q \in Question, Ask(c, q)
  PROVE  QueueInv'
<1>1. CASE Relaying(c) # {}
  <2>1. /\ question'[q].pc = "parked" /\ question[q].pc = "free" /\ UNCHANGED call
        /\ \A p \in Question \ {q} : question'[p] = question[p]
    BY <1>1 DEF Ask, Park, TypeOK
  <2> QED BY <2>1, QueueFrame
<1>2. CASE Relaying(c) = {}
  <2>1. /\ question'[q].pc = "queued" /\ question'[q].of = c /\ question[q].pc = "free"
        /\ \A p \in Question \ {q} : question'[p] = question[p]
    BY <1>2 DEF Ask, TypeOK, Asked, Settled
  <2>2. /\ call'[c].items = Append(call[c].items, q) /\ call'[c].pc = "flight"
        /\ \A e \in Call \ {c} : call'[e] = call[e]
    BY <1>2, CallType DEF Ask, CallState, InFlight, TypeOK
  <2>3. q \notin Queued(c) /\ Queued(c)' = Queued(c) \cup {q}
    BY <2>1 DEF Queued
  <2>4. \A e \in Call \ {c} : Queued(e)' = Queued(e)
    BY <2>1 DEF Queued
  <2>5. Enumerates(Append(call[c].items, q), Queued(c) \cup {q})
    <3>1. Enumerates(call[c].items, Queued(c))
      BY DEF QueueInv
    <3> QED BY <2>3, <3>1, EnumeratesAppend
  <2> QED BY <2>2, <2>3, <2>4, <2>5 DEF QueueInv, InFlight
<1> QED BY <1>1, <1>2

LEMMA QueueInvStep == TypeOK /\ OfInv /\ QueueInv /\ [Next]_vars => QueueInv'
<1> SUFFICES ASSUME TypeOK, OfInv, QueueInv, [Next]_vars PROVE QueueInv'
  OBVIOUS
<1>1. CASE Tick
  <2>1. \A c \in Call : call'[c].items = call[c].items /\ call'[c].pc = call[c].pc
    BY <1>1, CallType DEF Tick, CallState
  <2>2. \A q \in Question : question'[q].pc = question[q].pc /\ question'[q].of = question[q].of
    BY <1>1 DEF Tick, TypeOK, Asked, Settled
  <2> QED BY <2>1, <2>2, QueueFrame
<1>2. ASSUME NEW d \in Round, StartCall(d) PROVE QueueInv'
  <2>1. PICK c \in Call : ~InFlight(c) /\ call' = [call EXCEPT ![c] = NewCall]
    BY <1>2 DEF StartCall
  <2>2. call[c].items = <<>> /\ call'[c].items = <<>> /\ call'[c].pc = "flight"
    <3>1. call[c].items = <<>>
      BY <2>1 DEF QueueInv
    <3> QED BY <2>1, <3>1 DEF NewCall, TypeOK
  <2>3. \A e \in Call : Queued(e)' = Queued(e)
    BY <1>2 DEF StartCall, Queued
  <2>4. \A e \in Call \ {c} : call'[e] = call[e]
    BY <2>1 DEF TypeOK
  <2> QED BY <2>2, <2>3, <2>4 DEF QueueInv, InFlight
<1>3. ASSUME NEW d \in Round, Retry(d) PROVE QueueInv'
  BY <1>3, RelayQueue DEF Retry, OfInv
<1>4. ASSUME NEW d \in Round, AbortRound(d) PROVE QueueInv'
  <2>1. \A c \in Call : call'[c].items = call[c].items /\ call'[c].pc = call[c].pc
    BY <1>4, CallType DEF AbortRound, CallState, TypeOK
  <2> QED BY <1>4, <2>1, QueueFrame DEF AbortRound
<1>5. ASSUME NEW c \in Call, CallEnds(c) \/ CallTimesOut(c) PROVE QueueInv'
  BY <1>5, EndedQueue DEF CallEnds, CallTimesOut
<1>6. ASSUME NEW c \in Call, Progress(c) PROVE QueueInv'
  <2>1. \A e \in Call : call'[e].items = call[e].items /\ call'[e].pc = call[e].pc
    BY <1>6, CallType DEF Progress, CallState, TypeOK
  <2> QED BY <1>6, <2>1, QueueFrame DEF Progress
<1>7. ASSUME NEW c \in Call, NEW q \in Question, Ask(c, q) PROVE QueueInv'
  BY <1>7, AskQueue
<1>8. ASSUME NEW q \in Question, Expire(q) PROVE QueueInv'
  <2>1. \A p \in Question : /\ (question'[p].pc = "queued") <=> (question[p].pc = "queued")
                           /\ question'[p].of = question[p].of
    BY <1>8 DEF Expire, Answered, TypeOK, Asked, Settled
  <2> QED BY <1>8, <2>1, QueueFrame DEF Expire
<1>9. CASE UNCHANGED vars
  BY <1>9, QueueFrame DEF vars
<1> QED BY <1>1, <1>2, <1>3, <1>4, <1>5, <1>6, <1>7, <1>8, <1>9 DEF Next

LEMMA QueueInvHolds == Spec => []QueueInv
<1>1. Init => QueueInv
  <2> SUFFICES ASSUME Init, NEW c \in Call PROVE call[c].items = <<>> /\ Queued(c) = {}
    BY EnumeratesNothing DEF QueueInv
  <2> QED BY DEF Init, NewCall, Queued, Unasked
<1>2. TypeOK /\ OfInv /\ QueueInv /\ [Next]_vars => QueueInv'
  BY QueueInvStep
<1> QED BY <1>1, <1>2, ParkedTypeCorrect, OfInvHolds, PTL DEF Spec

-----------------------------------------------------------------------------
(* Where a call waits. *)

\* Only a call in flight, whose queue is empty, is waited for.
WaitInv == \A d \in Round : round[d] # None => /\ InFlight(round[d])
                                              /\ call[round[d]].items = <<>>

LEMMA EmptyQueue ==
  ASSUME QueueInv, NEW c \in Call
  PROVE  call[c].items = <<>> => Queued(c) = {}
<1>1. Enumerates(call[c].items, Queued(c))
  BY DEF QueueInv
<1> QED BY <1>1, EnumeratesOnlyNothing

\* Steps that send no round waiting and park nothing.
LEMMA PlaceFrame ==
  ASSUME CallInOnePlace,
         \A d \in Round : round'[d] = round[d] \/ round'[d] = None,
         \A q \in Question : question'[q].pc = "parked" => /\ question[q].pc = "parked"
                                                          /\ question'[q].of = question[q].of
  PROVE  CallInOnePlace'
<1>1. ASSUME NEW c \in Call PROVE Relaying(c)' \subseteq Relaying(c)
  BY NoneAssumption DEF Relaying
<1>2. ASSUME NEW c \in Call PROVE Parked(c)' \subseteq Parked(c)
  BY DEF Parked
<1> QED BY <1>1, <1>2 DEF CallInOnePlace

LEMMA WaitFrame ==
  ASSUME TypeOK, WaitInv,
         \A d \in Round : round'[d] = round[d] \/ round'[d] = None,
         \A c \in Call : call'[c].items = call[c].items /\ call'[c].pc = call[c].pc
  PROVE  WaitInv'
<1> SUFFICES ASSUME NEW d \in Round, round'[d] # None
             PROVE  call'[round'[d]].pc = "flight" /\ call'[round'[d]].items = <<>>
  BY DEF WaitInv, InFlight
<1>1. round'[d] = round[d] /\ round[d] # None /\ round[d] \in Call
  BY DEF TypeOK
<1> QED BY <1>1 DEF WaitInv, InFlight

LEMMA RelayPlace ==
  ASSUME TypeOK, QueueInv, WaitInv, CallInOnePlace, NEW d \in Round, round[d] = None,
         NEW q \in Question, NEW c \in Call, question[q].pc = "parked", question[q].of = c,
         NEW answer \in Answer, NEW asked, asked = Answered(q, answer), Relay(d, c, asked)
  PROVE  WaitInv' /\ CallInOnePlace'
<1>1. /\ asked[q].pc = "answered"
      /\ \A p \in Question \ {q} : asked[p] = question[p]
  BY DEF Answered, TypeOK, Asked, Settled
<1>2. Parked(c) = {q} /\ Relaying(c) = {}
  <2>1. q \in Parked(c)
    BY DEF Parked
  <2> QED BY <2>1 DEF CallInOnePlace
<1>3. \A p \in Question \ {q} : question[p].pc = "parked" => question[p].of # c
  BY <1>2 DEF Parked
<1>4. CASE ~InFlight(c) /\ question' = asked /\ UNCHANGED <<call, round>>
  <2>1. CallInOnePlace'
    BY <1>1, <1>4, PlaceFrame
  <2>2. WaitInv'
    BY <1>4, WaitFrame
  <2> QED BY <2>1, <2>2
<1>5. CASE /\ InFlight(c) /\ call[c].items # <<>>
           /\ question' = Park(Head(call[c].items), c, asked)
           /\ call' = [call EXCEPT ![c].items = Tail(@)]
           /\ UNCHANGED round
  <2> DEFINE h == Head(call[c].items)
  <2>1. h \in Question
    BY <1>5, PopType
  <2>2. /\ question'[h].pc = "parked" /\ question'[h].of = c
        /\ \A p \in Question \ {h} : question'[p] = asked[p]
    BY <1>5, <2>1 DEF Park, Answered, TypeOK
  <2>3. Parked(c)' = {h}
    BY <1>1, <1>3, <2>1, <2>2 DEF Parked
  <2>4. ASSUME NEW e \in Call \ {c} PROVE Parked(e)' \subseteq Parked(e)
    BY <1>1, <2>2, <2>4 DEF Parked
  <2>5. ASSUME NEW e \in Call PROVE Relaying(e)' = Relaying(e)
    BY <1>5 DEF Relaying
  <2>6. CallInOnePlace'
    BY <1>2, <2>3, <2>4, <2>5 DEF CallInOnePlace
  <2>7. WaitInv'
    <3> SUFFICES ASSUME NEW e \in Round, round[e] # None
                 PROVE  call'[round[e]].pc = "flight" /\ call'[round[e]].items = <<>>
      BY <1>5 DEF WaitInv, InFlight
    <3>1. round[e] \in Call \ {c}
      BY <1>2 DEF Relaying, TypeOK
    <3>2. call'[round[e]] = call[round[e]]
      BY <1>5, <3>1 DEF TypeOK
    <3> QED BY <3>2 DEF WaitInv, InFlight
  <2> QED BY <2>6, <2>7
<1>6. CASE /\ InFlight(c) /\ call[c].items = <<>>
           /\ question' = asked
           /\ round' = [round EXCEPT ![d] = c]
           /\ UNCHANGED call
  <2>1. round'[d] = c /\ \A e \in Round \ {d} : round'[e] = round[e]
    BY <1>6 DEF TypeOK
  <2>2. Relaying(c)' = {d} /\ Parked(c)' = {}
    BY <1>1, <1>2, <1>3, <1>6, <2>1 DEF Relaying, Parked
  <2>3. ASSUME NEW e \in Call \ {c}
        PROVE  Relaying(e)' = Relaying(e) /\ Parked(e)' \subseteq Parked(e)
    BY <1>1, <1>6, <2>1, <2>3, NoneAssumption DEF Relaying, Parked
  <2>4. CallInOnePlace'
    BY <2>2, <2>3 DEF CallInOnePlace
  <2>5. WaitInv'
    BY <1>6, <2>1 DEF WaitInv, InFlight
  <2> QED BY <2>4, <2>5
<1> QED BY <1>4, <1>5, <1>6 DEF Relay

LEMMA EndedPlace ==
  ASSUME TypeOK, WaitInv, CallInOnePlace, NEW c \in Call, NEW pc, Ended(c, pc)
  PROVE  WaitInv' /\ CallInOnePlace'
<1>1. \A d \in Round : round'[d] = IF round[d] = c THEN None ELSE round[d]
  BY DEF Ended
<1>2. \A q \in Question : question'[q].pc = "parked" => question'[q] = question[q]
  BY DEF Ended, Queued, TypeOK, Asked, Settled
<1>3. CallInOnePlace'
  BY <1>1, <1>2, PlaceFrame
<1>4. WaitInv'
  <2> SUFFICES ASSUME NEW d \in Round, round'[d] # None
               PROVE  call'[round'[d]].pc = "flight" /\ call'[round'[d]].items = <<>>
    BY DEF WaitInv, InFlight
  <2>1. round'[d] = round[d] /\ round[d] \in Call \ {c}
    BY <1>1 DEF TypeOK
  <2>2. call'[round[d]] = call[round[d]]
    BY <2>1 DEF Ended, TypeOK
  <2> QED BY <2>1, <2>2 DEF WaitInv, InFlight
<1> QED BY <1>3, <1>4

LEMMA AskPlace ==
  ASSUME TypeOK, WaitInv, CallInOnePlace, NEW c \in Call, NEW q \in Question, Ask(c, q)
  PROVE  WaitInv' /\ CallInOnePlace'
<1>1. CASE Relaying(c) # {}
  <2>1. /\ question'[q].pc = "parked" /\ question'[q].of = c
        /\ \A p \in Question \ {q} : question'[p] = question[p]
    BY <1>1 DEF Ask, Park, TypeOK
  <2>2. /\ UNCHANGED call
        /\ \A d \in Round : round'[d] = IF round[d] = c THEN None ELSE round[d]
    BY <1>1 DEF Ask
  <2>3. Parked(c) = {}
    BY <1>1 DEF CallInOnePlace
  <2>4. Parked(c)' = {q} /\ Relaying(c)' = {}
    BY <2>1, <2>2, <2>3, NoneAssumption DEF Parked, Relaying
  <2>5. ASSUME NEW e \in Call \ {c}
        PROVE  Parked(e)' \subseteq Parked(e) /\ Relaying(e)' = Relaying(e)
    BY <2>1, <2>2, <2>5, NoneAssumption DEF Parked, Relaying
  <2>6. CallInOnePlace'
    BY <2>4, <2>5 DEF CallInOnePlace
  <2> QED BY <2>2, <2>6, WaitFrame
<1>2. CASE Relaying(c) = {}
  <2>1. /\ question'[q].pc = "queued" /\ UNCHANGED round
        /\ \A p \in Question \ {q} : question'[p] = question[p]
        /\ \A e \in Call \ {c} : call'[e] = call[e]
    BY <1>2 DEF Ask, TypeOK, Asked, Settled
  <2>2. CallInOnePlace'
    BY <2>1, PlaceFrame
  <2>3. WaitInv'
    <3> SUFFICES ASSUME NEW d \in Round, round[d] # None
                 PROVE  call'[round[d]].pc = "flight" /\ call'[round[d]].items = <<>>
      BY <2>1 DEF WaitInv, InFlight
    <3>1. round[d] \in Call \ {c}
      BY <1>2 DEF Relaying, TypeOK
    <3> QED BY <2>1, <3>1 DEF WaitInv, InFlight
  <2> QED BY <2>2, <2>3
<1> QED BY <1>1, <1>2

LEMMA PlaceStep ==
  TypeOK /\ OfInv /\ QueueInv /\ WaitInv /\ CallInOnePlace /\ [Next]_vars
    => WaitInv' /\ CallInOnePlace'
<1> SUFFICES ASSUME TypeOK, OfInv, QueueInv, WaitInv, CallInOnePlace, [Next]_vars
             PROVE  WaitInv' /\ CallInOnePlace'
  OBVIOUS
<1>1. CASE Tick
  <2>1. \A c \in Call : call'[c].items = call[c].items /\ call'[c].pc = call[c].pc
    BY <1>1, CallType DEF Tick, CallState
  <2>2. \A q \in Question : question'[q].pc = question[q].pc /\ question'[q].of = question[q].of
    BY <1>1 DEF Tick, TypeOK, Asked, Settled
  <2>3. UNCHANGED round
    BY <1>1 DEF Tick
  <2> QED BY <2>1, <2>2, <2>3, PlaceFrame, WaitFrame
<1>2. ASSUME NEW d \in Round, StartCall(d) PROVE WaitInv' /\ CallInOnePlace'
  <2>1. PICK c \in Call : /\ ~InFlight(c) /\ Parked(c) = {}
                          /\ call' = [call EXCEPT ![c] = NewCall]
                          /\ round' = [round EXCEPT ![d] = c]
    BY <1>2 DEF StartCall
  <2>2. UNCHANGED question /\ round[d] = None
    BY <1>2 DEF StartCall
  <2>3. round'[d] = c /\ \A e \in Round \ {d} : round'[e] = round[e]
    BY <2>1 DEF TypeOK
  <2>4. \A e \in Round : round[e] # c
    BY <2>1, NoneAssumption DEF WaitInv
  <2>5. Relaying(c)' = {d} /\ Parked(c)' = {}
    BY <2>1, <2>2, <2>3, <2>4 DEF Relaying, Parked
  <2>6. ASSUME NEW e \in Call \ {c} PROVE Relaying(e)' = Relaying(e) /\ Parked(e)' = Parked(e)
    BY <2>2, <2>3, <2>6, NoneAssumption DEF Relaying, Parked
  <2>7. CallInOnePlace'
    BY <2>5, <2>6 DEF CallInOnePlace
  <2>8. call'[c].pc = "flight" /\ call'[c].items = <<>>
        /\ \A e \in Call \ {c} : call'[e] = call[e]
    BY <2>1 DEF NewCall, TypeOK
  <2>9. WaitInv'
    <3> SUFFICES ASSUME NEW e \in Round, round'[e] # None
                 PROVE  call'[round'[e]].pc = "flight" /\ call'[round'[e]].items = <<>>
      BY DEF WaitInv, InFlight
    <3>1. CASE e = d
      BY <2>3, <2>8, <3>1
    <3>2. CASE e # d
      <4>1. round'[e] = round[e] /\ round[e] \in Call \ {c}
        BY <2>3, <2>4, <3>2 DEF TypeOK
      <4> QED BY <2>8, <4>1 DEF WaitInv, InFlight
    <3> QED BY <3>1, <3>2
  <2> QED BY <2>7, <2>9
<1>3. ASSUME NEW d \in Round, Retry(d) PROVE WaitInv' /\ CallInOnePlace'
  <2>1. PICK q \in Question, answer \in Answer :
          question[q].pc = "parked" /\ Relay(d, question[q].of, Answered(q, answer))
    BY <1>3 DEF Retry
  <2>2. question[q].of \in Call /\ round[d] = None
    BY <1>3, <2>1 DEF OfInv, Retry
  <2> QED BY <2>1, <2>2, RelayPlace
<1>4. ASSUME NEW d \in Round, AbortRound(d) PROVE WaitInv' /\ CallInOnePlace'
  <2>1. \A c \in Call : call'[c].items = call[c].items /\ call'[c].pc = call[c].pc
    BY <1>4, CallType DEF AbortRound, CallState, TypeOK
  <2> QED BY <1>4, <2>1, PlaceFrame, WaitFrame DEF AbortRound
<1>5. ASSUME NEW c \in Call, CallEnds(c) \/ CallTimesOut(c) PROVE WaitInv' /\ CallInOnePlace'
  BY <1>5, EndedPlace DEF CallEnds, CallTimesOut
<1>6. ASSUME NEW c \in Call, Progress(c) PROVE WaitInv' /\ CallInOnePlace'
  <2>1. \A e \in Call : call'[e].items = call[e].items /\ call'[e].pc = call[e].pc
    BY <1>6, CallType DEF Progress, CallState, TypeOK
  <2> QED BY <1>6, <2>1, PlaceFrame, WaitFrame DEF Progress
<1>7. ASSUME NEW c \in Call, NEW q \in Question, Ask(c, q) PROVE WaitInv' /\ CallInOnePlace'
  BY <1>7, AskPlace
<1>8. ASSUME NEW q \in Question, Expire(q) PROVE WaitInv' /\ CallInOnePlace'
  <2>1. \A p \in Question : question'[p].pc = "parked" => question'[p] = question[p]
    BY <1>8 DEF Expire, Answered, TypeOK, Asked, Settled
  <2> QED BY <1>8, <2>1, PlaceFrame, WaitFrame DEF Expire
<1>9. CASE UNCHANGED vars
  BY <1>9, PlaceFrame, WaitFrame DEF vars
<1> QED BY <1>1, <1>2, <1>3, <1>4, <1>5, <1>6, <1>7, <1>8, <1>9 DEF Next

LEMMA PlaceInvHolds == Spec => [](WaitInv /\ CallInOnePlace)
<1>1. Init => WaitInv /\ CallInOnePlace
  BY NoneAssumption DEF Init, WaitInv, CallInOnePlace, Relaying, Parked, Unasked
<1>2. TypeOK /\ OfInv /\ QueueInv /\ (WaitInv /\ CallInOnePlace) /\ [Next]_vars
        => (WaitInv /\ CallInOnePlace)'
  BY PlaceStep
<1> QED BY <1>1, <1>2, ParkedTypeCorrect, OfInvHolds, QueueInvHolds, PTL DEF Spec

\* A call is waited for by one round, or parked on one question, never both, with
\* any number of clients, calls and questions (relay and parked in mcp/server.ts).
THEOREM PlaceCorrect == Spec => []CallInOnePlace
BY PlaceInvHolds, PTL

\* No round waits on a call that is over or has something queued, and a queue
\* holds each unseen question once.
THEOREM QueueCorrect == Spec => []NoMissedQuestion
<1>1. TypeOK /\ QueueInv /\ WaitInv => NoMissedQuestion
  <2> SUFFICES ASSUME TypeOK, QueueInv, WaitInv PROVE NoMissedQuestion
    OBVIOUS
  <2>1. ASSUME NEW d \in Round, round[d] # None
        PROVE  InFlight(round[d]) /\ Queued(round[d]) = {}
    <3>1. round[d] \in Call
      BY <2>1 DEF TypeOK
    <3>2. InFlight(round[d]) /\ call[round[d]].items = <<>>
      BY <2>1 DEF WaitInv
    <3> QED BY <3>1, <3>2, EmptyQueue
  <2>2. ASSUME NEW c \in Call
        PROVE  /\ Queued(c) = {call[c].items[i] : i \in DOMAIN call[c].items}
               /\ Cardinality(Queued(c)) = Len(call[c].items)
    <3>1. Enumerates(call[c].items, Queued(c))
      BY DEF QueueInv
    <3>2. DOMAIN call[c].items = 1..Len(call[c].items)
      BY <3>1, LenProperties DEF Enumerates
    <3> QED BY <3>1, <3>2 DEF Enumerates
  <2> QED BY <2>1, <2>2 DEF NoMissedQuestion
<1> QED BY <1>1, ParkedTypeCorrect, QueueInvHolds, PlaceInvHolds, PTL

-----------------------------------------------------------------------------
(* A question that has its answer keeps it. *)

LEMMA AnswerKept ==
  ASSUME TypeOK, OfInv, QueueInv, [Next]_vars, NEW q \in Question, question[q].answer # "none"
  PROVE  question'[q].answer = question[q].answer
<1>1. question[q].pc = "answered"
  BY DEF TypeOK, Asked, Settled
<1>2. CASE Tick
  BY <1>1, <1>2 DEF Tick
<1>3. ASSUME NEW d \in Round, StartCall(d) \/ AbortRound(d)
      PROVE  question'[q].answer = question[q].answer
  BY <1>3 DEF StartCall, AbortRound
<1>4. ASSUME NEW d \in Round, Retry(d) PROVE question'[q].answer = question[q].answer
  <2>1. PICK p \in Question, answer \in Answer :
          question[p].pc = "parked" /\ Relay(d, question[p].of, Answered(p, answer))
    BY <1>4 DEF Retry
  <2> DEFINE c == question[p].of
             h == Head(call[c].items)
  <2>2. Answered(p, answer)[q] = question[q]
    BY <1>1, <2>1 DEF Answered, TypeOK
  <2>3. CASE question' = Answered(p, answer)
    BY <2>2, <2>3
  <2>4. CASE call[c].items # <<>> /\ question' = Park(h, c, Answered(p, answer))
    <3>1. h # q
      <4>1. c \in Call
        BY <2>1 DEF OfInv
      <4>2. Enumerates(call[c].items, Queued(c))
        BY <4>1 DEF QueueInv
      <4>3. h \in Queued(c)
        BY <2>4, <4>2, EnumeratesTail
      <4> QED BY <1>1, <4>3 DEF Queued
    <3> QED BY <2>2, <2>4, <3>1 DEF Park
  <2> QED BY <2>1, <2>3, <2>4 DEF Relay
<1>5. ASSUME NEW c \in Call, CallEnds(c) \/ CallTimesOut(c)
      PROVE  question'[q].answer = question[q].answer
  <2>1. q \notin Queued(c)
    BY <1>1 DEF Queued
  <2> QED BY <1>5, <2>1 DEF CallEnds, CallTimesOut, Ended
<1>6. ASSUME NEW c \in Call, Progress(c) PROVE question'[q].answer = question[q].answer
  BY <1>6 DEF Progress
<1>7. ASSUME NEW c \in Call, NEW p \in Question, Ask(c, p)
      PROVE  question'[q].answer = question[q].answer
  BY <1>1, <1>7 DEF Ask, Park, TypeOK
<1>8. ASSUME NEW p \in Question, Expire(p) PROVE question'[q].answer = question[q].answer
  BY <1>1, <1>8 DEF Expire, Answered, TypeOK
<1>9. CASE UNCHANGED vars
  BY <1>9 DEF vars
<1> QED BY <1>2, <1>3, <1>4, <1>5, <1>6, <1>7, <1>8, <1>9 DEF Next

\* Of the user's answer, a second answer and the timer, only the first that comes
\* counts: a parked question is removed in the run that answers it.
AnsweredOnce == [][\A q \in Question :
                     question[q].answer # "none" => question'[q].answer = question[q].answer]_vars

\* An upstream keeps the answer it was given (parked.delete in mcp/server.ts).
THEOREM AnsweredOnceCorrect == Spec => AnsweredOnce
<1>1. TypeOK /\ OfInv /\ QueueInv /\ [Next]_vars
        => [\A q \in Question :
              question[q].answer # "none" => question'[q].answer = question[q].answer]_vars
  BY AnswerKept
<1> QED BY <1>1, ParkedTypeCorrect, OfInvHolds, QueueInvHolds, PTL DEF Spec, AnsweredOnce

-----------------------------------------------------------------------------
(* The refinement of Conversations. *)

\* Only an answered question has an answer.
LEMMA NotAnswered ==
  ASSUME TypeOK, NEW q \in Question, question[q].pc # "answered"
  PROVE  question[q].answer = "none"
BY DEF TypeOK, Asked, Settled

LEMMA StutterMaps ==
  ASSUME UNCHANGED round,
         \A q \in Question : /\ question'[q].answer = question[q].answer
                             /\ (question'[q].pc = "parked") <=> (question[q].pc = "parked")
                             /\ question[q].pc = "parked" => question'[q].of = question[q].of
  PROVE  UNCHANGED Conversation!vars
<1>1. ASSUME NEW c \in Call PROVE Relaying(c)' = Relaying(c) /\ Parked(c)' = Parked(c)
  BY DEF Relaying, Parked
<1> QED BY <1>1 DEF Conversation!vars

LEMMA PlaceMaps ==
  ASSUME NEW c \in Call, NEW rounds, NEW questions,
         Relaying(c)' = rounds, Parked(c)' = questions,
         \A e \in Call \ {c} : Relaying(e)' = Relaying(e) /\ Parked(e)' = Parked(e)
  PROVE  Conversation!Place(c, rounds, questions)
BY DEF Conversation!Place

LEMMA AnswersMap ==
  ASSUME \A q \in Question : question'[q].answer = question[q].answer
  PROVE  UNCHANGED [q \in Question |-> question[q].answer]
OBVIOUS

\* What a round does with an answer it brings: the call it is for settles the
\* question and goes on at one place.
LEMMA RelayMaps ==
  ASSUME TypeOK, QueueInv, WaitInv, CallInOnePlace, NEW d \in Round, round[d] = None,
         NEW q \in Question, NEW c \in Call, question[q].pc = "parked", question[q].of = c,
         NEW given \in Answer, NEW asked, asked = Answered(q, given), Relay(d, c, asked)
  PROVE  Conversation!Settle(c, q)
<1>1. /\ asked[q].pc = "answered" /\ asked[q].answer = given
      /\ \A p \in Question \ {q} : asked[p] = question[p]
  BY DEF Answered, TypeOK, Asked, Settled
<1>2. Parked(c) = {q} /\ Relaying(c) = {}
  <2>1. q \in Parked(c)
    BY DEF Parked
  <2> QED BY <2>1 DEF CallInOnePlace
<1>3. \A p \in Question \ {q} : question[p].pc = "parked" => question[p].of # c
  BY <1>2 DEF Parked
<1>4. ASSUME \A p \in Question : question'[p].answer = asked[p].answer
      PROVE  [p \in Question |-> question[p].answer]'
               = [[p \in Question |-> question[p].answer] EXCEPT ![q] = given]
  BY <1>1, <1>4
<1>5. CASE ~InFlight(c) /\ question' = asked /\ UNCHANGED <<call, round>>
  <2>1. Relaying(c)' = {} /\ Parked(c)' = {}
    BY <1>1, <1>2, <1>3, <1>5 DEF Relaying, Parked
  <2>2. ASSUME NEW e \in Call \ {c} PROVE Relaying(e)' = Relaying(e) /\ Parked(e)' = Parked(e)
    BY <1>1, <1>5, <2>2 DEF Relaying, Parked
  <2>3. Conversation!Place(c, {}, {})
    BY <2>1, <2>2, PlaceMaps
  <2> QED BY <1>2, <1>4, <1>5, <2>3 DEF Conversation!Settle, Conversation!Answer, Answer
<1>6. CASE /\ InFlight(c) /\ call[c].items # <<>>
           /\ question' = Park(Head(call[c].items), c, asked)
           /\ call' = [call EXCEPT ![c].items = Tail(@)]
           /\ UNCHANGED round
  <2> DEFINE h == Head(call[c].items)
  <2>1. h \in Question /\ question[h].pc = "queued"
    <3>1. Enumerates(call[c].items, Queued(c))
      BY DEF QueueInv
    <3>2. h \in Queued(c)
      BY <1>6, <3>1, EnumeratesTail
    <3> QED BY <3>2 DEF Queued
  <2>2. /\ question'[h].pc = "parked" /\ question'[h].of = c /\ question'[h].answer = "none"
        /\ \A p \in Question \ {h} : question'[p] = asked[p]
    BY <1>6, <2>1 DEF Park, Answered, TypeOK
  <2>3. question[h].answer = "none" /\ asked[h] = question[h]
    BY <1>1, <2>1, NotAnswered
  <2>4. Relaying(c)' = {} /\ Parked(c)' = {h}
    BY <1>1, <1>2, <1>3, <1>6, <2>1, <2>2 DEF Relaying, Parked
  <2>5. ASSUME NEW e \in Call \ {c} PROVE Relaying(e)' = Relaying(e) /\ Parked(e)' = Parked(e)
    BY <1>1, <1>6, <2>1, <2>2, <2>5 DEF Relaying, Parked
  <2>6. Conversation!Place(c, {}, {h})
    BY <2>4, <2>5, PlaceMaps
  <2>7. Conversation!Unseen(h)
    BY <2>1, <2>3 DEF Conversation!Unseen, Parked
  <2>8. \A p \in Question : question'[p].answer = asked[p].answer
    BY <2>2, <2>3
  <2> QED BY <1>2, <1>4, <2>1, <2>6, <2>7, <2>8 DEF Conversation!Settle, Conversation!Answer, Answer
<1>7. CASE /\ InFlight(c) /\ call[c].items = <<>>
           /\ question' = asked
           /\ round' = [round EXCEPT ![d] = c]
           /\ UNCHANGED call
  <2>1. round'[d] = c /\ \A e \in Round \ {d} : round'[e] = round[e]
    BY <1>7 DEF TypeOK
  <2>2. Relaying(c)' = {d} /\ Parked(c)' = {}
    BY <1>1, <1>2, <1>3, <1>7, <2>1 DEF Relaying, Parked
  <2>3. ASSUME NEW e \in Call \ {c} PROVE Relaying(e)' = Relaying(e) /\ Parked(e)' = Parked(e)
    BY <1>1, <1>7, <2>1, <2>3, NoneAssumption DEF Relaying, Parked
  <2>4. Conversation!Place(c, {d}, {})
    BY <2>2, <2>3, PlaceMaps
  <2>5. Conversation!Free(d)
    BY NoneAssumption DEF Conversation!Free, Relaying
  <2> QED BY <1>2, <1>4, <1>7, <2>4, <2>5 DEF Conversation!Settle, Conversation!Answer, Answer
<1> QED BY <1>5, <1>6, <1>7 DEF Relay

LEMMA AskMaps ==
  ASSUME TypeOK, CallInOnePlace, NEW c \in Call, NEW q \in Question, Ask(c, q)
  PROVE  Conversation!Ask(c, q) \/ UNCHANGED Conversation!vars
<1>1. question[q].pc = "free" /\ question[q].answer = "none"
  BY NotAnswered DEF Ask
<1>2. CASE Relaying(c) # {}
  <2>1. /\ question'[q].pc = "parked" /\ question'[q].of = c /\ question'[q].answer = "none"
        /\ \A p \in Question \ {q} : question'[p] = question[p]
        /\ \A d \in Round : round'[d] = IF round[d] = c THEN None ELSE round[d]
    BY <1>2 DEF Ask, Park, TypeOK
  <2>2. Parked(c) = {}
    BY <1>2 DEF CallInOnePlace
  <2>3. Relaying(c)' = {} /\ Parked(c)' = {q}
    BY <2>1, <2>2, NoneAssumption DEF Relaying, Parked
  <2>4. ASSUME NEW e \in Call \ {c} PROVE Relaying(e)' = Relaying(e) /\ Parked(e)' = Parked(e)
    BY <1>1, <2>1, <2>4, NoneAssumption DEF Relaying, Parked
  <2>5. Conversation!Place(c, {}, {q})
    BY <2>3, <2>4, PlaceMaps
  <2>6. Conversation!Unseen(q)
    BY <1>1 DEF Conversation!Unseen, Parked
  <2>7. UNCHANGED [p \in Question |-> question[p].answer]
    BY <1>1, <2>1, AnswersMap
  <2> QED BY <1>2, <2>5, <2>6, <2>7 DEF Conversation!Ask
<1>3. CASE Relaying(c) = {}
  <2>1. /\ question'[q].pc = "queued" /\ question'[q].answer = question[q].answer
        /\ \A p \in Question \ {q} : question'[p] = question[p]
        /\ UNCHANGED round
    BY <1>3 DEF Ask, TypeOK, Asked, Settled
  <2> QED BY <1>1, <2>1, StutterMaps
<1> QED BY <1>2, <1>3

LEMMA EndedMaps ==
  ASSUME TypeOK, CallInOnePlace, NEW c \in Call, NEW pc, Ended(c, pc)
  PROVE  Conversation!End(c) \/ UNCHANGED Conversation!vars
<1>1. \A d \in Round : round'[d] = IF round[d] = c THEN None ELSE round[d]
  BY DEF Ended
<1>2. ASSUME NEW q \in Question
      PROVE  /\ question'[q].answer = question[q].answer
             /\ (question'[q].pc = "parked") <=> (question[q].pc = "parked")
             /\ question'[q].of = question[q].of
  BY <1>2 DEF Ended, Queued, TypeOK, Asked, Settled
<1>3. UNCHANGED [q \in Question |-> question[q].answer]
  BY <1>2, AnswersMap
<1>4. CASE Relaying(c) # {}
  <2>1. Parked(c) = {}
    BY <1>4 DEF CallInOnePlace
  <2>2. Relaying(c)' = {} /\ Parked(c)' = {}
    BY <1>1, <1>2, <2>1, NoneAssumption DEF Relaying, Parked
  <2>3. ASSUME NEW e \in Call \ {c} PROVE Relaying(e)' = Relaying(e) /\ Parked(e)' = Parked(e)
    BY <1>1, <1>2, <2>3, NoneAssumption DEF Relaying, Parked
  <2>4. Conversation!Place(c, {}, {})
    BY <2>2, <2>3, PlaceMaps
  <2> QED BY <1>3, <1>4, <2>4 DEF Conversation!End
<1>5. CASE Relaying(c) = {}
  <2>1. \A d \in Round : round'[d] = round[d]
    BY <1>1, <1>5 DEF Relaying
  <2>2. ASSUME NEW e \in Call PROVE Relaying(e)' = Relaying(e) /\ Parked(e)' = Parked(e)
    BY <1>2, <2>1 DEF Relaying, Parked
  <2> QED BY <1>3, <2>2 DEF Conversation!vars
<1> QED BY <1>4, <1>5

LEMMA ConversationStep ==
  TypeOK /\ OfInv /\ QueueInv /\ WaitInv /\ CallInOnePlace /\ [Next]_vars
    => [Conversation!Next]_(Conversation!vars)
<1> SUFFICES ASSUME TypeOK, OfInv, QueueInv, WaitInv, CallInOnePlace, [Next]_vars
             PROVE  Conversation!Next \/ UNCHANGED Conversation!vars
  OBVIOUS
<1>1. CASE Tick
  <2>1. \A q \in Question : /\ question'[q].answer = question[q].answer
                            /\ question'[q].pc = question[q].pc
                            /\ question'[q].of = question[q].of
    BY <1>1 DEF Tick, TypeOK, Asked, Settled
  <2> QED BY <1>1, <2>1, StutterMaps DEF Tick
<1>2. ASSUME NEW d \in Round, StartCall(d) PROVE Conversation!Next
  <2>1. PICK c \in Call : /\ ~InFlight(c) /\ Parked(c) = {}
                          /\ call' = [call EXCEPT ![c] = NewCall]
                          /\ round' = [round EXCEPT ![d] = c]
    BY <1>2 DEF StartCall
  <2>2. UNCHANGED question /\ round[d] = None
    BY <1>2 DEF StartCall
  <2>3. round'[d] = c /\ \A e \in Round \ {d} : round'[e] = round[e]
    BY <2>1 DEF TypeOK
  <2>4. Relaying(c) = {}
    BY <2>1, NoneAssumption DEF WaitInv, Relaying
  <2>5. Relaying(c)' = {d} /\ Parked(c)' = {}
    BY <2>1, <2>2, <2>3, <2>4 DEF Relaying, Parked
  <2>6. ASSUME NEW e \in Call \ {c} PROVE Relaying(e)' = Relaying(e) /\ Parked(e)' = Parked(e)
    BY <2>2, <2>3, <2>6, NoneAssumption DEF Relaying, Parked
  <2>7. Conversation!Place(c, {d}, {})
    BY <2>5, <2>6, PlaceMaps
  <2>8. Conversation!Free(d)
    BY <2>2, NoneAssumption DEF Conversation!Free, Relaying
  <2>9. UNCHANGED [q \in Question |-> question[q].answer]
    BY <2>2
  <2>10. Conversation!Start(c, d)
    BY <2>1, <2>4, <2>7, <2>8, <2>9 DEF Conversation!Start
  <2> QED BY <2>10 DEF Conversation!Next
<1>3. ASSUME NEW d \in Round, Retry(d) PROVE Conversation!Next
  <2>1. PICK q \in Question, given \in Answer :
          question[q].pc = "parked" /\ Relay(d, question[q].of, Answered(q, given))
    BY <1>3 DEF Retry
  <2>2. question[q].of \in Call /\ round[d] = None
    BY <1>3, <2>1 DEF OfInv, Retry
  <2>3. Conversation!Settle(question[q].of, q)
    BY <2>1, <2>2, RelayMaps
  <2> QED BY <2>2, <2>3 DEF Conversation!Next
<1>4. ASSUME NEW d \in Round, AbortRound(d) PROVE UNCHANGED Conversation!vars
  BY <1>4, StutterMaps DEF AbortRound
<1>5. ASSUME NEW c \in Call, CallEnds(c) \/ CallTimesOut(c)
      PROVE  Conversation!Next \/ UNCHANGED Conversation!vars
  <2>1. Conversation!End(c) \/ UNCHANGED Conversation!vars
    BY <1>5, EndedMaps DEF CallEnds, CallTimesOut
  <2> QED BY <2>1 DEF Conversation!Next
<1>6. ASSUME NEW c \in Call, Progress(c) PROVE UNCHANGED Conversation!vars
  BY <1>6, StutterMaps DEF Progress
<1>7. ASSUME NEW c \in Call, NEW q \in Question, Ask(c, q)
      PROVE  Conversation!Next \/ UNCHANGED Conversation!vars
  <2>1. Conversation!Ask(c, q) \/ UNCHANGED Conversation!vars
    BY <1>7, AskMaps
  <2> QED BY <2>1 DEF Conversation!Next
<1>8. ASSUME NEW q \in Question, Expire(q) PROVE Conversation!Next
  <2>0. PICK c \in Call : c = question[q].of
    BY <1>8 DEF Expire, OfInv
  <2>1. /\ question[q].pc = "parked" /\ question[q].of = c /\ UNCHANGED round
        /\ question' = Answered(q, "cancel")
    BY <1>8, <2>0 DEF Expire
  <2>2. /\ question'[q].pc = "answered" /\ question'[q].answer = "cancel"
        /\ \A p \in Question \ {q} : question'[p] = question[p]
    BY <2>1 DEF Answered, TypeOK, Asked, Settled
  <2>3. Parked(c) = {q} /\ Relaying(c) = {}
    <3>1. q \in Parked(c)
      BY <2>1 DEF Parked
    <3> QED BY <2>1, <3>1 DEF CallInOnePlace
  <2>4. Relaying(c)' = {} /\ Parked(c)' = {}
    BY <2>1, <2>2, <2>3 DEF Relaying, Parked
  <2>5. ASSUME NEW e \in Call \ {c} PROVE Relaying(e)' = Relaying(e) /\ Parked(e)' = Parked(e)
    BY <2>1, <2>2, <2>5 DEF Relaying, Parked
  <2>6. Conversation!Place(c, {}, {})
    BY <2>1, <2>4, <2>5, PlaceMaps
  <2>7. [p \in Question |-> question[p].answer]'
          = [[p \in Question |-> question[p].answer] EXCEPT ![q] = "cancel"]
    BY <2>2
  <2>8. Conversation!Settle(c, q)
    BY <2>1, <2>3, <2>6, <2>7 DEF Conversation!Settle, Conversation!Answer
  <2> QED BY <2>1, <2>8 DEF Conversation!Next
<1>9. CASE UNCHANGED vars
  BY <1>9, StutterMaps DEF vars
<1> QED BY <1>1, <1>2, <1>3, <1>4, <1>5, <1>6, <1>7, <1>8, <1>9 DEF Next

\* Whatever the queue, the timers and the rounds do, a client and an upstream see a
\* conversation: what is asked is shown at one place, and settled once (relay,
\* onElicit, forward and parked in mcp/server.ts).
THEOREM ConversationCorrect == Spec => KeepsConversation
<1>1. Init => Conversation!Init
  BY NoneAssumption DEF Init, Conversation!Init, Relaying, Parked, Unasked
<1> QED BY <1>1, ConversationStep, ParkedTypeCorrect, OfInvHolds, QueueInvHolds, PlaceInvHolds, PTL
        DEF Spec, KeepsConversation, Conversation!Spec

-----------------------------------------------------------------------------
(* The pane (DiscoverPane) *)

Actor == Task \cup {Clock}

\* The id of a server is its own and was given out.
IdsInv ==
  /\ nextId \in Nat \ {0}
  /\ server \in [Name -> Servers \cup {Nil}]
  /\ \A n \in Name : server[n] # Nil => server[n].id \in 1..(nextId - 1) /\ server[n].defs # 0
  /\ \A m, n \in Name : server[m] # Nil /\ server[n] # Nil /\ server[m].id = server[n].id => m = n

\* Nobody but n has the id a snapshot gives for n, and nobody will get it.
OwnedIn(s, next, snap) ==
  \A n \in Name : snap.rows[n] # Nil =>
    /\ snap.rows[n].id \in 1..(next - 1)
    /\ \A m \in Name : s[m] # Nil /\ s[m].id = snap.rows[n].id => m = n
Owned(snap) == OwnedIn(server, nextId, snap)

Installing == <<"fn", "land", "go", "again", "show", "viewed">>
Todos == {<<>>} \cup {<<"fn">> \o Rest, Rest, <<"show", "viewed">>, <<"viewed">>,
            <<"fn", "land", "go", "again", "show", "viewed">>,
            <<"land", "go", "again", "show", "viewed">>,
            <<"go", "again", "show", "viewed">>, <<"again", "show", "viewed">>}

\* Stands: the stage a task is at.
Stands(r, stage) == r.todo # <<>> /\ Head(r.todo) = stage
\* A task that has polled holds snapshots, one that has loaded a detail that
\* detail; what it acts on is a server.
TaskIn(s, next, r) ==
  /\ r = Started(r.op, r.name, r.todo, r.got)
  /\ r.op \in Acts \cup {"none", "go", "tick"} /\ r.todo \in Todos
  /\ Stands(r, "fn") /\ r.op \in OnServer \cup {"plan"} => r.name \in Name
  /\ r.todo \in {Installing, Tail(Installing)} => r.op = "install"
  /\ Stands(r, "land") /\ r.op = "plan" => r.got \in Name
  /\ Stands(r, "land") /\ r.op = "search" => r.got \subseteq Name
  /\ (Stands(r, "land") /\ r.op = "install") \/ Stands(r, "go") => r.name \in Name
  /\ Stands(r, "show") \/ Stands(r, "go") => r.got.isUp \in BOOLEAN /\ OwnedIn(s, next, r.got)
  /\ (Stands(r, "viewed") \/ Stands(r, "again")) /\ r.got # Nil => r.got.name \in Name

TasksInv ==
  /\ task = [t \in Actor |-> task[t]]
  /\ \A t \in Actor : TaskIn(server, nextId, task[t])

DetailInv ==
  /\ reviewed = [n \in Name |-> reviewed[n]]
  /\ detail # Nil => detail.name \in Name /\ detail.defs \in reviewed[detail.name]

DrawnInv ==
  /\ up \in BOOLEAN /\ snapshot.isUp \in BOOLEAN
  /\ route \in [tab : Tabs, server : Name \cup {Nil}]
  /\ plan = Nil \/ plan \in [name : Name, filled : BOOLEAN]
  /\ confirm \in Name \cup {Nil} /\ browse \subseteq Name
  /\ planValues \in Name \cup {Nil} /\ typed \in Name \cup {Nil}
  /\ busy = Nil \/ busy \in Acts

PaneInv == IdsInv /\ Owned(snapshot) /\ TasksInv /\ DetailInv /\ DrawnInv

LEMMA ShortStages == <<"fn">> \o Rest = <<"fn", "land", "show", "viewed">>
<1> DEFINE S == {"fn", "land", "show", "viewed"}
<1>1. <<"fn">> \in Seq(S) /\ Rest \in Seq(S) /\ <<"fn", "land", "show", "viewed">> \in Seq(S)
  BY DEF Rest
<1>2. /\ <<"fn">> \o Rest \in Seq(S)
      /\ Len(<<"fn">> \o Rest) = 4
      /\ \A i \in 1..4 : (<<"fn">> \o Rest)[i] = <<"fn", "land", "show", "viewed">>[i]
  BY <1>1, ConcatProperties DEF Rest
<1> QED BY <1>1, <1>2, SeqEqual

\* The order of a task's stages.
LEMMA StageOrder ==
  ASSUME NEW todo \in Todos, todo # <<>>
  PROVE  /\ Tail(todo) \in Todos
         /\ Head(todo) = "fn" => Tail(todo) # <<>> /\ Head(Tail(todo)) = "land"
         /\ Head(todo) = "land" => Tail(todo) # <<>> /\ Head(Tail(todo)) \in {"show", "go"}
         /\ Head(todo) = "show" => Tail(todo) # <<>> /\ Head(Tail(todo)) = "viewed"
         /\ Head(todo) = "go" => Tail(todo) # <<>> /\ Head(Tail(todo)) = "again"
         /\ Head(todo) = "again" => Tail(todo) # <<>> /\ Head(Tail(todo)) = "show"
         /\ Head(todo) = "viewed" => Tail(todo) = <<>>
         /\ Tail(todo) \in {Installing, Tail(Installing)} => todo \in {Installing, Tail(Installing)}
         /\ Head(todo) = "land" /\ Head(Tail(todo)) = "go" => todo = Tail(Installing)
<1>1. <<"fn">> \o Rest = <<"fn", "land", "show", "viewed">>
  BY ShortStages
<1>2. todo \in {<<"fn", "land", "show", "viewed">>, Rest, <<"show", "viewed">>, <<"viewed">>,
            <<"fn", "land", "go", "again", "show", "viewed">>,
            <<"land", "go", "again", "show", "viewed">>,
            <<"go", "again", "show", "viewed">>, <<"again", "show", "viewed">>}
  BY <1>1 DEF Todos
<1>3. CASE todo = <<"fn", "land", "show", "viewed">>
  BY <1>3 DEF Todos, Rest, Installing
<1>4. CASE todo = Rest
  BY <1>4 DEF Todos, Rest, Installing
<1>5. CASE todo = <<"show", "viewed">>
  BY <1>5 DEF Todos, Rest, Installing
<1>6. CASE todo = <<"viewed">>
  BY <1>6 DEF Todos, Rest, Installing
<1>7. CASE todo = <<"fn", "land", "go", "again", "show", "viewed">>
  BY <1>7 DEF Todos, Rest, Installing
<1>8. CASE todo = <<"land", "go", "again", "show", "viewed">>
  BY <1>8 DEF Todos, Rest, Installing
<1>9. CASE todo = <<"go", "again", "show", "viewed">>
  BY <1>9 DEF Todos, Rest, Installing
<1>10. CASE todo = <<"again", "show", "viewed">>
  BY <1>10 DEF Todos, Rest, Installing
<1> QED BY <1>2, <1>3, <1>4, <1>5, <1>6, <1>7, <1>8, <1>9, <1>10

-----------------------------------------------------------------------------
LEMMA PaneTyped == PaneInv => PaneTypeOK
<1>1. ASSUME NEW todo \in Todos PROVE Len(todo) \in 0..6
  <2>1. <<"fn">> \o Rest = <<"fn", "land", "show", "viewed">>
    BY ShortStages
  <2> QED BY <2>1 DEF Todos, Rest, Installing
<1> QED BY <1>1 DEF PaneInv, IdsInv, TasksInv, TaskIn, DetailInv, DrawnInv, PaneTypeOK, Actor

-----------------------------------------------------------------------------
\* From s, next to s2, next2: who keeps an id, or gets one never given out.
Follows(s, next, s2, next2) ==
  /\ next \in Nat /\ next2 \in Nat /\ next <= next2
  /\ \A m \in Name : s2[m] # Nil =>
       \/ s[m] # Nil /\ s2[m].id = s[m].id
       \/ s2[m].id \in Nat /\ s2[m].id >= next

LEMMA OwnedStays ==
  ASSUME NEW s, NEW next, NEW s2, NEW next2, Follows(s, next, s2, next2),
         NEW snap, OwnedIn(s, next, snap)
  PROVE  OwnedIn(s2, next2, snap)
BY DEF Follows, OwnedIn

LEMMA TaskStays ==
  ASSUME NEW s, NEW next, NEW s2, NEW next2, Follows(s, next, s2, next2),
         NEW r, TaskIn(s, next, r)
  PROVE  TaskIn(s2, next2, r)
BY OwnedStays DEF TaskIn

LEMMA PollOwned == IdsInv => Owned(PollAnswer)
BY DEF IdsInv, Owned, OwnedIn, PollAnswer, Down, Row, Servers

LEMMA ViewNamed ==
  ASSUME NEW snap, NEW place, ViewAnswer(snap, place) # Nil
  PROVE  ViewAnswer(snap, place).name \in Name
BY DEF ViewAnswer, Holder, DetailOf

-----------------------------------------------------------------------------
LEMMA IdsStep ==
  ASSUME IdsInv, DrawnInv, [PaneNext]_paneVars
  PROVE  IdsInv' /\ Follows(server, nextId, server', nextId')
<1> USE DEF IdsInv, Follows
<1>1. CASE UNCHANGED <<server, nextId>>
  BY <1>1 DEF Servers
<1>2. ASSUME NEW t \in Actor, CallServer(t) PROVE IdsInv' /\ Follows(server, nextId, server', nextId')
  <2>1. ASSUME NEW op \in OnServer, NEW n \in Name, server[n] # Nil
        PROVE  \/ Changed(op, task[t].name, n) = Nil
               \/ /\ Changed(op, task[t].name, n) \in Servers
                  /\ Changed(op, task[t].name, n).id = server[n].id
                  /\ Changed(op, task[t].name, n).defs = server[n].defs
    BY <2>1 DEF Changed, OnServer, Servers
  <2>2. CASE UNCHANGED server
    BY <1>2, <1>1, <2>2 DEF CallServer
  <2>3. ASSUME NEW n \in Target(task[t].name),
               server' = [server EXCEPT ![n] = Changed(task[t].op, task[t].name, n)]
        PROVE  IdsInv' /\ Follows(server, nextId, server', nextId')
    <3>1. n \in Name /\ server[n] # Nil /\ task[t].op \in OnServer /\ nextId' = nextId
      BY <1>2, <2>3 DEF Target, Holder, CallServer
    <3> QED BY <2>1, <2>3, <3>1 DEF Servers
  <2> QED BY <1>2, <2>2, <2>3 DEF CallServer
<1>3. ASSUME NEW n, NEW new \in Servers, server[n] = Nil, new.id = nextId, new.defs = 1,
             server' = [server EXCEPT ![n] = new], nextId' = nextId + 1
      PROVE  IdsInv' /\ Follows(server, nextId, server', nextId')
  <2>1. server \in [Name -> Servers \cup {Nil}]
    OBVIOUS
  <2>2. nextId' \in Nat \ {0} /\ server' \in [Name -> Servers \cup {Nil}]
    <3>1. nextId' \in Nat \ {0}
      BY <1>3
    <3>2. server' \in [Name -> Servers \cup {Nil}]
      BY <1>3, <2>1, Zenon
    <3> QED BY <3>1, <3>2
  <2>3. \A m \in Name : server'[m] = IF m = n THEN new ELSE server[m]
    BY <1>3
  <2> QED BY <1>3, <2>2, <2>3 DEF Servers
<1>4. ASSUME NEW n \in Name, Drift(n) PROVE IdsInv' /\ Follows(server, nextId, server', nextId')
  BY <1>4 DEF Drift, Servers
<1>5. ASSUME NEW n \in Name, UninstallElsewhere(n)
      PROVE  IdsInv' /\ Follows(server, nextId, server', nextId')
  BY <1>5 DEF UninstallElsewhere, Servers
<1>6. ASSUME NEW n \in Name, InstallElsewhere(n)
      PROVE  IdsInv' /\ Follows(server, nextId, server', nextId')
  <2>1. Fresh(nextId) \in Servers /\ Fresh(nextId).id = nextId /\ Fresh(nextId).defs = 1
    BY DEF Fresh, Servers
  <2> QED BY <1>3, <1>6, <2>1 DEF InstallElsewhere
<1>7. ASSUME NEW t \in Actor, InstallPlan(t)
      PROVE  IdsInv' /\ Follows(server, nextId, server', nextId')
  <2>1. CASE UNCHANGED <<server, nextId>>
    BY <1>1, <2>1
  <2>2. CASE UNCHANGED planValues /\ server[plan.name] = Nil /\ nextId' = nextId + 1
             /\ server' = [server EXCEPT ![plan.name] = Created(planValues)]
    <3>1. Created(planValues) \in Servers /\ Created(planValues).id = nextId
          /\ Created(planValues).defs = 1
      BY DEF Created, Fresh, Servers, DrawnInv
    <3> QED BY <1>3, <2>2, <3>1
  <2> QED BY <1>7, <2>1, <2>2 DEF InstallPlan, values
<1>8. CASE User \/ Poll \/ DaemonStopsOrStarts \/ UNCHANGED paneVars
  BY <1>1, <1>8 DEF User, Act, Go, AskUninstall, TypeValue, FillPlan, CancelPlan, Poll,
     DaemonStopsOrStarts, paneVars, daemon
<1>9. ASSUME NEW t \in Actor, Search(t) \/ ShowPlan(t) \/ Land(t) \/ Show(t) \/ GoInstalled(t)
                               \/ Viewed(t) \/ ViewedInstalled(t)
      PROVE  IdsInv' /\ Follows(server, nextId, server', nextId')
  BY <1>1, <1>9 DEF Search, ShowPlan, Land, Show, GoInstalled, Viewed, ViewedInstalled, daemon
<1> QED BY <1>2, <1>4, <1>5, <1>6, <1>7, <1>8, <1>9 DEF PaneNext, Step, World, Actor

-----------------------------------------------------------------------------
LEMMA ExceptTodo ==
  ASSUME NEW op, NEW name, NEW todo, NEW got, NEW new
  PROVE  [Started(op, name, todo, got) EXCEPT !.todo = new] = Started(op, name, new, got)
BY DEF Started

LEMMA ExceptGot ==
  ASSUME NEW op, NEW name, NEW todo, NEW got, NEW new
  PROVE  [Started(op, name, todo, got) EXCEPT !.got = new] = Started(op, name, todo, new)
BY DEF Started

LEMMA ExceptName ==
  ASSUME NEW op, NEW name, NEW todo, NEW got, NEW new
  PROVE  [Started(op, name, todo, got) EXCEPT !.name = new] = Started(op, new, todo, got)
BY DEF Started

LEMMA StartedFields ==
  ASSUME NEW op, NEW name, NEW todo, NEW got
  PROVE  /\ Started(op, name, todo, got).op = op /\ Started(op, name, todo, got).name = name
         /\ Started(op, name, todo, got).todo = todo /\ Started(op, name, todo, got).got = got
BY DEF Started

LEMMA TaskIs ==
  ASSUME NEW s, NEW next, NEW op \in Acts \cup {"none", "go", "tick"}, NEW name,
         NEW todo \in Todos, todo # <<>>, NEW got,
         Head(todo) = "fn" /\ op \in OnServer \cup {"plan"} => name \in Name,
         todo \in {Installing, Tail(Installing)} => op = "install",
         Head(todo) = "land" /\ op = "plan" => got \in Name,
         Head(todo) = "land" /\ op = "search" => got \subseteq Name,
         (Head(todo) = "land" /\ op = "install") \/ Head(todo) = "go" => name \in Name,
         Head(todo) \in {"show", "go"} => got.isUp \in BOOLEAN /\ OwnedIn(s, next, got),
         Head(todo) \in {"viewed", "again"} /\ got # Nil => got.name \in Name
  PROVE  TaskIn(s, next, Started(op, name, todo, got))
<1> DEFINE r == Started(op, name, todo, got)
<1>1. r.op = op /\ r.name = name /\ r.todo = todo /\ r.got = got
  BY StartedFields
<1> HIDE DEF r
<1>2. r = Started(r.op, r.name, r.todo, r.got)
  BY <1>1 DEF r
<1> QED BY <1>1, <1>2 DEF TaskIn, Stands, r

LEMMA OneTask ==
  ASSUME TasksInv, Follows(server, nextId, server', nextId'), NEW t \in Actor, NEW r,
         TaskIn(server', nextId', r), task' = [task EXCEPT ![t] = r]
  PROVE  TasksInv'
<1>1. \A u \in Actor : TaskIn(server', nextId', task[u])
  BY TaskStays DEF TasksInv
<1> QED BY <1>1 DEF TasksInv

LEMMA NextIs ==
  ASSUME TasksInv, NEW t \in Actor, NEW got
  PROVE  NextStage(t, got) = [task EXCEPT ![t] = Started(@.op, @.name, Tail(@.todo), got)]
<1> DEFINE r == task[t]
<1>1. PICK op, name, todo, old : r = Started(op, name, todo, old)
  BY DEF TasksInv, TaskIn
<1>2. [[r EXCEPT !.todo = Tail(@)] EXCEPT !.got = got] = Started(r.op, r.name, Tail(r.todo), got)
  <2>1. r.op = op /\ r.name = name /\ r.todo = todo
    BY <1>1, StartedFields
  <2> DEFINE tail == Tail(todo)
  <2> HIDE DEF r, tail
  <2>2. [Started(op, name, todo, old) EXCEPT !.todo = tail] = Started(op, name, tail, old)
    BY ExceptTodo
  <2>3. [Started(op, name, tail, old) EXCEPT !.got = got] = Started(op, name, tail, got)
    BY ExceptGot
  <2>4. [[r EXCEPT !.todo = tail] EXCEPT !.got = got] = Started(r.op, r.name, tail, got)
    BY <1>1, <2>1, <2>2, <2>3
  <2> QED BY <2>1, <2>4 DEF tail
<1>3. task = [u \in Actor |-> task[u]]
  BY DEF TasksInv
<1> QED BY <1>2, <1>3 DEF NextStage

LEMMA NextNamed ==
  ASSUME TasksInv, NEW t \in Actor, NEW got, NEW name
  PROVE  [NextStage(t, got) EXCEPT ![t].name = name]
           = [task EXCEPT ![t] = Started(@.op, name, Tail(@.todo), got)]
<1>1. NextStage(t, got) = [task EXCEPT ![t] = Started(@.op, @.name, Tail(@.todo), got)]
  BY NextIs
<1> DEFINE old == Started(task[t].op, task[t].name, Tail(task[t].todo), got)
           new == Started(task[t].op, name, Tail(task[t].todo), got)
<1>2. [old EXCEPT !.name = name] = new
  BY ExceptName
<1>3. task = [u \in Actor |-> task[u]]
  BY DEF TasksInv
<1>4. NextStage(t, got) = [task EXCEPT ![t] = old]
  BY <1>1, <1>3
<1>5. [task EXCEPT ![t] = Started(@.op, name, Tail(@.todo), got)] = [task EXCEPT ![t] = new]
  BY <1>3
<1> HIDE DEF old, new
<1> QED BY <1>2, <1>3, <1>4, <1>5

\* Where a task stands, it has stages left.
LEMMA Moves ==
  ASSUME TasksInv, NEW t \in Actor, NEW stage, At(t, stage)
  PROVE  /\ Stands(task[t], stage)
         /\ task[t].todo \in Todos /\ task[t].todo # <<>> /\ Head(task[t].todo) = stage
         /\ task[t].op \in Acts \cup {"none", "go", "tick"}
BY DEF TasksInv, TaskIn, At, Idle, Stands

LEMMA ThrownStays ==
  ASSUME TasksInv, Follows(server, nextId, server', nextId'), NEW t \in Actor, task' = Thrown(t)
  PROVE  TasksInv'
<1>1. Rest \in Todos /\ Rest \notin {Installing, Tail(Installing)} /\ Rest # <<>> /\ Head(Rest) = "land"
  BY DEF Todos, Rest, Installing
<1>2. TaskIn(server', nextId', Started("refresh", Nil, Rest, Nil))
  BY <1>1 DEF TaskIn, Started, Stands, Acts, OnServer
<1> QED BY <1>2, OneTask DEF Thrown

LEMMA ActStep ==
  ASSUME PaneInv, Act, Follows(server, nextId, server', nextId')
  PROVE  TasksInv' /\ Owned(snapshot)' /\ DetailInv' /\ DrawnInv'
<1>1. PICK offer \in Offers :
        /\ busy' = offer.op
        /\ task' = [task EXCEPT ![NextTask] = Started(offer.op, offer.name, Stages(offer.op), Nil)]
  BY DEF Act
<1>2. NextTask \in Actor
  BY DEF Act, Free, NextTask, Actor
<1>3. /\ offer.op \in OnServer \cup {"search", "plan", "install"}
      /\ offer.op \in OnServer \cup {"plan"} => offer.name \in Name
  <2>1. CASE InDetail /\ offer \in [op : DetailOffers, name : {detail.name}]
    BY <2>1 DEF InDetail, DetailOffers, PaneInv, DetailInv
  <2>2. CASE offer \in [op : {"search"}, name : {Nil}] \cup [op : {"plan"}, name : browse]
                        \cup [op : {"install"}, name : {Nil}]
    BY <2>2 DEF OnServer, PaneInv, DrawnInv
  <2> QED BY <1>1, <2>1, <2>2 DEF Offers
<1>4. /\ Stages(offer.op) \in Todos /\ Stages(offer.op) # <<>> /\ Head(Stages(offer.op)) = "fn"
      /\ Stages(offer.op) \in {Installing, Tail(Installing)} => offer.op = "install"
  <2>1. CASE offer.op = "install"
    BY <2>1 DEF Stages, Todos
  <2>2. CASE offer.op # "install"
    <3>1. Stages(offer.op) = <<"fn", "land", "show", "viewed">>
      BY <1>3, <2>2, ShortStages DEF Stages, OnServer
    <3>2. <<"fn", "land", "show", "viewed">> \in Todos
      BY ShortStages DEF Todos
    <3>3. <<"fn", "land", "show", "viewed">> \notin {Installing, Tail(Installing)}
      BY DEF Installing
    <3> QED BY <3>1, <3>2, <3>3
  <2> QED BY <2>1, <2>2
<1>5. TaskIn(server', nextId', Started(offer.op, offer.name, Stages(offer.op), Nil))
  BY <1>3, <1>4, StartedFields DEF TaskIn, Stands, Acts
<1>6. TasksInv'
  BY <1>1, <1>2, <1>5, OneTask DEF PaneInv
<1>7. Owned(snapshot)' /\ DetailInv'
  BY OwnedStays DEF Act, PaneInv, Owned, drawn, DetailInv
<1>8. DrawnInv'
  BY <1>1, <1>3 DEF Act, PaneInv, DrawnInv, drawn, daemon, values, Acts
<1> QED BY <1>6, <1>7, <1>8

LEMMA GoStep ==
  ASSUME PaneInv, Go, Follows(server, nextId, server', nextId')
  PROVE  TasksInv' /\ Owned(snapshot)' /\ DetailInv' /\ DrawnInv'
<1>1. PICK place \in Places :
        /\ Moved(place)
        /\ task' = [task EXCEPT ![NextTask] = Started("go", Nil, <<"viewed">>, ViewAnswer(snapshot, place))]
  BY DEF Go
<1>2. NextTask \in Actor
  BY DEF Go, Free, NextTask, Actor
<1>3. /\ <<"viewed">> \in Todos /\ <<"viewed">> # <<>> /\ Head(<<"viewed">>) = "viewed"
      /\ <<"viewed">> \notin {Installing, Tail(Installing)}
  BY DEF Todos, Installing
<1>4. TaskIn(server', nextId', Started("go", Nil, <<"viewed">>, ViewAnswer(snapshot, place)))
  <2> DEFINE got == ViewAnswer(snapshot, place)
  <2>1. got # Nil => got.name \in Name
    BY ViewNamed
  <2> HIDE DEF got
  <2>2. TaskIn(server', nextId', Started("go", Nil, <<"viewed">>, got))
    BY <1>3, <2>1, TaskIs
  <2> QED BY <2>2 DEF got
<1>5. TasksInv'
  BY <1>1, <1>2, <1>4, OneTask DEF PaneInv
<1>6. Owned(snapshot)' /\ DetailInv'
  BY OwnedStays DEF Go, PaneInv, Owned, DetailInv
<1>7. DrawnInv'
  BY <1>1 DEF Go, Moved, Places, PaneInv, DrawnInv, daemon, Tabs
<1> QED BY <1>5, <1>6, <1>7

\* The steps of the user that start no task.
LEMMA TypingStep ==
  ASSUME PaneInv, AskUninstall \/ TypeValue \/ FillPlan \/ CancelPlan
  PROVE  TasksInv' /\ Owned(snapshot)' /\ DetailInv' /\ DrawnInv'
<1>1. UNCHANGED <<server, nextId, up, snapshot, detail, reviewed, task, route, browse, busy>>
  BY DEF AskUninstall, TypeValue, FillPlan, CancelPlan, daemon, drawn, values
<1>2. TasksInv' /\ Owned(snapshot)' /\ DetailInv'
  BY <1>1 DEF PaneInv, TasksInv, Owned, DetailInv
<1>3. CASE AskUninstall
  BY <1>1, <1>2, <1>3 DEF AskUninstall, PaneInv, DrawnInv, DetailInv, values, InDetail
<1>4. CASE TypeValue
  BY <1>1, <1>2, <1>4 DEF TypeValue, InPlan, PaneInv, DrawnInv, drawn
<1>5. CASE FillPlan
  BY <1>1, <1>2, <1>5 DEF FillPlan, InPlan, PaneInv, DrawnInv
<1>6. CASE CancelPlan
  BY <1>1, <1>2, <1>6 DEF CancelPlan, PaneInv, DrawnInv
<1> QED BY <1>2, <1>3, <1>4, <1>5, <1>6

LEMMA WorldStep ==
  ASSUME PaneInv, World \/ UNCHANGED paneVars, Follows(server, nextId, server', nextId')
  PROVE  TasksInv' /\ Owned(snapshot)' /\ DetailInv' /\ DrawnInv'
<1>1. UNCHANGED <<drawn, values, busy, task, reviewed>> /\ up' \in BOOLEAN
  BY DEF World, Drift, InstallElsewhere, UninstallElsewhere, DaemonStopsOrStarts, paneVars, daemon,
     PaneInv, DrawnInv
<1>2. TasksInv'
  BY <1>1, TaskStays DEF PaneInv, TasksInv
<1>3. Owned(snapshot)' /\ DetailInv' /\ DrawnInv'
  BY <1>1, OwnedStays DEF PaneInv, Owned, DetailInv, DrawnInv, drawn, values
<1> QED BY <1>2, <1>3

LEMMA PollStep ==
  ASSUME PaneInv, Poll, Follows(server, nextId, server', nextId')
  PROVE  TasksInv' /\ Owned(snapshot)' /\ DetailInv' /\ DrawnInv'
<1>1. UNCHANGED <<daemon, drawn, values, busy, reviewed>>
  BY DEF Poll
<1>2. PollAnswer.isUp \in BOOLEAN /\ OwnedIn(server', nextId', PollAnswer)
  BY <1>1, PollOwned DEF PaneInv, Owned, PollAnswer, Down, daemon
<1>3. /\ <<"show", "viewed">> \in Todos /\ <<"show", "viewed">> # <<>>
      /\ Head(<<"show", "viewed">>) = "show"
      /\ <<"show", "viewed">> \notin {Installing, Tail(Installing)}
  BY DEF Todos, Installing
<1>4. TaskIn(server', nextId', Started("tick", Nil, <<"show", "viewed">>, PollAnswer))
  BY <1>2, <1>3, TaskIs
<1>5. TasksInv'
  BY <1>4, OneTask DEF Poll, PaneInv, Actor
<1> QED BY <1>1, <1>5 DEF PaneInv, Owned, DetailInv, DrawnInv, daemon, drawn, values

\* What a step has to leave behind for the task that takes it.
LEMMA StepTo ==
  ASSUME PaneInv, Follows(server, nextId, server', nextId'), NEW t \in Actor, NEW stage, At(t, stage),
         NEW name, NEW got,
         task' = [task EXCEPT ![t] = Started(@.op, name, Tail(@.todo), got)],
         stage \in {"fn", "land", "go", "again", "show"},
         LET op == task[t].op  head == Head(Tail(task[t].todo)) IN
           /\ head = "land" /\ op = "plan" => got \in Name
           /\ head = "land" /\ op = "search" => got \subseteq Name
           /\ (head = "land" /\ op = "install") \/ head = "go" => name \in Name
           /\ head \in {"show", "go"} => got.isUp \in BOOLEAN /\ OwnedIn(server', nextId', got)
           /\ head \in {"viewed", "again"} /\ got # Nil => got.name \in Name
  PROVE  TasksInv'
<1> DEFINE todo == task[t].todo  op == task[t].op
<1>1. /\ todo \in Todos /\ todo # <<>> /\ Head(todo) = stage
      /\ op \in Acts \cup {"none", "go", "tick"}
      /\ todo \in {Installing, Tail(Installing)} => op = "install"
  BY Moves DEF PaneInv, TasksInv, TaskIn
<1>2. /\ Tail(todo) \in Todos /\ Tail(todo) # <<>> /\ Head(Tail(todo)) # "fn"
      /\ Tail(todo) \in {Installing, Tail(Installing)} => op = "install"
  BY <1>1, StageOrder
<1> DEFINE rest == Tail(todo)
<1> HIDE DEF todo, op, rest
<1>3. TaskIn(server', nextId', Started(op, name, rest, got))
  BY <1>1, <1>2, TaskIs DEF todo, op, rest
<1> QED BY <1>3, OneTask DEF PaneInv, todo, op, rest

LEMMA CallServerStep ==
  ASSUME PaneInv, Follows(server, nextId, server', nextId'), NEW t \in Actor, CallServer(t)
  PROVE  TasksInv' /\ Owned(snapshot)' /\ DetailInv' /\ DrawnInv'
<1>1. At(t, "fn") /\ task[t].op \in OnServer /\ UNCHANGED <<nextId, up, drawn, values, busy, reviewed>>
  BY DEF CallServer
<1>2. TasksInv'
  <2>1. CASE task' = Thrown(t)
    BY <2>1, ThrownStays DEF PaneInv
  <2>2. CASE task' = NextStage(t, task[t].op)
    <3>1. Head(Tail(task[t].todo)) = "land"
      BY <1>1, Moves, StageOrder DEF PaneInv
    <3>2. task' = [task EXCEPT ![t] = Started(@.op, @.name, Tail(@.todo), task[t].op)]
      BY <2>2, NextIs DEF PaneInv
    <3> QED BY <1>1, <3>1, <3>2, StepTo DEF OnServer
  <2> QED BY <2>1, <2>2 DEF CallServer
<1> QED BY <1>1, <1>2, OwnedStays DEF PaneInv, Owned, DetailInv, DrawnInv, drawn, values

LEMMA SearchStep ==
  ASSUME PaneInv, Follows(server, nextId, server', nextId'), NEW t \in Actor, Search(t)
  PROVE  TasksInv' /\ Owned(snapshot)' /\ DetailInv' /\ DrawnInv'
<1>1. At(t, "fn") /\ task[t].op = "search" /\ UNCHANGED <<snapshot, detail, reviewed>>
  BY DEF Search
<1>2. TasksInv'
  <2> DEFINE got == {n \in Name : snapshot.rows[n] = Nil}
  <2>1. Head(Tail(task[t].todo)) = "land"
    BY <1>1, Moves, StageOrder DEF PaneInv
  <2>2. got \subseteq Name /\ task' = NextStage(t, got)
    BY DEF Search
  <2> HIDE DEF got
  <2>3. task' = [task EXCEPT ![t] = Started(@.op, @.name, Tail(@.todo), got)]
    BY <2>2, NextIs DEF PaneInv
  <2> QED BY <1>1, <2>1, <2>2, <2>3, StepTo
<1>3. DrawnInv'
  BY DEF Search, PaneInv, DrawnInv, daemon, values
<1> QED BY <1>1, <1>2, <1>3, OwnedStays DEF PaneInv, Owned, DetailInv

LEMMA ShowPlanStep ==
  ASSUME PaneInv, Follows(server, nextId, server', nextId'), NEW t \in Actor, ShowPlan(t)
  PROVE  TasksInv' /\ Owned(snapshot)' /\ DetailInv' /\ DrawnInv'
<1>1. /\ At(t, "fn") /\ task[t].op = "plan" /\ UNCHANGED <<daemon, drawn, typed, busy, reviewed>>
      /\ planValues' = Nil
  BY DEF ShowPlan
<1>2. TasksInv'
  <2>1. CASE task' = Thrown(t)
    BY <2>1, ThrownStays DEF PaneInv
  <2>2. CASE task' = NextStage(t, task[t].name)
    <3>1. Head(Tail(task[t].todo)) = "land"
      BY <1>1, Moves, StageOrder DEF PaneInv
    <3>2. task[t].name \in Name
      BY <1>1, Moves DEF PaneInv, TasksInv, TaskIn
    <3>3. task' = [task EXCEPT ![t] = Started(@.op, @.name, Tail(@.todo), task[t].name)]
      BY <2>2, NextIs DEF PaneInv
    <3> QED BY <1>1, <3>1, <3>2, <3>3, StepTo
  <2> QED BY <2>1, <2>2 DEF ShowPlan
<1> QED BY <1>1, <1>2, OwnedStays DEF PaneInv, Owned, DetailInv, DrawnInv, drawn, daemon

LEMMA InstallPlanStep ==
  ASSUME PaneInv, Follows(server, nextId, server', nextId'), NEW t \in Actor, InstallPlan(t)
  PROVE  TasksInv' /\ Owned(snapshot)' /\ DetailInv' /\ DrawnInv'
<1>1. At(t, "fn") /\ task[t].op = "install" /\ UNCHANGED <<up, drawn, values, busy, reviewed>>
  BY DEF InstallPlan
<1>2. TasksInv'
  <2>1. CASE task' = Thrown(t)
    BY <2>1, ThrownStays DEF PaneInv
  <2>2. CASE plan # Nil /\ task' = [NextStage(t, Nil) EXCEPT ![t].name = plan.name]
    <3>1. Head(Tail(task[t].todo)) = "land"
      BY <1>1, Moves, StageOrder DEF PaneInv
    <3>2. plan.name \in Name
      BY <2>2 DEF PaneInv, DrawnInv
    <3> DEFINE name == plan.name
    <3>3. name \in Name /\ task' = [NextStage(t, Nil) EXCEPT ![t].name = name]
      BY <2>2, <3>2
    <3> HIDE DEF name
    <3>4. task' = [task EXCEPT ![t] = Started(@.op, name, Tail(@.todo), Nil)]
      BY <3>3, NextNamed DEF PaneInv
    <3> DEFINE got == Nil
    <3>5. task' = [task EXCEPT ![t] = Started(@.op, name, Tail(@.todo), got)]
      BY <3>4
    <3> HIDE DEF got
    <3>6. LET op == task[t].op  head == Head(Tail(task[t].todo)) IN
           /\ op = "install" /\ head = "land"
           /\ head = "land" /\ op = "plan" => got \in Name
           /\ head = "land" /\ op = "search" => got \subseteq Name
           /\ (head = "land" /\ op = "install") \/ head = "go" => name \in Name
           /\ head \in {"show", "go"} => got.isUp \in BOOLEAN /\ OwnedIn(server', nextId', got)
           /\ head \in {"viewed", "again"} /\ got # Nil => got.name \in Name
      BY <1>1, <3>1, <3>3
    <3> QED BY <1>1, <3>5, <3>6, StepTo
  <2> QED BY <2>1, <2>2 DEF InstallPlan
<1> QED BY <1>1, <1>2, OwnedStays DEF PaneInv, Owned, DetailInv, DrawnInv, drawn, values

LEMMA LandStep ==
  ASSUME PaneInv, Follows(server, nextId, server', nextId'), NEW t \in Actor, Land(t)
  PROVE  TasksInv' /\ Owned(snapshot)' /\ DetailInv' /\ DrawnInv'
<1>1. At(t, "land") /\ task' = NextStage(t, PollAnswer)
      /\ UNCHANGED <<daemon, snapshot, typed, reviewed>>
  BY DEF Land
<1>2. TasksInv'
  <2>1. PollAnswer.isUp \in BOOLEAN /\ OwnedIn(server', nextId', PollAnswer)
    BY <1>1, PollOwned DEF PaneInv, Owned, PollAnswer, Down, daemon
  <2>2. /\ task[t].todo \in Todos /\ task[t].todo # <<>> /\ Head(task[t].todo) = "land"
        /\ task[t].todo \in {Installing, Tail(Installing)} => task[t].op = "install"
        /\ task[t].op = "install" => task[t].name \in Name
    BY <1>1, Moves DEF PaneInv, TasksInv, TaskIn
  <2>3. /\ Head(Tail(task[t].todo)) \in {"show", "go"}
        /\ Head(Tail(task[t].todo)) = "go" => task[t].name \in Name
    BY <2>2, StageOrder
  <2> DEFINE got == PollAnswer
  <2>4. task' = NextStage(t, got) /\ got.isUp \in BOOLEAN /\ OwnedIn(server', nextId', got)
    BY <1>1, <2>1
  <2> HIDE DEF got
  <2>5. task' = [task EXCEPT ![t] = Started(@.op, @.name, Tail(@.todo), got)]
    BY <2>4, NextIs DEF PaneInv
  <2>6. task' = [task EXCEPT ![t] = Started(@.op, task[t].name, Tail(@.todo), got)]
    BY <2>5
  <2> QED BY <1>1, <2>3, <2>4, <2>6, StepTo
<1>3. /\ task[t].op = "plan" => task[t].got \in Name
      /\ task[t].op = "search" => task[t].got \subseteq Name
  BY <1>1, Moves DEF PaneInv, TasksInv, TaskIn
<1>4. DrawnInv'
  BY <1>1, <1>3 DEF Land, ShownPlan, PaneInv, DrawnInv, daemon, Tabs
<1>5. DetailInv'
  BY <1>1 DEF Land, PaneInv, DetailInv
<1> QED BY <1>1, <1>2, <1>4, <1>5, OwnedStays DEF PaneInv, Owned

LEMMA ShowStep ==
  ASSUME PaneInv, Follows(server, nextId, server', nextId'), NEW t \in Actor, Show(t)
  PROVE  TasksInv' /\ Owned(snapshot)' /\ DetailInv' /\ DrawnInv'
<1>1. /\ At(t, "show") /\ snapshot' = task[t].got /\ task' = NextStage(t, ViewAnswer(task[t].got, route))
      /\ UNCHANGED <<daemon, route, detail, confirm, browse, plan, values, busy, reviewed>>
  BY DEF Show
<1>2. task[t].got.isUp \in BOOLEAN /\ OwnedIn(server, nextId, task[t].got)
  BY <1>1, Moves DEF PaneInv, TasksInv, TaskIn
<1>3. TasksInv'
  <2> DEFINE got == ViewAnswer(task[t].got, route)
  <2>1. got # Nil => got.name \in Name
    BY ViewNamed
  <2>2. Head(Tail(task[t].todo)) = "viewed"
    BY <1>1, Moves, StageOrder DEF PaneInv
  <2>3. task' = NextStage(t, got)
    BY <1>1
  <2> HIDE DEF got
  <2>4. task' = [task EXCEPT ![t] = Started(@.op, @.name, Tail(@.todo), got)]
    BY <2>3, NextIs DEF PaneInv
  <2> QED BY <1>1, <2>1, <2>2, <2>4, StepTo
<1> QED BY <1>1, <1>2, <1>3, OwnedStays DEF PaneInv, Owned, DetailInv, DrawnInv, daemon, values

LEMMA GoInstalledStep ==
  ASSUME PaneInv, Follows(server, nextId, server', nextId'), NEW t \in Actor, GoInstalled(t)
  PROVE  TasksInv' /\ Owned(snapshot)' /\ DetailInv' /\ DrawnInv'
<1> DEFINE got == ViewAnswer(task[t].got, route')
<1>1. /\ At(t, "go") /\ snapshot' = task[t].got /\ task' = NextStage(t, got)
      /\ Moved([tab |-> "servers", server |-> task[t].name])
      /\ UNCHANGED <<daemon, detail, browse, plan, planValues, busy, reviewed>>
  BY DEF GoInstalled
<1>2. /\ task[t].got.isUp \in BOOLEAN /\ OwnedIn(server, nextId, task[t].got)
      /\ task[t].name \in Name
  BY <1>1, Moves DEF PaneInv, TasksInv, TaskIn
<1>3. TasksInv'
  <2>1. got # Nil => got.name \in Name
    BY ViewNamed
  <2>2. Head(Tail(task[t].todo)) = "again"
    BY <1>1, Moves, StageOrder DEF PaneInv
  <2> HIDE DEF got
  <2>3. task' = [task EXCEPT ![t] = Started(@.op, @.name, Tail(@.todo), got)]
    BY <1>1, NextIs DEF PaneInv
  <2> QED BY <1>1, <2>1, <2>2, <2>3, StepTo
<1>4. DrawnInv'
  BY <1>1, <1>2 DEF Moved, PaneInv, DrawnInv, daemon, Tabs
<1> QED BY <1>1, <1>2, <1>3, <1>4, OwnedStays DEF PaneInv, Owned, DetailInv

\* A detail that is written was shown.
LEMMA WrittenShown ==
  ASSUME DetailInv, NEW got, Written(got), got # Nil => got.name \in Name
  PROVE  DetailInv'
<1>1. CASE got = Nil
  BY <1>1 DEF Written, DetailInv
<1>2. CASE got # Nil
  <2>1. /\ detail' = got /\ reviewed' = [reviewed EXCEPT ![got.name] = @ \cup {got.defs}]
        /\ got.name \in Name
    BY <1>2 DEF Written, LandedDetail
  <2>2. reviewed' = [n \in Name |-> reviewed'[n]] /\ got.defs \in reviewed'[got.name]
    BY <2>1 DEF DetailInv
  <2> QED BY <2>1, <2>2 DEF DetailInv
<1> QED BY <1>1, <1>2

LEMMA ViewedStep ==
  ASSUME PaneInv, Follows(server, nextId, server', nextId'), NEW t \in Actor, Viewed(t)
  PROVE  TasksInv' /\ Owned(snapshot)' /\ DetailInv' /\ DrawnInv'
<1>1. /\ At(t, "viewed") /\ Written(task[t].got) /\ task' = [task EXCEPT ![t] = Done]
      /\ UNCHANGED <<daemon, snapshot, route, confirm, browse, plan, values, busy>>
  BY DEF Viewed
<1>2. task[t].got # Nil => task[t].got.name \in Name
  BY <1>1, Moves DEF PaneInv, TasksInv, TaskIn
<1>3. TaskIn(server', nextId', Done)
  <2>1. <<>> \in Todos /\ <<>> \notin {Installing, Tail(Installing)}
    BY DEF Todos, Installing
  <2> QED BY <2>1, StartedFields DEF TaskIn, Done, Stands
<1>4. TasksInv'
  BY <1>1, <1>3, OneTask DEF PaneInv
<1>5. DetailInv'
  BY <1>1, <1>2, WrittenShown DEF PaneInv
<1> QED BY <1>1, <1>4, <1>5, OwnedStays DEF PaneInv, Owned, DrawnInv, daemon, values

LEMMA ViewedInstalledStep ==
  ASSUME PaneInv, Follows(server, nextId, server', nextId'), NEW t \in Actor, ViewedInstalled(t)
  PROVE  TasksInv' /\ Owned(snapshot)' /\ DetailInv' /\ DrawnInv'
<1>1. /\ At(t, "again") /\ Written(task[t].got) /\ busy' = Nil /\ task' = NextStage(t, PollAnswer)
      /\ UNCHANGED <<daemon, snapshot, route, confirm, browse, plan, values>>
  BY DEF ViewedInstalled
<1>2. task[t].got # Nil => task[t].got.name \in Name
  BY <1>1, Moves DEF PaneInv, TasksInv, TaskIn
<1>3. TasksInv'
  <2>1. PollAnswer.isUp \in BOOLEAN /\ OwnedIn(server', nextId', PollAnswer)
    BY <1>1, PollOwned DEF PaneInv, Owned, PollAnswer, Down, daemon
  <2>2. Head(Tail(task[t].todo)) = "show"
    BY <1>1, Moves, StageOrder DEF PaneInv
  <2> DEFINE got == PollAnswer
  <2>3. task' = NextStage(t, got) /\ got.isUp \in BOOLEAN /\ OwnedIn(server', nextId', got)
    BY <1>1, <2>1
  <2> HIDE DEF got
  <2>4. task' = [task EXCEPT ![t] = Started(@.op, @.name, Tail(@.todo), got)]
    BY <2>3, NextIs DEF PaneInv
  <2> QED BY <1>1, <2>2, <2>3, <2>4, StepTo
<1>4. DetailInv'
  BY <1>1, <1>2, WrittenShown DEF PaneInv
<1> QED BY <1>1, <1>3, <1>4, OwnedStays DEF PaneInv, Owned, DrawnInv, daemon, values

LEMMA ExceptDefs ==
  ASSUME NEW s \in Servers, NEW d \in Nat
  PROVE  [s EXCEPT !.defs = d] \in Servers
BY DEF Servers

LEMMA PaneStarts == PaneInit => PaneInv
<1> SUFFICES ASSUME PaneInit PROVE PaneInv
  OBVIOUS
<1> DEFINE one == CHOOSE m \in Name : TRUE
           other == CHOOSE m \in Name : m # one \/ Name = {one}
<1>1. one \in Name
  BY ClockAssumption
<1>2. IdsInv
  <2>1. ASSUME NEW d \in {1, 2} PROVE [Fresh(1) EXCEPT !.defs = d] \in Servers
    <3> DEFINE fresh == Fresh(1)
    <3>1. fresh \in Servers
      BY DEF Fresh, Servers
    <3> HIDE DEF fresh
    <3>2. d \in Nat
      OBVIOUS
    <3>3. [fresh EXCEPT !.defs = d] \in Servers
      BY <3>1, <3>2, ExceptDefs
    <3> QED BY <3>3 DEF fresh
  <2>2. /\ Fresh(1) \in Servers /\ Fresh(1).id = 1 /\ Fresh(1).defs = 1
        /\ Fresh(2) \in Servers /\ Fresh(2).id = 2 /\ Fresh(2).defs = 1
        /\ \A d \in {1, 2} : [Fresh(1) EXCEPT !.defs = d].id = 1 /\ [Fresh(1) EXCEPT !.defs = d].defs = d
    BY DEF Servers, Fresh
  <2> HIDE DEF one, other
  <2>3. PICK s \in Servers, o \in Servers \cup {Nil} :
          /\ server = [m \in Name |-> CASE m = one -> s [] m = other /\ m # one -> o [] OTHER -> Nil]
          /\ s.id = 1 /\ s.defs \in {1, 2}
          /\ o # Nil => o.id = 2 /\ o.defs = 1
    <3> DEFINE installed(s, o) == [m \in Name |-> CASE m = one -> s [] m = other /\ m # one -> o [] OTHER -> Nil]
    <3>1. \/ server = installed(Fresh(1), Nil)
          \/ \E defs \in {1, 2} : server = installed([Fresh(1) EXCEPT !.defs = defs], Fresh(2))
      BY DEF PaneInit, one, other
    <3>2. CASE server = installed(Fresh(1), Nil)
      <4>1. Fresh(1) \in Servers /\ Nil \in Servers \cup {Nil}
        BY <2>2
      <4> QED BY <2>2, <3>2, <4>1
    <3>3. ASSUME NEW d \in {1, 2}, server = installed([Fresh(1) EXCEPT !.defs = d], Fresh(2))
          PROVE  \E s \in Servers, o \in Servers \cup {Nil} :
                   server = installed(s, o) /\ s.id = 1 /\ s.defs \in {1, 2} /\ (o # Nil => o.id = 2 /\ o.defs = 1)
      <4> DEFINE s == [Fresh(1) EXCEPT !.defs = d]  o == Fresh(2)
      <4>1. s \in Servers /\ s.id = 1 /\ s.defs \in {1, 2} /\ o \in Servers \cup {Nil} /\ o.id = 2 /\ o.defs = 1
        BY <2>1, <2>2
      <4>2. server = installed(s, o)
        BY <3>3
      <4> HIDE DEF s, o, installed
      <4> QED BY <4>1, <4>2
    <3> QED BY <3>1, <3>2, <3>3
  <2>4. \A m \in Name : server[m] = IF m = one THEN s ELSE IF m = other THEN o ELSE Nil
    BY <2>3
  <2>5. server \in [Name -> Servers \cup {Nil}]
    BY <2>3, <2>4
  <2>6. nextId = 3
    BY DEF PaneInit
  <2> QED BY <2>3, <2>4, <2>5, <2>6 DEF IdsInv
<1>3. Owned(snapshot)
  BY <1>2, PollOwned DEF PaneInit
<1>4. TasksInv
  <2>1. <<>> \in Todos /\ <<>> \notin {Installing, Tail(Installing)}
    BY DEF Todos, Installing
  <2>2. TaskIn(server, nextId, Done)
    BY <2>1, StartedFields DEF TaskIn, Done, Stands
  <2> QED BY <2>2 DEF PaneInit, TasksInv, Actor
<1>5. DetailInv
  BY <1>1 DEF PaneInit, DetailInv, DetailOf
<1>6. DrawnInv
  BY <1>1 DEF PaneInit, DrawnInv, PollAnswer, Tabs
<1> QED BY <1>2, <1>3, <1>4, <1>5, <1>6 DEF PaneInv

LEMMA PaneStays == PaneInv /\ [PaneNext]_paneVars => PaneInv'
<1> SUFFICES ASSUME PaneInv, [PaneNext]_paneVars PROVE PaneInv'
  OBVIOUS
<1>1. IdsInv' /\ Follows(server, nextId, server', nextId')
  BY IdsStep DEF PaneInv
<1>2. CASE Act
  BY <1>1, <1>2, ActStep DEF PaneInv
<1>3. CASE Go
  BY <1>1, <1>3, GoStep DEF PaneInv
<1>4. CASE AskUninstall \/ TypeValue \/ FillPlan \/ CancelPlan
  BY <1>1, <1>4, TypingStep DEF PaneInv
<1>5. CASE World \/ UNCHANGED paneVars
  BY <1>1, <1>5, WorldStep DEF PaneInv
<1>6. CASE Poll
  BY <1>1, <1>6, PollStep DEF PaneInv
<1>7. ASSUME NEW t \in Actor, Step(t) PROVE PaneInv'
  <2>1. TasksInv' /\ Owned(snapshot)' /\ DetailInv' /\ DrawnInv'
    BY <1>1, <1>7, CallServerStep, SearchStep, ShowPlanStep, InstallPlanStep, LandStep, ShowStep,
       GoInstalledStep, ViewedStep, ViewedInstalledStep DEF Step
  <2> QED BY <1>1, <2>1 DEF PaneInv
<1> QED BY <1>2, <1>3, <1>4, <1>5, <1>6, <1>7 DEF PaneNext, User, Actor

\* The atoms of the pane are what the view draws them as, and an id is one
\* server's, with any number of servers and presses at once (register.tsx).
THEOREM PaneTypeCorrect == PaneSpec => []PaneTypeOK
<1> QED BY PaneStarts, PaneStays, PaneTyped, PTL DEF PaneSpec

\* Who has the id a task acts on is the server it names.
LEMMA ActsOnNamed ==
  ASSUME PaneInv, NEW t \in Actor, At(t, "fn"), task[t].op \in OnServer, NEW n \in Target(task[t].name)
  PROVE  n = task[t].name
<1>1. task[t].name \in Name
  BY Moves DEF PaneInv, TasksInv, TaskIn
<1>2. n \in Name /\ server[n] # Nil /\ server[n].id = ServerId(snapshot, task[t].name)
  BY DEF Target, Holder
<1>3. server[n].id # 0
  BY <1>2 DEF PaneInv, IdsInv
<1> QED BY <1>1, <1>2, <1>3 DEF ServerId, PaneInv, Owned, OwnedIn

LEMMA ActsOnNamedStep ==
  PaneInv /\ [PaneNext]_paneVars =>
    [\A t \in Task : \A n \in Name :
       CallServer(t) /\ server'[n] # server[n] => n = task[t].name]_paneVars
<1> SUFFICES ASSUME PaneInv, NEW t \in Task, NEW n \in Name, CallServer(t), server'[n] # server[n]
             PROVE  n = task[t].name
  OBVIOUS
<1>1. PICK m \in Target(task[t].name) :
        server' = [server EXCEPT ![m] = Changed(task[t].op, task[t].name, m)]
  BY DEF CallServer
<1>2. n = m /\ n \in Target(task[t].name)
  BY <1>1 DEF PaneInv, IdsInv
<1> QED BY <1>2, ActsOnNamed DEF CallServer, Actor

\* What a press changes is the server it named, whatever other tasks, the poll and
\* other clients did since: the snapshot it takes the id from gives no other's
\* (serverId in register.tsx, byId in http.ts).
THEOREM ActsOnNamedCorrect == PaneSpec => ActsOnServerNamed
<1> QED BY PaneStarts, PaneStays, ActsOnNamedStep, PTL DEF PaneSpec, ActsOnServerNamed

LEMMA ApprovedShownStep ==
  PaneInv /\ [PaneNext]_paneVars =>
    [\A n \in Name : server[n] # Nil /\ server'[n] # Nil /\ server'[n].pins # server[n].pins
                      /\ server'[n].id = server[n].id
       => server'[n].pins \in reviewed[n]]_paneVars
<1> SUFFICES ASSUME PaneInv, PaneNext, NEW n \in Name, server[n] # Nil, server'[n] # Nil,
                    server'[n].pins # server[n].pins, server'[n].id = server[n].id
             PROVE  server'[n].pins \in reviewed[n]
  OBVIOUS
<1>1. server \in [Name -> Servers \cup {Nil}] /\ server[n] \in Servers
  BY DEF PaneInv, IdsInv
<1>2. server' # server
  OBVIOUS
<1>3. ~(World \/ UNCHANGED server)
  BY <1>1, <1>2 DEF World, Drift, InstallElsewhere, UninstallElsewhere, DaemonStopsOrStarts, Servers
<1>4. PICK t \in Actor : CallServer(t) \/ InstallPlan(t)
  BY <1>2, <1>3 DEF PaneNext, User, Act, Go, AskUninstall, TypeValue, FillPlan, CancelPlan, Poll, Step,
     Search, ShowPlan, Land, Show, GoInstalled, Viewed, ViewedInstalled, daemon, Actor
<1>5. ~InstallPlan(t)
  BY <1>1, <1>2 DEF InstallPlan
<1>6. PICK m \in Target(task[t].name) :
        /\ server' = [server EXCEPT ![m] = Changed(task[t].op, task[t].name, m)]
        /\ Granted(task[t].op, task[t].name, m) /\ task[t].op \in OnServer
  BY <1>2, <1>4, <1>5 DEF CallServer
<1>7. m = n /\ server'[n] = Changed(task[t].op, task[t].name, n)
  BY <1>1, <1>6
<1>8. task[t].op = "approve" /\ server'[n].pins = server[n].defs
  BY <1>1, <1>6, <1>7 DEF Changed, OnServer, Servers
<1>9. n = task[t].name
  BY <1>4, <1>5, <1>6, <1>7, ActsOnNamed DEF CallServer
<1>10. Hashes(n, n) = server[n].defs /\ server[n].defs # 0
  BY <1>6, <1>7, <1>8, <1>9 DEF Granted, PaneInv, IdsInv
<1> QED BY <1>8, <1>10 DEF Hashes, PaneInv, DetailInv

\* An approval pins only definitions the pane has shown of that server: the hashes
\* sent are those of a detail that was written, and those the daemon has (approve).
THEOREM ApprovedShownCorrect == PaneSpec => ApprovedWasShown
<1> QED BY PaneStarts, PaneStays, ApprovedShownStep, PTL DEF PaneSpec, ApprovedWasShown
=============================================================================
