------------------------------- MODULE Vault -------------------------------
(***************************************************************************)
(* What the secrets service promises, whatever store holds the values: the *)
(* value of an account changes only while somebody sets or removes that    *)
(* account, and then becomes what was asked for.  An account whose write   *)
(* is under way, or was cut short and never repeated, promises nothing.    *)
(* Whoever reads an account gets its value, or nothing while the store     *)
(* that has it is out of reach.  SecretStore is shown to implement this.   *)
(***************************************************************************)
CONSTANTS Account, Value, None, Settled

VARIABLES value,    \* value[a]: the secret filed under a, None when there is none
          wanted,   \* wanted[a]: what an unfinished write wants there, else Settled
          read      \* read[a]: what a reader of a gets now

vars == <<value, wanted, read>>

TypeOK == /\ value \in [Account -> Value \cup {None}]
          /\ wanted \in [Account -> Value \cup {None, Settled}]
          /\ read \in [Account -> Value \cup {None}]

Init == /\ value \in [Account -> Value \cup {None}]
        /\ wanted = [a \in Account |-> Settled]
        /\ read = [a \in Account |-> None]

\* A write of the accounts in S starts: want[a] is the value, or None to remove it.
Begin(S, want) ==
  /\ wanted' = [a \in Account |-> IF a \in S THEN want[a] ELSE wanted[a]]
  /\ value' = [a \in Account |-> IF a \in S THEN None ELSE value[a]]

Finish(a) == /\ wanted[a] # Settled
             /\ value' = [value EXCEPT ![a] = wanted[a]]
             /\ wanted' = [wanted EXCEPT ![a] = Settled]

\* A write that is done at once.
Write(a, v) == /\ value' = [value EXCEPT ![a] = v]
               /\ wanted' = [wanted EXCEPT ![a] = Settled]

\* Only what can be read changes: a store comes within reach, or leaves it.
Reach == UNCHANGED <<value, wanted>>

\* Nobody ever reads anything else.
ReadsValues == \A a \in Account : read'[a] \in {None, value'[a]}

Change == \/ \E S \in SUBSET Account : \E want \in [S -> Value \cup {None}] : Begin(S, want)
          \/ \E a \in Account : Finish(a)
          \/ \E a \in Account : \E v \in Value : Write(a, v)
          \/ Reach

Next == Change /\ ReadsValues

Spec == Init /\ [][Next]_vars
=============================================================================
