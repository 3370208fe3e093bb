-------------------------- MODULE MCRegistryMirror --------------------------
(* A small instance of RegistryMirror for TLC. *)
EXTENDS RegistryMirror, SequencesExt

\* UpsertAll against Upsert of one entry after the other, in the order of the
\* versions, for one name: every row, and every page of up to three versions of
\* which the last may be the latest.
Entries == [name : {1}, version : 1..3, status : {"active", "deleted"}, updated : {1}, latest : BOOLEAN]
Pages == {p \in SUBSET Entries :
            /\ \A e, f \in p : e.version = f.version => e = f
            /\ \A e, f \in p : e.latest /\ f # e => f.version < e.version}
Rows == {NoRow} \cup [version : 1..3, status : {"active"}, updated : {1}, latest : BOOLEAN]
InOrder(p) == SetToSortSeq(p, LAMBDA e, f : e.version < f.version)

ASSUME OneByOne ==
  \A row \in Rows : \A p \in Pages :
    LET m == [n \in Name |-> IF n = 1 THEN row ELSE NoRow]
    IN  UpsertAll(m, p) = FoldLeft(Upsert, m, InOrder(p))
=============================================================================
