-------------------------- MODULE MCLinearDataflow --------------------------
(* Instances of LinearDataflow for TLC. *)
EXTENDS LinearDataflow

CONSTANTS a, b, c

Ins(r) == [row |-> r, w |-> 1]
Del(r) == [row |-> r, w |-> -1]

\* WHERE row <> c, then an expression that maps a and b to one value.
Identity == [r \in Rows |-> r]
FilterPlan == <<[keep |-> Rows \ {c}, image |-> Identity]>>
ProjectPlan == <<[keep |-> Rows, image |-> [r \in Rows |-> IF r = b THEN a ELSE r]]>>
FilterProjectPlan == FilterPlan \o ProjectPlan

\* Insertions, an update across the filter, a deletion, a transaction on other
\* tables, a row that one transaction inserts and deletes.
MCTxns ==
    { <<>>, <<Ins(a), Ins(c), Ins(a)>>, <<Del(a), Ins(b)>>, <<Ins(b), Del(b), Ins(b)>> }

\* Every transaction is on this source, and retracts no row it inserts.
FewTxns == { <<Ins(a), Ins(c), Ins(b)>>, <<Del(a), Ins(b)>> }

\* The cases outside the claim of no failing stage: INSERT and DELETE of one row
\* in one transaction; transactions on other sources in between.
SameTxn == { <<Ins(a), Del(a)>> }
OtherSource == { <<Ins(a)>>, <<>> }
=============================================================================
