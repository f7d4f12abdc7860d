---------------------------- MODULE VisibleDiff -----------------------------
(***************************************************************************)
(* How TopN and Window publish a recomputed result: the candidate rows of  *)
(* a drain are compared with the visible ones, first in a removing leg     *)
(* over the visible relation, then in an adding leg over the candidates,   *)
(* one bounded page per transaction.  Both relations are sequences of      *)
(* [row, n] in id order; a cursor is the number of rows passed that are    *)
(* still there.                                                            *)
(***************************************************************************)
EXTENDS OperatorStage

CONSTANT MaxWeight     \* the greatest weight of an effect (2^63 - 1 in the code)

Least(x, y) == IF x < y THEN x ELSE y
Positive(x) == IF x > 0 THEN x ELSE 0

Count(relation, row) ==
    Total([i \in DOMAIN relation |-> IF relation[i].row = row THEN relation[i].n ELSE 0])

\* Multiplicities added to a relation: a row that is there keeps its place,
\* the others come after it.
Added(relation, weights) ==
    LET known == {relation[i].row : i \in DOMAIN relation}
        fresh == SetToSeq({r \in DOMAIN weights : weights[r] > 0} \ known)
    IN [i \in DOMAIN relation |->
          IF relation[i].row \in DOMAIN weights
          THEN [relation[i] EXCEPT !.n = @ + weights[relation[i].row]] ELSE relation[i]]
       \o [i \in DOMAIN fresh |-> [row |-> fresh[i], n |-> weights[fresh[i]]]]

\* `compared`: a page of one relation from the cursor on, with what each row
\* has more than in the other relation; it ends at a row whose surplus does
\* not fit one effect.
Compared(relation, other, at) ==
    LET last == Min({Len(relation), at + BatchRows, at + TargetRows})
        page == [i \in 1 .. last - at |->
                   [row |-> relation[at + i].row,
                    delta |-> relation[at + i].n - Count(other, relation[at + i].row)]]
        huge == {i \in DOMAIN page : page[i].delta > MaxWeight}
    IN IF huge = {} THEN page ELSE SubSeq(page, 1, Min(huge))

Repeats(page) == \E i \in DOMAIN page : page[i].delta > MaxWeight

\* `differences`: the surplus of every row of a page, at most MaxWeight.
Differences(page, sign) ==
    LET Surplus(d) == d.delta > 0
        chosen == SelectSeq(page, Surplus)
    IN [i \in DOMAIN chosen |->
          [row |-> chosen[i].row, w |-> sign * Least(chosen[i].delta, MaxWeight)]]

\* apply_diff: the rows passed; one of which a part is left is visited again.
Passed(page, passed) == IF Repeats(page) THEN passed - 1 ELSE passed

\* Mutant: what was retracted is still recorded as visible.
KeepVisible(visible, at, page, effects) ==
    [visible |-> visible, at |-> at + Len(page), done |-> at + Len(page) = Len(visible)]

\* One page of the removing leg: visible rows that are no candidates go.
RemoveLeg(visible, at, page, effects) ==
    LET Left(v) == v.n > 0
        shrunk == [i \in DOMAIN visible |->
                     [visible[i] EXCEPT !.n = @ + Net(effects, visible[i].row)]]
        upto == at + Len(page)
        kept == Len(SelectSeq(SubSeq(shrunk, 1, upto), Left))
    IN [visible |-> SelectSeq(shrunk, Left), at |-> Passed(page, kept),
        done |-> upto = Len(visible) /\ ~Repeats(page)]

\* One page of the adding leg: candidates that are not visible come.
AddLeg(visible, cand, at, page, effects) ==
    LET upto == at + Len(page)
        rows == {effects[i].row : i \in DOMAIN effects}
    IN [visible |-> Added(visible, [r \in rows |-> Net(effects, r)]),
        at |-> Passed(page, upto), done |-> upto = Len(cand) /\ ~Repeats(page)]

EmitDifferences(lsn, effects) ==
    IF effects = <<>> THEN UNCHANGED out ELSE Emit(Data(lsn, effects))
=============================================================================
