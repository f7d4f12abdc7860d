----------------------------- MODULE MCJoinSink -----------------------------
(* Instances of JoinSink for TLC. *)
EXTENDS JoinSink

CONSTANTS l1, l2, r1, r2

E(r, w) == [row |-> r, w |-> w]

\* r1 matches both left rows; r2 is NULL to l1 and does not match l2.
MCTruth ==
    [l \in LeftRows |-> [r \in RightRows |->
        IF r = r1 THEN "true" ELSE IF l = l1 THEN "unknown" ELSE "false"]]

\* More rows than a page, rows seen twice, multiplicities above 1, a last match
\* that leaves.
MCInputs ==
    [left |-> {<<E(l1, 1), E(l2, 2), E(l2, -1), E(l1, 1)>>, <<E(l1, -1)>>},
     right |-> {<<E(r1, 2), E(r2, 1)>>, <<E(r1, -2), E(r2, 1)>>}]
=============================================================================
