---------------------------- MODULE MCOperators -----------------------------
(* Instances of Operators for TLC. *)
EXTENDS Operators

CONSTANTS r1, r2, r3

E(r, w) == [row |-> r, w |-> w]

\* Two rows share a key, two rank alike, two have the same output row.
MCKey == [r \in Rows |-> IF r = r3 THEN "b" ELSE "a"]
MCRank == [r \in Rows |-> IF r = r1 THEN 1 ELSE 2]
MCProject == [r \in Rows |-> IF r = r3 THEN r3 ELSE r1]

\* A plain aggregate, and a DISTINCT one with a FILTER that r2 fails.
MCAggregates ==
    <<[keep |-> Rows, arg |-> [r \in Rows |-> IF r = r2 THEN 2 ELSE 1], distinct |-> FALSE],
      [keep |-> {r1, r3}, arg |-> [r \in Rows |-> 1], distinct |-> TRUE]>>

\* A rank over peers, ntile with a NULL argument first, and a moving sum.
MCFunctions == <<"rank", "ntile", "sum">>
MCArgument == [r \in Rows |-> IF r = r1 THEN <<>> ELSE <<2>>]
MCFrame ==
    [mode |-> "rows", start |-> [kind |-> "offset", n |-> -1],
     end |-> [kind |-> "offset", n |-> 1], exclude |-> "ties"]

\* Values of the frame by groups, without the group of the row itself.
MCGlobalFunctions == <<"first_value", "nth_value", "cume_dist">>
MCGlobalFrame ==
    [mode |-> "groups", start |-> [kind |-> "offset", n |-> -1],
     end |-> [kind |-> "unbounded", n |-> 0], exclude |-> "group"]

\* Chunks that insert, replace and delete, with multiplicities above 1.
MCInputs ==
    {<<E(r1, 1), E(r2, 1)>>, <<E(r3, 2), E(r2, 1)>>,
     <<E(r1, -1), E(r2, 2)>>, <<E(r3, -1)>>}
=============================================================================
