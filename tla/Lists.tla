------------------------------- MODULE Lists -------------------------------
(***************************************************************************)
(* Sequences of numbers, as the components use them.                       *)
(***************************************************************************)
EXTENDS Integers, Sequences

\* The members of a set of positions up to n, in ascending order.
Ascending(positions, n) ==
    LET upto[i \in 0 .. n] == IF i = 0 THEN <<>>
                              ELSE IF i \in positions THEN Append(upto[i - 1], i)
                              ELSE upto[i - 1]
    IN upto[n]

\* The sum of a sequence.
Total(s) ==
    LET sum[i \in 0 .. Len(s)] == IF i = 0 THEN 0 ELSE sum[i - 1] + s[i]
    IN sum[Len(s)]
=============================================================================
