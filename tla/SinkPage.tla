------------------------------ MODULE SinkPage ------------------------------
(***************************************************************************)
(* The bounded page of the Sink kernel (execution/sink/runtime.rs): which  *)
(* effects of a data chunk one step applies, and what the one SQL          *)
(* statement that applies them does to the result relation.                *)
(*                                                                         *)
(* An effect is [row, w]: w copies of a row inserted (w > 0) or deleted    *)
(* (w < 0).  A result relation is a bag, [Rows -> Nat].  Byte budgets are  *)
(* left out: every row has the same size.                                  *)
(***************************************************************************)
EXTENDS Lists, FiniteSets, FiniteSetsExt

CONSTANTS
    Rows,        \* row values
    BatchRows    \* shiba.batch_rows: max_input_rows and max_output_rows

ASSUME BatchAssumption == BatchRows \in Nat \ {0}

Abs(w) == IF w < 0 THEN -w ELSE w
Sign(w) == IF w < 0 THEN -1 ELSE 1

Effect == [row : Rows, w : Int \ {0}]
NoRows == [r \in Rows |-> 0]

\* The net multiplicity of row r in a sequence of effects, the copies of r its
\* positive (sign = 1) or negative (sign = -1) effects ask for, and the copies
\* all its effects together ask for.
Net(effects, r) ==
    Total([i \in DOMAIN effects |-> IF effects[i].row = r THEN effects[i].w ELSE 0])
Copies(effects, r, sign) ==
    Total([i \in DOMAIN effects |->
             IF effects[i].row = r /\ Sign(effects[i].w) = sign
             THEN Abs(effects[i].w) ELSE 0])
Mutations(effects) == Total([i \in DOMAIN effects |-> Abs(effects[i].w)])

\* What is left of a chunk at a continuation: the effects from ordinal `at`
\* on (0-based), the first one cut to its remaining weight when there is one.
Rest(effects, at, rest) ==
    [i \in 1 .. Len(effects) - at |->
        IF i = 1 /\ rest # 0
        THEN [effects[at + 1] EXCEPT !.w = rest] ELSE effects[at + i]]

\* Mutant: the budget is not looked at.
WholeWeight(effect, budget) == effect

\* plan_weight_page: the part of an effect that fits an output budget.
plan_weight_page(effect, budget) ==
    [effect EXCEPT !.w = Sign(@) * Min({Abs(@), budget})]

\* effect_heads: the first max_input_rows effects of what is left.
Heads(effects, at, rest) ==
    SubSeq(Rest(effects, at, rest), 1, Min({Len(effects) - at, BatchRows}))

\* How many heads fit max_output_rows copies whole.
Whole(heads) ==
    Max({j \in 0 .. Len(heads) : Mutations(SubSeq(heads, 1, j)) <= BatchRows})

\* Mutant: a split effect is taken for a finished one.
ForgetRemaining(heads, whole, at) ==
    LET taken == SubSeq(heads, 1, whole)
        spare == BatchRows - Mutations(taken)
    IN IF whole = Len(heads) \/ spare = 0
       THEN [actions |-> taken, at |-> at + whole, rest |-> 0]
       ELSE [actions |-> Append(taken, plan_weight_page(heads[whole + 1], spare)),
             at |-> at + whole + 1, rest |-> 0]

\* consume_data, the planning loop: take the heads in order until they end or
\* no output budget is left; the last one taken may be split.  Yields the
\* actions and the position after them.
Page(heads, whole, at) ==
    LET taken == SubSeq(heads, 1, whole)
        spare == BatchRows - Mutations(taken)
        part == plan_weight_page(heads[whole + 1], spare)
    IN IF whole = Len(heads) \/ spare = 0
       THEN [actions |-> taken, at |-> at + whole, rest |-> 0]
       ELSE [actions |-> Append(taken, part),
             at |-> at + whole, rest |-> heads[whole + 1].w - part.w]

\* mutate_result_page: one statement whose common table expressions share one
\* snapshot.  A negative effect finds its victims among the rows that were in
\* the result before the statement, never among the ones it inserts.
Deleted(result, actions) ==
    [r \in Rows |-> Min({Copies(actions, r, -1), result[r]})]
mutate_result_page(result, actions) ==
    [r \in Rows |-> result[r] + Copies(actions, r, 1) - Deleted(result, actions)[r]]

\* The count the statement returns is the planned one; otherwise consume_data
\* fails and its transaction rolls back.
PageApplies(result, actions) ==
    \A r \in Rows : Deleted(result, actions)[r] = Copies(actions, r, -1)
=============================================================================
