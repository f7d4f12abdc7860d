------------------------------ MODULE JoinSink ------------------------------
(***************************************************************************)
(* A Join and the Sink behind it: what the Join publishes, with weights of *)
(* any size, is what the Sink pages into the result relation.              *)
(***************************************************************************)
EXTENDS Join

VARIABLES
    sinkCur,    \* the Sink's cursor on the Join's output
    sinkCont,   \* the Sink's continuation
    result      \* the result relation

S == INSTANCE Sink WITH log <- out, cur <- sinkCur, cont <- sinkCont

sinkVars == <<sinkCur, sinkCont, result>>
vars == <<joinVars, sinkVars>>

Init == JoinInit /\ S!SinkInit

Next ==
    \/ (Upstream \/ JoinStep) /\ UNCHANGED sinkVars
    \/ S!SinkStep /\ UNCHANGED <<kind, in, cur, arr, cont>>

Spec == Init /\ [][Next]_vars
-----------------------------------------------------------------------------
\* Whenever no input chunk is half done, the output adds up to the query on
\* everything consumed, for every join kind and three-valued condition:
\* however a chunk, a row's candidates or the two actions of one candidate
\* were split over transactions, and whichever side came first.
JoinExact ==
    cont = None =>
        \E left \in {Consumed("left")}, right \in {Consumed("right")},
           effects \in {Effects(out, Len(out))} :
             \A row \in OutRows : Net(effects, row) = JoinQuery(left, right, row)

\* The match counts kept with the rows never disagree with what a scan of the
\* other side finds, nor does a candidate change between its two actions: no
\* check inside a Join transaction fails (plan_actions, plan_finalize, the
\* compare-and-set statements).
TransitionsSucceed == Runnable => Transaction.ok

\* The frontier that reaches the Sink is one both inputs have completed: every
\* effect at or below it, on either input, is joined and in the result.
FrontierCovers ==
    /\ \A side \in Side : \A i \in Of(in[side], "data") :
         in[side][i].lsn <= sinkCur.frontier => i < cur[side].next
    /\ \A i \in Of(out, "data") : out[i].lsn <= sinkCur.frontier => i < sinkCur.next

\* Every copy of an output row is inserted and deleted exactly once, whatever
\* page boundary splits a chunk or a weight of the Join's output.
ResultExact == S!ResultExact

\* The Sink finds every row it has to delete: what the Join publishes can be
\* applied, except where one page both inserts and deletes a row.
SinkApplies ==
    S!Pending /\ S!CursorChunk.kind = "data" =>
        \E actions \in {S!NextPage.actions} :
            \/ PageApplies(result, actions)
            \/ \E row \in Rows : Copies(actions, row, 1) > 0 /\ Copies(actions, row, -1) > 0

\* No Sink transaction grows with a weight, however many rows were multiplied.
StepBounded == S!StepBounded

-----------------------------------------------------------------------------
\* Not guaranteed by the code: see "Limits of the claims" in the README.

\* The Join can work whenever one of its inputs has data: it waits for neither
\* side, so a chunk at a lower LSN may come after its output.
EitherInputWorks == Runnable => Published(Transaction)
=============================================================================
