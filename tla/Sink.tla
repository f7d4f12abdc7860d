-------------------------------- MODULE Sink --------------------------------
(***************************************************************************)
(* The Sink stage (execution/sink/runtime.rs) behind any operator: it      *)
(* reads one operator EffectStream, whose effects carry weights of any     *)
(* size, and maintains the result relation page by page.  One kernel step  *)
(* (result DML, cursor, continuation and checkpoint) is one transaction,   *)
(* so one action; a crash before its commit leaves no trace.               *)
(***************************************************************************)
EXTENDS SinkPage

VARIABLES
    log,      \* the input stream: every chunk, [kind, lsn, rows]
    cur,      \* the consumer's [next, frontier]: next_chunk_seq, consumed_frontier_lsn
    cont,     \* the continuation row [at, rest]: row_ordinal, remaining_weight (0 = NULL)
    result    \* the result relation

vars == <<log, cur, cont, result>>

NoContinuation == [at |-> 0, rest |-> 0]
Emitted(r) == Total([i \in DOMAIN log |-> Net(log[i].rows, r)])

SinkInit ==
    /\ cur = [next |-> 1, frontier |-> 0]
    /\ cont = NoContinuation
    /\ result = NoRows

Pending == cur.next <= Len(log)
CursorChunk == log[cur.next]

\* consume_frontier: the cursor passes the chunk and takes its LSN.
ConsumeFrontier ==
    /\ Pending /\ CursorChunk.kind = "frontier"
    /\ cont = NoContinuation
    /\ cur' = [next |-> cur.next + 1, frontier |-> CursorChunk.lsn]
    /\ UNCHANGED <<log, cont, result>>

ContinuedHeads == Heads(CursorChunk.rows, cont.at, cont.rest)

\* The page at the cursor.
NextPage == LET heads == ContinuedHeads IN Page(heads, Whole(heads), cont.at)

\* replace_continuation: absent once the chunk is finished.
NextContinuation(page) ==
    IF page.at = Len(CursorChunk.rows) THEN NoContinuation
    ELSE [at |-> page.at, rest |-> page.rest]

\* advance_completed_chunk: a data chunk leaves the consumed frontier alone.
NextCursor(page) ==
    IF page.at = Len(CursorChunk.rows)
    THEN [next |-> cur.next + 1, frontier |-> cur.frontier] ELSE cur

\* consume_data: one page.  A page that does not apply is an error: the step
\* rolls back and the Runtime panics, restarts and runs into it again.
ConsumeData ==
    /\ Pending /\ CursorChunk.kind = "data"
    /\ \E page \in {NextPage} :
         /\ PageApplies(result, page.actions)
         /\ result' = mutate_result_page(result, page.actions)
         /\ cur' = NextCursor(page)
         /\ cont' = NextContinuation(page)
    /\ UNCHANGED log

SinkStep == ConsumeFrontier \/ ConsumeData
-----------------------------------------------------------------------------
\* The net effect on row r of what the Sink has not applied yet: the rest of
\* the chunk at the cursor and the chunks after it.
Outstanding(r) ==
    IF ~Pending THEN 0
    ELSE Net(Rest(CursorChunk.rows, cont.at, cont.rest), r)
         + Total([i \in 1 .. Len(log) - cur.next |-> Net(log[cur.next + i].rows, r)])

\* Every copy is inserted and deleted exactly once: whatever page boundary
\* splits a chunk or the weight of one effect, the result plus what cursor and
\* continuation leave outstanding is what the upstream operator emitted.
ResultExact == \A r \in Rows : result[r] + Outstanding(r) = Emitted(r)

\* No transaction grows with the weight of an effect: a step changes at most
\* BatchRows copies, and it always moves the cursor or the continuation.
StepBounded ==
    [][SinkStep =>
        /\ MapThenSumSet(LAMBDA r : Abs(result'[r] - result[r]), Rows) <= BatchRows
        /\ <<cur, cont>>' # <<cur, cont>>]_vars
=============================================================================
