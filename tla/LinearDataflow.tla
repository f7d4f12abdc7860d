--------------------------- MODULE LinearDataflow ---------------------------
(***************************************************************************)
(* A linear dataflow from end to end: the source table and the publisher   *)
(* (their contract is the one Ingress establishes), the registration of a  *)
(* dataflow over a source that is in use, and its stages Scan, Filter or   *)
(* Project, and Sink (execution/linear, execution/sink) joined by operator *)
(* EffectStreams (their contract is the one EffectStream establishes).     *)
(*                                                                         *)
(* A kernel transition is one action.  The Runtime runs each, or several   *)
(* metadata-only ones of a stage, in one transaction, so a crash leaves a  *)
(* state of this model.  A transition that returns an error rolls back and *)
(* ends the Runtime, which restarts and runs into it again: it is disabled *)
(* here, and StepsSucceed states that no ready stage is in that position.  *)
(*                                                                         *)
(* The i-th transaction commits at LSN i + 1; LSN 0 stands for NULL.       *)
(***************************************************************************)
EXTENDS SinkPage

CONSTANTS
    Plan,                    \* the transforms: sequence of [keep, image]
    Txns,                    \* effect sequences that a source transaction may have
    TargetRows,              \* target_chunk_rows
    HighChunks, LowChunks,   \* watermarks of the operator streams
    MaxCommits,              \* bound: transactions on the source database
    MaxLag,                  \* bound: unpublished source chunks at registration
    MaxBurst                 \* bound: chunks published before the published LSN
                             \* is next advanced; 1 unless the Runtime crashes

ASSUME PlanAssumption ==
    /\ IsFiniteSet(Rows)
    /\ Plan \in Seq([keep : SUBSET Rows, image : [Rows -> Rows]])
    /\ Txns \subseteq Seq([row : Rows, w : {-1, 1}])
    /\ TargetRows \in Nat \ {0}
    /\ HighChunks \in Nat /\ LowChunks \in Nat /\ LowChunks < HighChunks
    /\ MaxCommits \in Nat /\ MaxLag \in Nat /\ MaxBurst \in Nat \ {0}

SinkStage == Len(Plan) + 1
Stages == 0 .. SinkStage           \* 0 is the Scan
Transforms == 1 .. Len(Plan)
Operators == 1 .. SinkStage        \* stream s is read by stage s

VARIABLES
    wal,         \* committed row effects in commit order, [lsn, row, w]
    sent,        \* how many of them the publisher has put into the source stream
    end,         \* LSN of the last commit
    published,   \* published_lsn
    activation,  \* activation_lsn of the dataflow; 0 before its registration
    spool,       \* scan_bootstrap_*: [bootstrap_seq -> row]
    log,         \* [stage -> chunks of its input stream]; log[0] is the source's
    cur,         \* [stage -> [next, frontier]]: the cursor on its input
    cont,        \* [stage -> continuation]
    kept,        \* [operator stream -> first_retained_chunk_seq]
    full,        \* [operator stream -> backpressured]
    result       \* the result relation

sourceVars == <<wal, sent, end, published>>
flowVars == <<spool, log, cur, cont, kept, full, result>>
vars == <<sourceVars, activation, flowVars>>

Data(lsn, rows) == [kind |-> "data", lsn |-> lsn, rows |-> rows]
Frontier(lsn) == [kind |-> "frontier", lsn |-> lsn, rows |-> <<>>]

\* The typed continuation rows: `at` is next_bootstrap_seq, pending_frontier_lsn
\* or the next row ordinal, `rest` the remaining weight of the Sink.
Continuation(phase, at, rest) == [phase |-> phase, at |-> at, rest |-> rest]
NoContinuation == Continuation("none", 0, 0)

TableAt(p) == [r \in Rows |-> Net(SubSeq(wal, 1, p), r)]
Effects(rows) == [i \in DOMAIN rows |-> [row |-> rows[i].row, w |-> rows[i].w]]
UpTo(lsn) == Cardinality({i \in DOMAIN wal : wal[i].lsn <= lsn})
-----------------------------------------------------------------------------
Init ==
    /\ wal = <<>> /\ sent = 0 /\ end = 1 /\ published = 0
    /\ activation = 0 /\ spool = <<>>
    /\ log = [s \in Stages |-> <<>>]
    /\ cur = [s \in Stages |-> [next |-> 1, frontier |-> 0]]
    /\ cont = [s \in Stages |-> NoContinuation]
    /\ kept = [s \in Operators |-> 1]
    /\ full = [s \in Operators |-> FALSE]
    /\ result = NoRows

\* A transaction commits.  An empty one changes only other tables.
Commit ==
    /\ end <= MaxCommits
    /\ \E t \in Txns :
         /\ \A k \in 1 .. Len(t), r \in Rows :
              TableAt(Len(wal))[r] + Net(SubSeq(t, 1, k), r) >= 0
         /\ wal' = wal \o [i \in 1 .. Len(t) |->
                             [lsn |-> end + 1, row |-> t[i].row, w |-> t[i].w]]
    /\ end' = end + 1
    /\ UNCHANGED <<sent, published, activation, flowVars>>

\* How many of the effects after position p make up the next source chunk.
ChunkSize(p) ==
    Min({TargetRows,
         Cardinality({i \in p + 1 .. Len(wal) : wal[i].lsn = wal[p + 1].lsn})})

\* The position of the publisher after k more chunks, and those chunks: effects
\* of one transaction each, at its final LSN.
SentAfter(k) ==
    LET at[i \in 0 .. k] ==
            IF i = 0 THEN sent ELSE at[i - 1] + ChunkSize(at[i - 1])
    IN at[k]
SourceChunk(k) ==
    LET p == SentAfter(k - 1)
    IN Data(wal[p + 1].lsn, Effects(SubSeq(wal, p + 1, SentAfter(k))))

\* At least k more chunks are to be published.
Publishable(k) == \A i \in 0 .. k - 1 : SentAfter(i) < Len(wal)

\* The next transaction that the published LSN may pass.
NextCommit == Max({published, 1}) + 1

\* ingest_and_publish_once: publish_source_batch appends at most one chunk, then
\* advance_ingress_publication_frontier passes at most one transaction, one
\* that is published completely.  No stage runs in between.  A crash in between
\* makes the next round publish again first.  A round may be spent on another
\* source, and a transaction without effects on this one may be pending there.
\* An earlier dataflow over the source makes every transaction wanted.
Round ==
    /\ \E k \in 0 .. MaxBurst :
         /\ Publishable(k)
         /\ sent' = SentAfter(k)
         /\ log' = [log EXCEPT ![0] = @ \o [i \in 1 .. k |-> SourceChunk(i)]]
    /\ \/ /\ NextCommit <= end /\ UpTo(NextCommit) <= sent'
          /\ published' = NextCommit
       \/ /\ NextCommit <= end =>
                \/ UpTo(NextCommit) > sent'
                \/ UpTo(NextCommit) = UpTo(NextCommit - 1)
          /\ sent' # sent
          /\ UNCHANGED published
    /\ UNCHANGED <<wal, end, activation, spool, cur, cont, kept, full, result>>

\* Mutant: off by one.
JoinPastTail == [next |-> Len(log[0]) + 2, frontier |-> end]

\* attach_inputs: the Scan joins the source stream at its tail.
JoinedCursor == [next |-> Len(log[0]) + 1, frontier |-> end]

\* The rows of the source table in some physical order.
Snapshot ==
    LET size == Total([i \in DOMAIN wal |-> wal[i].w])
    IN CHOOSE s \in [1 .. size -> Rows] :
         \A r \in Rows : Cardinality({i \in 1 .. size : s[i] = r}) = TableAt(Len(wal))[r]

\* register: with the source locked against writes, record the activation LSN,
\* attach the Scan and copy the table into the bootstrap relation.
Register ==
    /\ activation = 0
    /\ ~Publishable(MaxLag + 1)
    /\ activation' = end
    /\ spool' = Snapshot
    /\ cur' = [cur EXCEPT ![0] = JoinedCursor]
    /\ cont' = [cont EXCEPT ![0] = Continuation("bootstrap", 1, 0)]
    /\ UNCHANGED <<sourceVars, log, kept, full, result>>
-----------------------------------------------------------------------------
Pending(s) == cur[s].next <= Len(log[s])
CursorChunk(s) == log[s][cur[s].next]
OutputOpen(s) == IF s = SinkStage THEN TRUE ELSE ~full[s + 1]

\* StepContext::begin and DURABLE_STAGE_READY: a continuation, a chunk, or a
\* source frontier to consume, and an output that accepts one.
Ready(s) ==
    /\ activation # 0
    /\ \/ cont[s] # NoContinuation
       \/ Pending(s)
       \/ s = 0 /\ published > cur[0].frontier
    /\ OutputOpen(s)

\* append_effect_stream_chunk and record_output_append on the output of stage s:
\* the LSN checks.
LastOf(s, kind) ==
    Max({0} \cup {log[s][i].lsn : i \in {j \in DOMAIN log[s] : log[s][j].kind = kind}})
Accepted(s, chunk) ==
    /\ chunk.lsn > LastOf(s + 1, "frontier")
    /\ chunk.lsn >= LastOf(s + 1, "data")

\* The output stream reaches its high watermark with one more chunk.
Fills(s) == Len(log[s + 1]) + 2 - kept[s + 1] >= HighChunks

Emit(s, chunk) ==
    /\ Accepted(s, chunk)
    /\ log' = [log EXCEPT ![s + 1] = Append(@, chunk)]
    /\ full' = [full EXCEPT ![s + 1] = Fills(s)]

EmitNothing == UNCHANGED <<log, full>>

\* advance_effect_stream_consumer on the source: the frontier is published, and
\* the next chunk after the cursor lies above it.
SourceAdvanceAccepted(to) ==
    /\ to.frontier > cur[0].frontier => to.frontier <= published
    /\ to.next <= Len(log[0]) => log[0][to.next].lsn > to.frontier

MoveTo(s, to) ==
    /\ s = 0 => SourceAdvanceAccepted(to)
    /\ cur' = [cur EXCEPT ![s] = to]

SetContinuation(s, c) == cont' = [cont EXCEPT ![s] = c]
-----------------------------------------------------------------------------
\* step_bootstrap: one page of the snapshot, at the activation LSN.
Bootstrap ==
    /\ Ready(0) /\ cont[0].phase = "bootstrap"
    /\ LET first == cont[0].at
           n == Min({Cardinality(DOMAIN spool), BatchRows, TargetRows})
           page == [i \in 1 .. n |-> [row |-> spool[first + i - 1], w |-> 1]]
       IN /\ IF n = 0 THEN EmitNothing ELSE Emit(0, Data(activation, page))
          /\ spool' = [i \in {j \in DOMAIN spool : j >= first + n} |-> spool[i]]
          /\ SetContinuation(0, IF DOMAIN spool' = {}
                                THEN Continuation("snapshot_frontier", activation, 0)
                                ELSE Continuation("bootstrap", first + n, 0))
    /\ UNCHANGED <<sourceVars, activation, cur, kept, result>>

\* step_snapshot_frontier: the snapshot is complete; the cursor already stands
\* at the activation LSN.
SnapshotFrontier ==
    /\ Ready(0) /\ cont[0].phase = "snapshot_frontier"
    /\ cont[0].at = activation /\ cur[0].frontier = activation
    /\ Emit(0, Frontier(activation))
    /\ SetContinuation(0, NoContinuation)
    /\ UNCHANGED <<sourceVars, activation, spool, cur, kept, result>>

\* assert_frontier_skips_no_source_chunk.
SkipsNoSourceChunk(lsn) ==
    \A i \in cur[0].next .. Len(log[0]) : log[0][i].lsn > lsn

PassFrontier(lsn) ==
    /\ SkipsNoSourceChunk(lsn)
    /\ Emit(0, Frontier(lsn))
    /\ MoveTo(0, [next |-> cur[0].next, frontier |-> lsn])
    /\ SetContinuation(0, NoContinuation)
    /\ UNCHANGED <<sourceVars, activation, spool, kept, result>>

\* step_available_source_frontier: nothing to read, a newer published LSN.
AvailableFrontier ==
    /\ Ready(0) /\ cont[0] = NoContinuation /\ ~Pending(0)
    /\ PassFrontier(published)

\* step_scan_frontier: the frontier remembered when its last chunk was done.
ScanFrontier ==
    /\ Ready(0) /\ cont[0].phase = "source_frontier"
    /\ cont[0].at > cur[0].frontier /\ cont[0].at <= published
    /\ PassFrontier(cont[0].at)

\* Mutant: the published frontier is remembered although the next chunk lies
\* at or below it.
RememberedTooEarly == IF published > cur[0].frontier THEN published ELSE 0

\* source_frontier_after_chunk: the published LSN, once the chunk at the cursor
\* is the last one at or below it; 0 for None.
source_frontier_after_chunk ==
    IF /\ published > cur[0].frontier
       /\ cur[0].next + 1 <= Len(log[0]) => log[0][cur[0].next + 1].lsn > published
    THEN published ELSE 0

\* Mutant: chunks are compared with the published LSN.
EmitsUnpublished(s) == s # 0 \/ CursorChunk(0).lsn > published

\* Transactions at or below the activation LSN are in the snapshot.
EmitsRows(s) == s # 0 \/ CursorChunk(0).lsn > activation

Passes(s, e) == EmitsRows(s) /\ (s = 0 \/ e.row \in Plan[s].keep)
Image(s, e) == IF s = 0 THEN e ELSE [e EXCEPT !.row = Plan[s].image[@]]

\* run_transform_primitive: how many effects the longest prefix has that stays
\* within max_input_rows effects and the output limit.
PrefixLength(s, rows) ==
    Max({k \in 1 .. Min({Len(rows), BatchRows}) :
           Cardinality({i \in 1 .. k : Passes(s, rows[i])}) <= Min({BatchRows, TargetRows})})

\* What the effects that pass become.
PassingRows(s, rows) ==
    LET passed[i \in 0 .. Len(rows)] ==
            IF i = 0 THEN <<>>
            ELSE IF Passes(s, rows[i]) THEN Append(passed[i - 1], Image(s, rows[i]))
            ELSE passed[i - 1]
    IN passed[Len(rows)]

ChunkDone(s, at) == at = Len(CursorChunk(s).rows)

\* step_data_transform: the next page of the chunk at the cursor.  The chunk is
\* left once it is done; the Scan then remembers a frontier that it completes.
DataStep(s) ==
    /\ Ready(s) /\ Pending(s)
    /\ CursorChunk(s).kind = "data"
    /\ cont[s].phase \in {"none", "data"}
    /\ LET at == cont[s].at
           rows == CursorChunk(s).rows
           left == SubSeq(rows, at + 1, Len(rows))
           n == PrefixLength(s, left)
           output == PassingRows(s, SubSeq(left, 1, n))
       IN /\ IF output = <<>> THEN EmitNothing
             ELSE Emit(s, Data(CursorChunk(s).lsn, output))
          /\ IF ChunkDone(s, at + n)
             THEN /\ MoveTo(s, [next |-> cur[s].next + 1, frontier |-> cur[s].frontier])
                  /\ SetContinuation(s,
                        IF s = 0 /\ source_frontier_after_chunk # 0
                        THEN Continuation("source_frontier", source_frontier_after_chunk, 0)
                        ELSE NoContinuation)
             ELSE SetContinuation(s, Continuation("data", at + n, 0)) /\ UNCHANGED cur
    /\ UNCHANGED <<sourceVars, activation, spool, kept, result>>

ScanData == DataStep(0)

\* execute_transform: a frontier is handed on, a data chunk transformed.
TransformFrontier(s) ==
    /\ Ready(s) /\ Pending(s) /\ CursorChunk(s).kind = "frontier"
    /\ cont[s] = NoContinuation
    /\ Emit(s, Frontier(CursorChunk(s).lsn))
    /\ MoveTo(s, [next |-> cur[s].next + 1, frontier |-> CursorChunk(s).lsn])
    /\ UNCHANGED <<sourceVars, activation, spool, cont, kept, result>>

\* consume_frontier and consume_data of the Sink: see module Sink.
SinkFrontier ==
    LET s == SinkStage
    IN /\ Ready(s) /\ Pending(s) /\ CursorChunk(s).kind = "frontier"
       /\ cont[s] = NoContinuation
       /\ MoveTo(s, [next |-> cur[s].next + 1, frontier |-> CursorChunk(s).lsn])
    /\ UNCHANGED <<sourceVars, activation, spool, log, cont, kept, full, result>>

SinkHeads == Heads(CursorChunk(SinkStage).rows, cont[SinkStage].at, cont[SinkStage].rest)

SinkData ==
    LET s == SinkStage
    IN /\ Ready(s) /\ Pending(s) /\ CursorChunk(s).kind = "data"
       /\ \E heads \in {SinkHeads} : \E page \in {Page(heads, Whole(heads), cont[s].at)} :
            /\ PageApplies(result, page.actions)
            /\ result' = mutate_result_page(result, page.actions)
            /\ IF ChunkDone(s, page.at)
               THEN /\ MoveTo(s, [next |-> cur[s].next + 1, frontier |-> cur[s].frontier])
                    /\ SetContinuation(s, NoContinuation)
               ELSE SetContinuation(s, Continuation("data", page.at, page.rest)) /\ UNCHANGED cur
    /\ UNCHANGED <<sourceVars, activation, spool, log, kept, full>>

\* gc_effect_stream opens the stream again at its low watermark.
StaysFull(s) == full[s] /\ Len(log[s]) + 1 - cur[s].next > LowChunks

\* gc::collect on one operator stream: what its consumer has read is deleted.
Collect(s) ==
    /\ kept[s] < cur[s].next
    /\ kept' = [kept EXCEPT ![s] = cur[s].next]
    /\ full' = [full EXCEPT ![s] = StaysFull(s)]
    /\ UNCHANGED <<sourceVars, activation, spool, log, cur, cont, result>>

ScanStep == Bootstrap \/ SnapshotFrontier \/ AvailableFrontier \/ ScanFrontier \/ ScanData
TransformStep(s) == TransformFrontier(s) \/ DataStep(s)
SinkStep == SinkFrontier \/ SinkData

Next ==
    \/ Commit \/ Round \/ Register
    \/ ScanStep \/ SinkStep
    \/ \E s \in Transforms : TransformStep(s)
    \/ \E s \in Operators : Collect(s)

Spec == Init /\ [][Next]_vars
-----------------------------------------------------------------------------
Chunk == [kind : {"data", "frontier"}, lsn : 1 .. MaxCommits + 1, rows : Seq(Effect)]
Phase == {"none", "bootstrap", "snapshot_frontier", "source_frontier", "data"}

TypeOK ==
    /\ wal \in Seq([lsn : 2 .. MaxCommits + 1, row : Rows, w : {-1, 1}])
    /\ sent \in 0 .. Len(wal) /\ end \in 1 .. MaxCommits + 1
    /\ published \in 0 .. end /\ activation \in 0 .. end
    /\ \A i \in DOMAIN spool : i \in Nat /\ spool[i] \in Rows
    /\ log \in [Stages -> Seq(Chunk)]
    /\ \A s \in Stages : /\ cur[s].next \in 1 .. Len(log[s]) + 1
                         /\ cur[s].frontier \in 0 .. end
    /\ cont \in [Stages -> [phase : Phase, at : Nat, rest : {0}]]
    /\ \A s \in Operators : kept[s] \in 1 .. cur[s].next
    /\ full \in [Operators -> BOOLEAN]
    /\ result \in [Rows -> Nat]

\* The reference: the query evaluated on a table.
Query(table) ==
    LET after[s \in 0 .. Len(Plan)] ==
            IF s = 0 THEN table
            ELSE [r \in Rows |->
                    MapThenSumSet(LAMBDA q : after[s - 1][q],
                                  {q \in Plan[s].keep : Plan[s].image[q] = r})]
    IN after[Len(Plan)]

\* The result is always the query on the source as it was after some prefix of
\* the committed changes, a prefix that contains every transaction at or below
\* the frontier the Sink has reached.  While the snapshot is loaded, it is a
\* part of the query on the snapshot.  So no row is lost, doubled or applied
\* out of order between the snapshot and the changes after it, at a chunk or
\* page boundary, or behind a frontier.
ViewConsistent ==
    LET reached == cur[SinkStage].frontier
    IN IF reached = 0
       THEN \A r \in Rows : result[r] <= Query(TableAt(UpTo(activation)))[r]
       ELSE \E p \in UpTo(reached) .. Len(wal) : result = Query(TableAt(p))

\* A Scan that is ready completes its step: the frontiers and cursors it works
\* with are never rejected.
ScanSucceeds == Ready(0) => ENABLED ScanStep

\* A Sink that is ready completes its step: every retraction finds its row.
SinkSucceeds == Ready(SinkStage) => ENABLED SinkStep

\* No stage of the dataflow runs into an error, which would end the Runtime on
\* every restart and stop every dataflow of the database with it.
StepsSucceed ==
    ScanSucceeds /\ SinkSucceeds /\ \A s \in Transforms : Ready(s) => ENABLED TransformStep(s)

\* Every transaction that is committed is eventually covered by the frontier of
\* the result, through full streams and collections on the way.
Converges ==
    \A lsn \in 1 .. MaxCommits + 1 :
        activation # 0 /\ end >= lsn ~> cur[SinkStage].frontier >= lsn
=============================================================================
