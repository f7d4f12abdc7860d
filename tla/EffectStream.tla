---------------------------- MODULE EffectStream ----------------------------
(***************************************************************************)
(* One durable EffectStream (sql/12_effect_stream.sql): a numbered         *)
(* sequence of immutable chunks that one producer appends and several      *)
(* consumers read through their own cursors.  Every operation locks the    *)
(* stream row FOR UPDATE, so each is one action.  A call that raises rolls *)
(* its transaction back: it is a disabled action here.                     *)
(*                                                                         *)
(* Kind = "source": the producer is the ingress publisher, consumers are   *)
(* the Scans of the dataflows that are registered and dropped over time.   *)
(* Kind = "operator": the producer is a stage, all consumers are attached  *)
(* by the registration of their dataflow, before production starts.        *)
(*                                                                         *)
(* LSNs are naturals; 0 stands for NULL and for 0/0.                       *)
(***************************************************************************)
EXTENDS Naturals, Sequences, FiniteSets, FiniteSetsExt

CONSTANTS
    Kind,                               \* producer_kind of this stream
    Consumers,                          \* (result_oid, stage, port) identities
    Payloads,                           \* [rows, bytes] of the data chunks tried
    TargetRows, TargetBytes,            \* target_chunk_*
    HighChunks, HighRows, HighBytes,    \* high watermarks
    LowChunks, LowRows, LowBytes,       \* low watermarks
    GcChunks, GcRows, GcBytes,          \* limits of one gc_effect_stream call
    MaxLsn,                             \* bound: WAL positions 1 .. MaxLsn
    MaxChunks                           \* bound: chunks appended per stream life

\* The CHECK constraints of effect_streams, and the argument checks of
\* gc_effect_stream.
ASSUME StreamAssumption ==
    /\ Kind \in {"source", "operator"}
    /\ Payloads \subseteq [rows : Nat \ {0}, bytes : Nat \ {0}]
    /\ TargetRows \in Nat \ {0} /\ TargetBytes \in Nat \ {0}
    /\ HighChunks \in Nat /\ HighRows \in Nat /\ HighBytes \in Nat
    /\ LowChunks \in Nat /\ LowRows \in Nat /\ LowBytes \in Nat
    /\ LowChunks < HighChunks /\ LowRows < HighRows /\ LowBytes < HighBytes
    /\ TargetRows <= HighRows /\ TargetBytes <= HighBytes
    /\ GcChunks \in Nat \ {0} /\ GcRows \in Nat /\ GcBytes \in Nat
    /\ MaxLsn \in Nat \ {0} /\ MaxChunks \in Nat

VARIABLES
    chunks,          \* effect_stream_chunks: [retained chunk_seq -> chunk]
    next,            \* next_chunk_seq
    first,           \* first_retained_chunk_seq
    latestData,      \* latest_data_lsn
    frontier,        \* published_frontier_lsn
    buffered,        \* [chunks, rows, bytes]: buffered_chunks, _rows, _bytes
    backpressured,   \* backpressured
    consumers,       \* effect_stream_consumers: [attached -> cursor record]
    wal,             \* pg_current_wal_lsn(), environment of a source stream
    published,       \* published_lsn of the slot generation, likewise
    log,             \* history: every chunk appended to this stream
    total,           \* history: [i -> rows and bytes of the chunks 1 .. i]
    delivered        \* history: [attached -> chunks read under its cursor]

streamVars == <<chunks, next, first, latestData, frontier, buffered, backpressured>>
history == <<log, total>>
envVars == <<wal, published>>
vars == <<streamVars, consumers, envVars, history, delivered>>

Lsn == 0 .. MaxLsn
Attached == DOMAIN consumers
Retained == DOMAIN chunks

NoPayload == [rows |-> 0, bytes |-> 0]
Chunk == [kind : {"data"}, size : Payloads, lsn : Lsn]
           \cup [kind : {"frontier"}, size : {NoPayload}, lsn : Lsn]

Cursor == [next : Nat \ {0}, activation : Lsn, frontier : Lsn]

\* The rows and bytes of the chunks i .. j, as differences of running sums.
Rows(i, j) == total[j].rows - total[i - 1].rows
Bytes(i, j) == total[j].bytes - total[i - 1].bytes
-----------------------------------------------------------------------------
NothingBuffered == [chunks |-> 0, rows |-> 0, bytes |-> 0]

\* Mutant: activation taken from the published frontier instead of the end of
\* WAL.
AttachedAtPublished(activation) ==
    IF Kind = "operator"
    THEN [next |-> 1, activation |-> 0, frontier |-> 0]
    ELSE [next |-> next, activation |-> published, frontier |-> published]

\* attach_effect_stream_consumer: a source consumer joins at the tail with
\* the dataflow's activation LSN, an operator consumer at chunk 1 with 0/0.
AttachedCursor(activation) ==
    IF Kind = "operator"
    THEN [next |-> 1, activation |-> 0, frontier |-> 0]
    ELSE [next |-> next, activation |-> activation, frontier |-> activation]

Init ==
    /\ chunks = <<>> /\ next = 1 /\ first = 1
    /\ latestData = 0 /\ frontier = 0
    /\ buffered = NothingBuffered /\ backpressured = FALSE
    /\ log = <<>> /\ total = [i \in {0} |-> NoPayload]
    /\ consumers = IF Kind = "operator"
                   THEN [c \in Consumers |-> AttachedCursor(0)] ELSE <<>>
    /\ delivered = [c \in Attached |-> <<>>]
    /\ wal = IF Kind = "operator" THEN MaxLsn ELSE 1
    /\ published = 0

\* The source database commits: the end of WAL moves on.
WriteWal ==
    /\ Kind = "source" /\ wal < MaxLsn
    /\ wal' = wal + 1
    /\ UNCHANGED <<streamVars, consumers, published, history, delivered>>

\* advance_ingress_publication_frontier moves published_lsn of the generation.
PublishFrontier ==
    /\ Kind = "source"
    /\ \E l \in (published + 1) .. wal : published' = l
    /\ UNCHANGED <<streamVars, consumers, wal, history, delivered>>

\* A dataflow over this source is registered: its activation LSN is the end of
\* WAL, read while the source table is locked against writes.
Attach(c) ==
    /\ Kind = "source" /\ c \in Consumers \ Attached
    /\ consumers' = [d \in Attached \cup {c} |->
                        IF d = c THEN AttachedCursor(wal) ELSE consumers[d]]
    /\ delivered' = [d \in Attached \cup {c} |->
                        IF d = c THEN <<>> ELSE delivered[d]]
    /\ UNCHANGED <<streamVars, envVars, history>>

\* A source stream is deleted with its payload; the next registration over the
\* source inserts a new, empty one.
DropStream ==
    /\ chunks' = <<>> /\ next' = 1 /\ first' = 1
    /\ latestData' = 0 /\ frontier' = 0
    /\ buffered' = NothingBuffered /\ backpressured' = FALSE
    /\ log' = <<>> /\ total' = [i \in {0} |-> NoPayload]

\* A dataflow is dropped: its consumer row goes with its checkpoints, and
\* detach_unused_source deletes a source stream left without consumers.
Detach(c) ==
    /\ Kind = "source" /\ c \in Attached
    /\ consumers' = [d \in Attached \ {c} |-> consumers[d]]
    /\ delivered' = [d \in Attached \ {c} |-> delivered[d]]
    /\ IF Attached = {c} THEN DropStream ELSE UNCHANGED <<streamVars, history>>
    /\ UNCHANGED envVars
-----------------------------------------------------------------------------
\* The resource check of append_effect_stream_chunk: at most the target, with
\* one oversized row allowed to stand alone.
WithinTarget(p) ==
    /\ p.rows <= TargetRows
    /\ p.bytes > TargetBytes => p.rows = 1

\* Mutant: > for >=.
AboveHighWatermark(b) ==
    b.chunks > HighChunks \/ b.rows > HighRows \/ b.bytes > HighBytes

AtHighWatermark(b) ==
    b.chunks >= HighChunks \/ b.rows >= HighRows \/ b.bytes >= HighBytes

\* The trailing INSERT and UPDATE of append_effect_stream_chunk.
InsertChunk(c) ==
    LET projected == [chunks |-> buffered.chunks + 1,
                      rows   |-> buffered.rows + c.size.rows,
                      bytes  |-> buffered.bytes + c.size.bytes]
    IN  /\ ~backpressured
        /\ next <= MaxChunks
        /\ chunks' = [i \in Retained \cup {next} |-> IF i = next THEN c ELSE chunks[i]]
        /\ next' = next + 1
        /\ latestData' = IF c.kind = "data" /\ c.lsn > latestData THEN c.lsn ELSE latestData
        /\ frontier' = IF c.kind = "frontier" THEN c.lsn ELSE frontier
        /\ buffered' = projected
        /\ backpressured' = AtHighWatermark(projected)
        /\ log' = Append(log, c)
        /\ total' = [i \in 0 .. next |->
                        IF i < next THEN total[i]
                        ELSE [rows  |-> total[next - 1].rows + c.size.rows,
                              bytes |-> total[next - 1].bytes + c.size.bytes]]
        /\ UNCHANGED <<first, consumers, envVars, delivered>>

\* The LSN checks for a data chunk.  A source chunk follows the generation's
\* published LSN and never goes back; an operator chunk follows its frontier.
DataLsnAccepted(l) ==
    IF Kind = "source"
    THEN (published # 0 => l > published) /\ l >= latestData
    ELSE frontier # 0 => l > frontier

\* The publisher appends to a source stream only when a consumer activated
\* before the transaction's commit (lock_stream).
Wanted(l) == Kind = "source" => \E c \in Attached : consumers[c].activation < l

AppendData ==
    /\ Attached # {}
    /\ \E p \in Payloads, l \in 1 .. wal :
        /\ Wanted(l)
        /\ WithinTarget(p)
        /\ DataLsnAccepted(l)
        /\ InsertChunk([kind |-> "data", size |-> p, lsn |-> l])

\* A stage publishes its causal frontier; source streams carry data only.
FrontierLsnAccepted(l) ==
    /\ frontier # 0 => l > frontier
    /\ l >= latestData

AppendFrontier ==
    /\ Kind = "operator"
    /\ Attached # {}
    /\ \E l \in 1 .. wal :
        /\ FrontierLsnAccepted(l)
        /\ InsertChunk([kind |-> "frontier", size |-> NoPayload, lsn |-> l])
-----------------------------------------------------------------------------
\* Mutant: the check is dropped.
SkipsAnything(cursor, f) == TRUE

\* "source consumer frontier would skip published data": the next retained
\* chunk at or after the new cursor must lie above the new frontier.
SkipsNoChunk(cursor, f) ==
    LET later == {i \in Retained : i >= cursor}
    IN  later # {} => chunks[Min(later)].lsn > f

\* Mutant: the stream's published frontier instead of the consumed one.
StreamFrontier(c, n) == Max({consumers[c].frontier, frontier})

\* The frontier an operator consumer derives from the chunks it moves past.
DerivedFrontier(c, n) ==
    Max({consumers[c].frontier} \cup
        {chunks[i].lsn : i \in {j \in consumers[c].next .. (consumers[c].next + n - 1) :
                                    chunks[j].kind = "frontier"}})

\* Mutant: every advance must raise the frontier.
AdvanceRaisesFrontier(c, n, f) ==
    LET cur == consumers[c]
    IN  /\ f > cur.frontier
        /\ cur.next + n <= next
        /\ cur.next .. (cur.next + n - 1) \subseteq Retained
        /\ IF Kind = "source"
           THEN published # 0 /\ f <= published /\ SkipsNoChunk(cur.next + n, f)
           ELSE f = DerivedFrontier(c, n)

\* The checks of advance_effect_stream_consumer for moving c past n chunks
\* (no caller moves past more than one) and to frontier f.
AdvanceAccepted(c, n, f) ==
    LET cur == consumers[c]
    IN  /\ f >= cur.frontier
        /\ n > 0 \/ f > cur.frontier
        /\ cur.next + n <= next
        /\ cur.next .. (cur.next + n - 1) \subseteq Retained
        /\ IF Kind = "source"
           THEN /\ f > cur.frontier => published # 0 /\ f <= published
                /\ SkipsNoChunk(cur.next + n, f)
           ELSE f = DerivedFrontier(c, n)

\* Mutant: the chunk is read at the retained head instead of at the cursor.
AdvanceReadingHead(c, n, f) ==
    /\ AdvanceAccepted(c, n, f)
    /\ consumers' = [consumers EXCEPT ![c] =
          [next |-> @.next + n, activation |-> @.activation, frontier |-> f]]
    /\ delivered' = [delivered EXCEPT ![c] = @ \o [i \in 1 .. n |-> chunks[first + i - 1]]]
    /\ UNCHANGED <<streamVars, envVars, history>>

Advance(c, n, f) ==
    /\ AdvanceAccepted(c, n, f)
    /\ consumers' = [consumers EXCEPT ![c] =
          [next |-> @.next + n, activation |-> @.activation, frontier |-> f]]
    /\ delivered' = [delivered EXCEPT ![c] =
                        @ \o [i \in 1 .. n |-> chunks[consumers[c].next + i - 1]]]
    /\ UNCHANGED <<streamVars, envVars, history>>

Consume(c) == c \in Attached /\ \E n \in 0 .. 1, f \in Lsn : Advance(c, n, f)
-----------------------------------------------------------------------------
\* Mutant: max for min over the cursors.
FastestNext ==
    IF Attached = {} THEN next ELSE Max({consumers[c].next : c \in Attached})

\* gc_effect_stream deletes below the slowest cursor.  A source stream without
\* consumers needs nothing.
SlowestNext ==
    IF Attached = {} THEN next ELSE Min({consumers[c].next : c \in Attached})

\* Mutant: no exemption for the first chunk.
GarbageWithinLimits ==
    {i \in Retained :
        /\ i < SlowestNext
        /\ i < first + GcChunks
        /\ Rows(first, i) <= GcRows /\ Bytes(first, i) <= GcBytes}

\* A prefix of at most GcChunks chunks, within the row and byte limits except
\* that the first one always goes.
Garbage ==
    {i \in Retained :
        /\ i < SlowestNext
        /\ i < first + GcChunks
        /\ \/ i = first
           \/ Rows(first, i) <= GcRows /\ Bytes(first, i) <= GcBytes}

AtLowWatermark(b) ==
    b.chunks <= LowChunks /\ b.rows <= LowRows /\ b.bytes <= LowBytes

RetainedFrom == IF Garbage = {} THEN first ELSE Max(Garbage) + 1

\* Mutant: bytes reduced by the row count.
RemainingMiscounted ==
    [chunks |-> buffered.chunks - Cardinality(Garbage),
     rows   |-> buffered.rows - Rows(first, RetainedFrom - 1),
     bytes  |-> buffered.bytes - Rows(first, RetainedFrom - 1)]

Remaining ==
    [chunks |-> buffered.chunks - Cardinality(Garbage),
     rows   |-> buffered.rows - Rows(first, RetainedFrom - 1),
     bytes  |-> buffered.bytes - Bytes(first, RetainedFrom - 1)]

Gc ==
    /\ Kind = "operator" => Attached # {}
    /\ chunks' = [i \in Retained \ Garbage |-> chunks[i]]
    /\ first' = RetainedFrom
    /\ buffered' = Remaining
    /\ backpressured' = (backpressured /\ ~AtLowWatermark(Remaining))
    /\ UNCHANGED <<next, latestData, frontier, consumers, envVars, history, delivered>>

Next ==
    \/ WriteWal
    \/ PublishFrontier
    \/ AppendData
    \/ AppendFrontier
    \/ Gc
    \/ \E c \in Consumers : Attach(c) \/ Detach(c) \/ Consume(c)

Spec == Init /\ [][Next]_vars

\* The Runtime steps every ready stage and calls the collector in turn
\* (runtime/scheduler.rs), so an enabled consumer and the collector each run.
FairSpec == Spec /\ WF_vars(Gc) /\ \A c \in Consumers : WF_vars(Consume(c))
-----------------------------------------------------------------------------
(* Properties *)

TypeOK ==
    /\ next \in Nat \ {0} /\ first \in 1 .. next
    /\ Retained \subseteq 1 .. (next - 1) /\ chunks \in [Retained -> Chunk]
    /\ latestData \in Lsn /\ frontier \in Lsn
    /\ buffered \in [chunks : Nat, rows : Nat, bytes : Nat]
    /\ backpressured \in BOOLEAN
    /\ Attached \subseteq Consumers /\ consumers \in [Attached -> Cursor]
    /\ wal \in Lsn /\ published \in 0 .. wal
    /\ log \in Seq(Chunk) /\ Len(log) = next - 1
    /\ total \in [0 .. (next - 1) -> [rows : Nat, bytes : Nat]]
    /\ delivered \in [Attached -> Seq(Chunk)]

\* gc_effect_stream removes only a prefix below every cursor, whatever the
\* interleaving with appends, advances and late joiners: what a consumer has
\* not read is still stored, unchanged.
UnreadRetained ==
    /\ Retained = first .. (next - 1)
    /\ \A c \in Attached : consumers[c].next \in first .. next
    /\ \A i \in Retained : chunks[i] = log[i]

\* The incrementally maintained counters of effect_streams always equal the
\* chunks actually stored, so admission decisions are never made on drift.
CountersExact ==
    buffered = [chunks |-> Cardinality(Retained),
                rows   |-> MapThenSumSet(LAMBDA i : chunks[i].size.rows, Retained),
                bytes  |-> MapThenSumSet(LAMBDA i : chunks[i].size.bytes, Retained)]

\* Backpressure bounds the buffer: appending stops at the first high watermark
\* reached, so chunks never pass it and rows pass it by less than one chunk;
\* and a stream that still accepts appends is below every watermark.
BufferBounded ==
    /\ buffered.chunks <= HighChunks
    /\ buffered.rows < HighRows + TargetRows
    /\ ~backpressured => ~AtHighWatermark(buffered)

\* A causal frontier is a promise about the future of the stream: no data
\* chunk at or below it follows, and it never falls behind data before it.
FrontierPromise ==
    \A i \in 1 .. Len(log) : log[i].kind = "frontier" =>
        /\ \A j \in 1 .. (i - 1) : log[j].lsn <= log[i].lsn
        /\ \A j \in (i + 1) .. Len(log) : log[j].lsn > log[i].lsn

\* A consumer's durable frontier never covers a chunk it has not read.  The
\* only chunks below the frontier of a source consumer are the backlog at or
\* before its activation LSN, which its snapshot already holds.
ConsumerFrontierSound ==
    \A c \in Attached : \A i \in consumers[c].next .. (next - 1) :
        \/ log[i].lsn > consumers[c].frontier
        \/ Kind = "source" /\ log[i].lsn <= consumers[c].activation

\* The same promise about what is not in the stream yet: the next data chunk
\* the producer can append lies above the frontier of every consumer, or below
\* its activation.
NoDataBelowFrontier ==
    \A c \in Attached, l \in 1 .. MaxLsn :
        DataLsnAccepted(l) => \/ l > consumers[c].frontier
                              \/ Kind = "source" /\ l <= consumers[c].activation

\* The three promises about frontiers together: along the stream, of a consumer
\* about what it has not read, and about what is still to be appended.
FrontiersSound == FrontierPromise /\ ConsumerFrontierSound /\ NoDataBelowFrontier

\* The chunks a consumer was handed are those at the positions its cursor
\* moved through, and every chunk committed after its activation is among
\* them: a dataflow registered while the publisher lags loses nothing.
NothingMissed ==
    \A c \in Attached :
        LET start == consumers[c].next - Len(delivered[c])
        IN  /\ start >= 1
            /\ delivered[c] = SubSeq(log, start, consumers[c].next - 1)
            /\ \A i \in 1 .. (start - 1) : log[i].lsn <= consumers[c].activation

\* The strengthenings that make the safety properties inductive: running sums
\* grow along the stream and the counters are their differences; the stream row
\* remembers the highest data and frontier LSN; a frontier a consumer holds is
\* one it was allowed to take.
SumsSound ==
    /\ \A i, j \in 0 .. (next - 1) : i <= j =>
          total[i].rows <= total[j].rows /\ total[i].bytes <= total[j].bytes
    /\ buffered.chunks = next - first
    /\ buffered.rows = Rows(first, next - 1)
    /\ buffered.bytes = Bytes(first, next - 1)

LsnsSound ==
    /\ \A i \in 1 .. Len(log) :
          /\ log[i].lsn \in 1 .. wal
          /\ log[i].kind = "data" => log[i].lsn <= latestData
          /\ log[i].kind = "frontier" => Kind = "operator" /\ log[i].lsn <= frontier
    /\ latestData <= wal /\ frontier <= wal
    /\ Kind = "source" => \A i, j \in 1 .. Len(log) : i <= j => log[i].lsn <= log[j].lsn
    /\ Kind = "source" =>
          /\ frontier = 0
          /\ \A c \in Attached :
                /\ consumers[c].activation <= consumers[c].frontier
                /\ consumers[c].activation <= wal
                /\ \/ consumers[c].frontier = consumers[c].activation
                   \/ consumers[c].frontier <= published
    /\ Kind = "operator" => \A c \in Attached :
          \/ consumers[c].frontier = 0
          \/ \E i \in 1 .. (consumers[c].next - 1) :
                log[i].kind = "frontier" /\ log[i].lsn = consumers[c].frontier

\* A full stream drains: once backpressured, the consumers and the collector
\* bring it below all low watermarks and the producer may append again.
BackpressureClears == backpressured ~> ~backpressured

\* Every chunk appended to an operator stream is read by every consumer: each
\* cursor catches up with the tail again and again.
ConsumersCatchUp ==
    \A c \in Consumers : []<>(c \in Attached /\ consumers[c].next = next)

\* "A source consumer joins at the current stream tail and ignores
\* later-published backlog at or before activation_lsn"
\* (sql/12_effect_stream.sql:22-24): moving past such a chunk is accepted.
BacklogIgnored ==
    \A c \in Attached :
        consumers[c].next < next /\ log[consumers[c].next].lsn <= consumers[c].activation
            => AdvanceAccepted(c, 1, consumers[c].frontier)

\* Readers see an append-only log in order; retention and backpressure are
\* invisible to them.
Fanout == INSTANCE FanoutLog WITH
              Readers <- Consumers, Entries <- Chunk, log <- log,
              pos <- [c \in Attached |-> consumers[c].next], got <- delivered
RefinesFanoutLog == Fanout!Spec
=============================================================================
