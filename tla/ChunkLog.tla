------------------------------ MODULE ChunkLog ------------------------------
(***************************************************************************)
(* An operator EffectStream as a log of chunks, [kind, lsn, rows], and the *)
(* rule for what may be appended to it (execution/step.rs,                 *)
(* sql/12_effect_stream.sql).  Retention is EffectStream's subject.        *)
(***************************************************************************)
EXTENDS SinkPage, SequencesExt

None == [none |-> TRUE]   \* SQL NULL; no row and no continuation is equal to it
Data(lsn, rows) == [kind |-> "data", lsn |-> lsn, rows |-> rows]
Frontier(lsn) == [kind |-> "frontier", lsn |-> lsn, rows |-> <<>>]

Of(log, kind) == {i \in DOMAIN log : log[i].kind = kind}
LastLsn(log, kind) == Max({0} \cup {log[i].lsn : i \in Of(log, kind)})

\* All effects of the first n chunks of a log.
Effects(log, n) == FlattenSeq([i \in 1 .. n |-> log[i].rows])

\* No effect follows a frontier at or above its LSN, and the LSNs of data never
\* move backwards (record_output_append; append_effect_stream_chunk refuses
\* only the former).
Accepted(log, chunk) ==
    /\ chunk.lsn > LastLsn(log, "frontier")
    /\ chunk.lsn >= LastLsn(log, "data")

\* A producer retracts only rows it has published, in effect order.
Retracts(log, rows) ==
    \A k \in 1 .. Len(rows) :
        Net(Effects(log, Len(log)) \o SubSeq(rows, 1, k), rows[k].row) >= 0
=============================================================================
