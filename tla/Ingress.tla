------------------------------ MODULE Ingress ------------------------------
(***************************************************************************)
(* Replicated ingress: source WAL -> logical decoding -> bounded durable   *)
(* batches (src/ingress.rs, src/admission.rs, sql/11_ingress.sql) ->       *)
(* publication tasks -> source streams (src/publication.rs) -> published   *)
(* frontier, slot feedback and staging GC, driven by the Runtime loop      *)
(* (src/runtime/ingress.rs), across Runtime crashes and server restarts.   *)
(*                                                                         *)
(* An LSN is the index of a WAL record; the end LSN of record i is i + 1,  *)
(* 0 is NULL.  One change carries one row image of one byte.  A call that  *)
(* raises rolls back and ends the Runtime, which PostgreSQL restarts.      *)
(***************************************************************************)
EXTENDS Lists, FiniteSets, FiniteSetsExt

CONSTANTS
    Xids,           \* source transactions
    Sources,        \* source tables, ordered by their number (oid)
    Subs,           \* subtransactions a transaction may use
    Ends,           \* how source transactions end: "commit", "abort"
    Top,            \* the subxid of changes made by the top-level transaction
    BatchRows,      \* shiba.batch_rows, the budget of one ingress batch
    ChunkRows,      \* target_chunk_rows of a source stream
    StagingLimit,   \* shiba.ingress_staging_limit
    MaxChanges,     \* bound: changes written
    MaxDrops,       \* bound: times a source loses its last dataflow
    MaxCrashes,     \* bound: Runtime crashes injected
    MaxRestarts     \* bound: postmaster restarts

ASSUME IngressAssumption ==
    /\ Sources \subseteq Nat
    /\ Top \notin Subs /\ Ends \subseteq {"commit", "abort"}
    /\ BatchRows \in Nat \ {0} /\ ChunkRows \in Nat \ {0}
    /\ StagingLimit \in Nat /\ MaxChanges \in Nat /\ MaxDrops \in Nat
    /\ MaxCrashes \in Nat /\ MaxRestarts \in Nat

VARIABLES
    wal,            \* the records of the write-ahead log
    slot,           \* confirmed_flush_lsn of the logical slot
    sender,         \* walsender: [start, pos, streamed, sent]
    segment,        \* frames sent and not yet persisted, or NoSegment
    up,             \* a Runtime is running and connected
    pc,             \* where the Runtime loop is
    busy,           \* has_pending as read by the last publication step
    status,         \* the last standby status written to the connection
    txns,           \* ingress_transactions with change_log and tasks
    persisted, published, confirmed, replaySafe,   \* ingress_replay_state
    openPayload,    \* open_payload_bytes
    staleEpoch,     \* postmaster_started_at is of an earlier server start
    activation,     \* [Sources -> activation LSN of its Scan, 0: no stream]
    full,           \* [Sources -> backpressured]
    effects,        \* history: [Sources -> rows appended to its stream]
    refused,        \* history: why a batch was refused, so far
    drops, crashes, restarts    \* how often that happened

walVars == <<wal>>
senderVars == <<sender, segment>>
loopVars == <<up, pc, busy>>
replayVars == <<persisted, published, confirmed, replaySafe>>
streamVars == <<activation, full, effects, drops>>
faultVars == <<crashes, restarts>>
vars == <<wal, slot, sender, segment, up, pc, busy, status, txns, persisted,
          published, confirmed, replaySafe, openPayload, staleEpoch,
          activation, full, effects, drops, refused, crashes, restarts>>
-----------------------------------------------------------------------------
\* The write-ahead log, and what decoding it up to a position yields.

Positions == 1 .. Len(wal)
IsChange(i, x) == wal[i].op = "change" /\ wal[i].xid = x
IsEnd(i, x) == \/ wal[i].op \in {"commit", "abort"} /\ wal[i].xid = x
               \/ wal[i].op = "recovery"
Changes(x) == {i \in Positions : IsChange(i, x)}
\* A transaction has ended at or before position p (a server restart ends all).
EndedBy(x, p) == \E i \in Positions : i <= p /\ IsEnd(i, x)
                                      /\ \E j \in Changes(x) : j < i
Ended(x) == EndedBy(x, Len(wal))
InProgress(x) == Changes(x) # {} /\ ~Ended(x)
CommitLsns(x) == {i \in Positions : wal[i].op = "commit" /\ wal[i].xid = x}
Committed(x) == CommitLsns(x) # {}
CommitLsn(x) == CHOOSE i \in CommitLsns(x) : TRUE
RolledBackBy(x, s, p) ==
    \E i \in Positions : i < p /\ wal[i] = [op |-> "rollback", xid |-> x, sub |-> s]

\* The change events of x between two positions, in WAL order.  Inside a
\* stream segment pgoutput names the subtransaction of each change, in an
\* ordinary transaction it does not (validate_message_xid).
Queued(x, after, before, streamed) ==
    LET lsns == Ascending({i \in Changes(x) : /\ after < i /\ i < before
                                              /\ ~RolledBackBy(x, wal[i].sub, before)},
                          before - 1)
    IN [k \in 1 .. Len(lsns) |->
          [lsn |-> lsns[k], source |-> wal[lsns[k]].source,
           sub |-> IF streamed THEN wal[lsns[k]].sub ELSE Top]]

NoSegment == [xid |-> "none"]
NoBoundary == [kind |-> "none"]
Disconnected == [start |-> 0, pos |-> 0, streamed |-> <<>>,
                 sent |-> [x \in Xids |-> 0]]
Baseline == 1

Init ==
    /\ wal = <<>> /\ slot = Baseline
    /\ sender = Disconnected /\ segment = NoSegment
    /\ up = FALSE /\ pc = "publish" /\ busy = FALSE /\ status = 0
    /\ txns = <<>>
    /\ persisted = 0 /\ published = 0 /\ confirmed = 0 /\ replaySafe = 0
    /\ openPayload = 0 /\ staleEpoch = FALSE
    /\ activation = [s \in Sources |-> 0] /\ full = [s \in Sources |-> FALSE]
    /\ effects = [s \in Sources |-> <<>>]
    /\ refused = {} /\ drops = 0 /\ crashes = 0 /\ restarts = 0
-----------------------------------------------------------------------------
\* The source database (environment): writers, and dataflow registration.

WriteRecord(r) ==
    /\ wal' = Append(wal, r)
    /\ UNCHANGED <<slot, senderVars, loopVars, status, txns, replayVars,
                   openPayload, staleEpoch, streamVars, refused, faultVars>>

WriteChange(x, sub, s) ==
    /\ ~Ended(x)
    /\ Cardinality({i \in Positions : wal[i].op = "change"}) < MaxChanges
    /\ sub = Top \/ ~RolledBackBy(x, sub, Len(wal) + 1)
    /\ WriteRecord([op |-> "change", xid |-> x, sub |-> sub, source |-> s])

WriteRollback(x, sub) ==
    /\ InProgress(x) /\ ~RolledBackBy(x, sub, Len(wal) + 1)
    /\ \E i \in Changes(x) : wal[i].sub = sub
    /\ WriteRecord([op |-> "rollback", xid |-> x, sub |-> sub])

WriteEnd(x, op) == InProgress(x) /\ WriteRecord([op |-> op, xid |-> x])

\* A dataflow is registered over a source: the source is locked against
\* writers, and its Scan starts at the current end of WAL.
RegisterSource(s) ==
    /\ activation[s] = 0
    /\ \A x \in Xids : InProgress(x) => \A i \in Changes(x) : wal[i].source # s
    /\ activation' = [activation EXCEPT ![s] = Len(wal) + 1]
    /\ UNCHANGED <<wal, slot, senderVars, loopVars, status, txns, replayVars,
                   openPayload, staleEpoch, full, effects, drops, refused, faultVars>>

\* The last dataflow over a source is dropped, and its stream with it.
DropSource(s) ==
    /\ activation[s] # 0 /\ drops < MaxDrops
    /\ drops' = drops + 1
    /\ activation' = [activation EXCEPT ![s] = 0]
    /\ full' = [full EXCEPT ![s] = FALSE]
    /\ effects' = [effects EXCEPT ![s] = <<>>]
    /\ UNCHANGED <<wal, slot, senderVars, loopVars, status, txns, replayVars,
                   openPayload, staleEpoch, refused, faultVars>>

\* Operators read the stream and its GC passes the low watermark.
DrainStream(s) ==
    /\ full[s]
    /\ full' = [full EXCEPT ![s] = FALSE]
    /\ UNCHANGED <<wal, slot, senderVars, loopVars, status, txns, replayVars,
                   openPayload, staleEpoch, activation, effects, drops, refused, faultVars>>
-----------------------------------------------------------------------------
\* The walsender (external).  It decodes records in order and holds changes
\* back until their transaction commits; a transaction that commits before the
\* start position is skipped.  Only at or after the start position may it
\* stream a transaction that is still in progress.

Streamed == DOMAIN sender.streamed
Without(f, x) == [y \in DOMAIN f \ {x} |-> f[y]]

Send(x, start, events, streaming, end) ==
    segment' = [xid |-> x, start |-> start, events |-> events,
                streaming |-> streaming, end |-> end]

\* Memory pressure: everything queued for x so far goes out as one segment.
StreamSegment(x) ==
    /\ up /\ segment = NoSegment
    /\ sender.pos > sender.start /\ ~EndedBy(x, sender.pos - 1)
    /\ LET events == Queued(x, sender.sent[x], sender.pos, TRUE)
           start == IF x \in Streamed THEN sender.streamed[x] ELSE events[1].lsn
       IN /\ events # <<>>
          /\ Send(x, start, events, TRUE, NoBoundary)
          /\ sender' = [sender EXCEPT
                           !.streamed = [y \in Streamed \cup {x} |->
                                            IF y = x THEN start ELSE sender.streamed[y]],
                           !.sent = [sender.sent EXCEPT ![x] = sender.pos - 1]]
    /\ UNCHANGED <<wal, slot, loopVars, status, txns, replayVars, openPayload,
                   staleEpoch, streamVars, refused, faultVars>>

DecodeCommit(x) ==
    LET pos == sender.pos
        streaming == x \in Streamed
        events == Queued(x, sender.sent[x], pos, streaming)
        end == [kind |-> "commit", lsn |-> pos]
    IN IF pos < sender.start \/ (~streaming /\ events = <<>>)
       THEN UNCHANGED segment
       ELSE Send(x, IF streaming THEN sender.streamed[x] ELSE Min(Changes(x)),
                 events, streaming, end)

\* Only a subtransaction some of whose changes were streamed is aborted on
\* the wire.
DecodeRollback(x, sub) ==
    IF x \in Streamed /\ \E i \in Changes(x) : i <= sender.sent[x] /\ wal[i].sub = sub
    THEN Send(x, sender.streamed[x], <<>>, TRUE, [kind |-> "rollback", sub |-> sub])
    ELSE UNCHANGED segment

DecodeAbort(x) ==
    IF x \in Streamed
    THEN Send(x, sender.streamed[x], <<>>, TRUE, [kind |-> "abort", lsn |-> sender.pos])
    ELSE UNCHANGED segment

\* The records of a server restart end the transactions it interrupted
\* without a message: nothing is sent for them.
Decode ==
    /\ up /\ segment = NoSegment /\ sender.pos <= Len(wal)
    /\ LET r == wal[sender.pos] IN
         /\ CASE r.op = "commit" -> DecodeCommit(r.xid)
              [] r.op = "abort" -> DecodeAbort(r.xid)
              [] r.op = "rollback" -> DecodeRollback(r.xid, r.sub)
              [] OTHER -> UNCHANGED segment
         /\ sender' = [sender EXCEPT
                          !.pos = sender.pos + 1,
                          !.streamed = CASE r.op \in {"commit", "abort"} ->
                                              Without(sender.streamed, r.xid)
                                         [] r.op = "recovery" -> <<>>
                                         [] OTHER -> sender.streamed]
    /\ UNCHANGED <<wal, slot, loopVars, status, txns, replayVars, openPayload,
                   staleEpoch, streamVars, refused, faultVars>>

\* The slot takes over a status the Runtime sent.
SlotConfirms ==
    /\ status > slot
    /\ slot' = status
    /\ UNCHANGED <<wal, senderVars, loopVars, status, txns, replayVars,
                   openPayload, staleEpoch, streamVars, refused, faultVars>>
-----------------------------------------------------------------------------
\* poll_batch: frames are collected until the row budget, a StreamStop, or the
\* end of the transaction.  An ordinary transaction's Commit closes the batch
\* of its last rows; StreamCommit and StreamAbort are batches of their own.

TakenRows == IF Len(segment.events) < BatchRows THEN Len(segment.events) ELSE BatchRows
ReachesEnd == TakenRows < BatchRows /\ (~segment.streaming \/ segment.events = <<>>)
NextBatch == [xid |-> segment.xid, start |-> segment.start,
              events |-> SubSeq(segment.events, 1, TakenRows),
              end |-> IF ReachesEnd THEN segment.end ELSE NoBoundary]
RestOfSegment ==
    LET rest == SubSeq(segment.events, TakenRows + 1, Len(segment.events))
    IN IF ReachesEnd \/ (rest = <<>> /\ segment.end = NoBoundary)
       THEN NoSegment ELSE [segment EXCEPT !.events = rest]
-----------------------------------------------------------------------------
\* One ingress_transactions row with its change_log, its batch publication
\* tasks (next = 0: finished) and its aborted subtransactions.

NewHeader == [status |-> "open", final |-> 0, end |-> 0, log |-> <<>>,
              tasks |-> {}, batches |-> 0, pending |-> 0, aborted |-> {}]
HeaderId(batch) == [xid |-> batch.xid, start |-> batch.start]
\* claim_ingress_transaction: insert the header or find the existing one.
ClaimedHeader(batch) == IF HeaderId(batch) \in DOMAIN txns
                        THEN txns[HeaderId(batch)] ELSE NewHeader
\* At most one open header per source xid (ingress_open_txn_idx).
ClaimRefused(batch) ==
    /\ HeaderId(batch) \notin DOMAIN txns
    /\ \E id \in DOMAIN txns : id.xid = batch.xid /\ txns[id].status = "open"

LoggedLsns(h) == {h.log[k].lsn : k \in DOMAIN h.log}
\* Mutant: admit every incoming event.
FreshAll(h, batch) == DOMAIN batch.events
\* classify_replay: the incoming events that are not in change_log yet.
Fresh(h, batch) == {k \in DOMAIN batch.events : batch.events[k].lsn \notin LoggedLsns(h)}
IdentityConflict(h, batch) ==
    \E k \in DOMAIN batch.events, j \in DOMAIN h.log :
        h.log[j].lsn = batch.events[k].lsn /\ h.log[j] # batch.events[k]
\* Replayed events come first.
NotAPrefix(h, batch) ==
    \E k \in Fresh(h, batch) : \E j \in DOMAIN batch.events \ Fresh(h, batch) : k < j

OverStagingLimit(h, batch) ==
    Fresh(h, batch) # {} /\ openPayload + Cardinality(Fresh(h, batch)) > StagingLimit

\* validate_replay and the staging budget of write_batch: why it is refused.
AdmissionError(h, batch) ==
    CASE IdentityConflict(h, batch) -> {"identity"}
      [] ~IdentityConflict(h, batch) /\ NotAPrefix(h, batch) -> {"prefix"}
      [] ~IdentityConflict(h, batch) /\ ~NotAPrefix(h, batch)
         /\ h.status # "open" /\ Fresh(h, batch) # {} -> {"terminal"}
      [] ~IdentityConflict(h, batch) /\ ~NotAPrefix(h, batch)
         /\ h.status = "open" /\ OverStagingLimit(h, batch) -> {"limit"}
      [] OTHER -> {}

\* The publication tasks of a batch: one per source it touches.
BatchTasks(h, events) ==
    {[batch |-> h.batches + 1, source |-> s, last |-> Len(h.log) + Len(events),
      next |-> Len(h.log) + Min({k \in DOMAIN events : events[k].source = s})] :
     s \in {events[k].source : k \in DOMAIN events}}

\* write_batch: log the fresh suffix, open its tasks, count them.
Admitted(h, batch) ==
    LET fresh == Fresh(h, batch)
        new == [k \in 1 .. Cardinality(fresh) |->
                   batch.events[Len(batch.events) - Cardinality(fresh) + k]]
        tasks == BatchTasks(h, new)
    IN IF fresh = {} THEN h
       ELSE [h EXCEPT !.log = h.log \o new, !.batches = h.batches + 1,
                      !.tasks = h.tasks \cup tasks,
                      !.pending = h.pending + Cardinality(tasks)]

\* Why the boundary is refused: commit_, abort_ingress_transaction and
\* abort_ingress_subtransaction.
BoundaryError(h, batch) ==
    LET end == batch.end IN
    CASE end.kind = "commit" ->
           IF h.status = "aborted" \/ (h.status = "committed" /\ h.final # end.lsn)
           THEN {"commit"} ELSE {}
      [] end.kind = "abort" ->
           IF h.status = "committed"
              \/ (h.status = "aborted" /\ h.final \notin {end.lsn, batch.start})
           THEN {"abort"} ELSE {}
      [] end.kind = "rollback" -> IF h.status # "open" THEN {"rollback"} ELSE {}
      [] OTHER -> {}

\* The header after the boundary.  Finalizing again changes nothing.
Finalized(h, batch) ==
    LET end == batch.end IN
    CASE h.status = "open" /\ end.kind = "commit" ->
           [h EXCEPT !.status = "committed", !.final = end.lsn, !.end = end.lsn + 1]
      [] h.status = "open" /\ end.kind = "abort" ->
           [h EXCEPT !.status = "aborted", !.final = end.lsn, !.end = end.lsn,
                     !.pending = 0]
      [] end.kind = "rollback" -> [h EXCEPT !.aborted = h.aborted \cup {end.sub}]
      [] OTHER -> h
-----------------------------------------------------------------------------
\* persist_ingress_batch: claim, admit and finalize in one transaction.

Larger(a, b) == IF a >= b THEN a ELSE b
PutHeader(id, h) == [i \in DOMAIN txns \cup {id} |-> IF i = id THEN h ELSE txns[i]]

BatchError(batch) ==
    LET h == ClaimedHeader(batch) IN
    CASE ClaimRefused(batch) -> {"claim"}
      [] ~ClaimRefused(batch) /\ AdmissionError(h, batch) # {} -> AdmissionError(h, batch)
      [] OTHER -> BoundaryError(h, batch)

\* Mutant: progress is recorded with the first batch of a committed transaction.
PersistedTooEarly(batch) ==
    IF segment.end.kind = "commit" THEN Larger(persisted, segment.end.lsn + 1) ELSE persisted
\* Mutant: one past the end of the commit record.
PersistedPastEnd(batch) ==
    IF batch.end.kind = "commit" THEN Larger(persisted, batch.end.lsn + 2) ELSE persisted
\* Only a commit advances durable replication progress.
PersistedAfter(batch) ==
    IF batch.end.kind = "commit" THEN Larger(persisted, batch.end.lsn + 1) ELSE persisted

\* open_payload_bytes counts the payload of open headers only.
OpenPayloadAfter(batch) ==
    LET h == ClaimedHeader(batch)
        admitted == Admitted(h, batch)
        staged == openPayload + Len(admitted.log) - Len(h.log)
    IN IF h.status = "open" /\ batch.end.kind \in {"commit", "abort"}
       THEN staged - Len(admitted.log) ELSE staged

IngestBatch ==
    /\ up /\ pc = "ingest" /\ segment # NoSegment /\ BatchError(NextBatch) = {}
    /\ LET h == ClaimedHeader(NextBatch) IN
         txns' = PutHeader(HeaderId(NextBatch),
                           Finalized(Admitted(h, NextBatch), NextBatch))
    /\ openPayload' = OpenPayloadAfter(NextBatch)
    /\ persisted' = PersistedAfter(NextBatch)
    /\ segment' = RestOfSegment
    /\ pc' = "publish"
    /\ UNCHANGED <<wal, slot, sender, up, busy, status, published, confirmed,
                   replaySafe, staleEpoch, streamVars, refused, faultVars>>

\* The Runtime process ends; its connection and everything in memory is lost.
RuntimeEnds ==
    /\ up' = FALSE /\ pc' = "publish" /\ busy' = FALSE
    /\ sender' = Disconnected /\ segment' = NoSegment

\* A batch that is refused panics the Runtime and leaves nothing behind.
IngestRefused ==
    /\ up /\ pc = "ingest" /\ segment # NoSegment /\ BatchError(NextBatch) # {}
    /\ refused' = refused \cup BatchError(NextBatch)
    /\ RuntimeEnds
    /\ UNCHANGED <<wal, slot, status, txns, replayVars, openPayload, staleEpoch,
                   streamVars, faultVars>>

IngestNothing ==
    /\ up /\ pc = "ingest" /\ segment = NoSegment
    /\ pc' = "publish"
    /\ UNCHANGED <<wal, slot, senderVars, up, busy, status, txns, replayVars,
                   openPayload, staleEpoch, streamVars, refused, faultVars>>
-----------------------------------------------------------------------------
\* publish_source_batch: one bounded prefix of one task.

Tasks == {[id |-> id, task |-> t] : id \in DOMAIN txns, t \in UNION {txns[i].tasks : i \in DOMAIN txns}}
\* Unfinished tasks of committed transactions: open ones are invisible.
Waiting == {w \in Tasks : /\ w.task \in txns[w.id].tasks /\ w.task.next # 0
                          /\ txns[w.id].status = "committed"}
\* Mutant: tasks of open transactions count as pending.
HasPendingOpen(ts) == \E id \in DOMAIN ts : ts[id].pending > 0
\* has_pending: ingest waits while committed tasks are left.
HasPending(ts) == \E id \in DOMAIN ts : ts[id].status = "committed" /\ ts[id].pending > 0

\* (final_lsn, batch_ordinal, source_oid); commit LSNs are unique.
EarlierTask(v, w) ==
    \/ txns[v.id].final < txns[w.id].final
    \/ /\ v.id = w.id
       /\ \/ v.task.batch < w.task.batch
          \/ v.task.batch = w.task.batch /\ v.task.source < w.task.source
Wants(s, lsn) == activation[s] # 0 /\ activation[s] < lsn
Blocked(w) == full[w.task.source] /\ Wants(w.task.source, txns[w.id].final)

\* choose_candidate: the first waiting task whose stream is not blocked and
\* that has no earlier waiting task of its source.
Candidates ==
    LET ready == {w \in Waiting :
                    /\ ~Blocked(w)
                    /\ \A v \in Waiting : v.task.source = w.task.source => ~EarlierTask(v, w)}
    IN {w \in ready : \A v \in ready : v = w \/ EarlierTask(w, v)}

\* Mutant: rows of aborted subtransactions are not skipped.
LiveRowsAll(w) ==
    LET h == txns[w.id] IN
    Ascending({i \in w.task.next .. w.task.last : h.log[i].source = w.task.source},
              w.task.last)
\* The input sequences of the task that are left and were not rolled back.
LiveRows(w) ==
    LET h == txns[w.id] IN
    Ascending({i \in w.task.next .. w.task.last : /\ h.log[i].source = w.task.source
                                                  /\ h.log[i].sub \notin h.aborted},
              w.task.last)
ChunkOf(w) == IF Len(LiveRows(w)) <= ChunkRows THEN LiveRows(w)
              ELSE SubSeq(LiveRows(w), 1, ChunkRows)

\* The cursor after the chunk: the next live row, or 0 when there is none.
NextInputSeq(w) == IF Len(LiveRows(w)) > ChunkRows THEN LiveRows(w)[ChunkRows + 1] ELSE 0

\* advance_task: move the cursor; a finished task leaves the pending count.
AdvancedTask(w, next) ==
    LET h == txns[w.id] IN
    [h EXCEPT !.tasks = (h.tasks \ {w.task}) \cup {[w.task EXCEPT !.next = next]},
              !.pending = IF next = 0 THEN h.pending - 1 ELSE h.pending]

AppendChunk(w) ==
    LET s == w.task.source
        h == txns[w.id]
        rows == [k \in DOMAIN ChunkOf(w) |->
                    [xid |-> w.id.xid, lsn |-> h.log[ChunkOf(w)[k]].lsn, commit |-> h.final]]
    IN /\ Wants(s, h.final)
       /\ txns' = PutHeader(w.id, AdvancedTask(w, NextInputSeq(w)))
       /\ effects' = [effects EXCEPT ![s] = effects[s] \o rows]
       /\ \E b \in BOOLEAN : full' = [full EXCEPT ![s] = b /\ rows # <<>>]

DiscardTask(w) ==
    /\ ~Wants(w.task.source, txns[w.id].final)
    /\ txns' = PutHeader(w.id, AdvancedTask(w, 0))
    /\ UNCHANGED <<effects, full>>

PublishSource ==
    /\ up /\ pc = "publish"
    /\ \/ \E w \in Candidates : AppendChunk(w) \/ DiscardTask(w)
       \/ Candidates = {} /\ UNCHANGED <<txns, effects, full>>
    /\ busy' = HasPending(txns')
    /\ pc' = "frontier"
    /\ UNCHANGED <<wal, slot, senderVars, up, status, replayVars, openPayload,
                   staleEpoch, activation, drops, refused, faultVars>>

\* Mutant: the frontier passes transactions that still have tasks.
FrontierMovesToPending(h) == h.final <= persisted
\* advance_ingress_publication_frontier over the next sealed header h.
FrontierMovesTo(h) == h.final <= persisted /\ h.pending = 0

AdvanceFrontier ==
    LET sealed == {txns[id] : id \in {i \in DOMAIN txns : txns[i].final > published}}
        next == {h \in sealed : (\A g \in sealed : h.final <= g.final) /\ FrontierMovesTo(h)}
    IN /\ up /\ pc = "frontier"
       /\ published' = IF next = {} THEN published ELSE Min({h.final : h \in next})
       /\ pc' = IF busy THEN "publish" ELSE "ingest"
       /\ UNCHANGED <<wal, slot, senderVars, up, busy, status, txns, persisted,
                      confirmed, replaySafe, openPayload, staleEpoch, streamVars,
                      refused, faultVars>>
-----------------------------------------------------------------------------
\* maintain_feedback: the Runtime reports what it has persisted, and records
\* the report once it is flushed (possibly much later).

\* Mutant: report what was received.
FeedbackOfDecoded == IF sender.pos > status THEN sender.pos ELSE status
Feedback == persisted

SendStatus ==
    /\ up /\ pc = "publish" /\ Feedback > status
    /\ status' = Feedback
    /\ UNCHANGED <<wal, slot, senderVars, loopVars, txns, replayVars, openPayload,
                   staleEpoch, streamVars, refused, faultVars>>

RecordFeedback ==
    /\ up /\ pc = "publish" /\ status > confirmed /\ status <= persisted
    /\ confirmed' = status
    /\ UNCHANGED <<wal, slot, senderVars, loopVars, status, txns, persisted,
                   published, replaySafe, openPayload, staleEpoch, streamVars,
                   refused, faultVars>>

\* _gc_change_log: sealed, replay-safe and published headers.  Retention is a
\* matter of time, so any part of them may be old enough.
Garbage(safe) ==
    {id \in DOMAIN txns : /\ txns[id].status # "open" /\ safe >= txns[id].end
                          /\ published >= txns[id].final /\ txns[id].pending = 0}

\* Mutant: replay safety follows the slot.
ReplaySafeIsSlot == slot
\* reconcile_ingress_replay_safe: the slot proves what is replay-safe.
ReplaySafeAfter == Larger(replaySafe, slot)

\* gc_change_log: reconcile_ingress_replay_safe reads the slot, then delete.
CollectGarbage ==
    /\ up /\ pc = "publish" /\ persisted # 0 /\ slot <= persisted
    /\ confirmed' = Larger(confirmed, slot)
    /\ replaySafe' = ReplaySafeAfter
    /\ \E old \in SUBSET Garbage(replaySafe') :
         txns' = [id \in DOMAIN txns \ old |-> txns[id]]
    /\ UNCHANGED <<wal, slot, senderVars, loopVars, status, persisted, published,
                   openPayload, staleEpoch, streamVars, refused, faultVars>>
-----------------------------------------------------------------------------
\* Mutant: the tasks of retired headers stay pending.
ReconciledKeepingTasks ==
    [id \in DOMAIN txns |->
        IF txns[id].status = "open"
        THEN [txns[id] EXCEPT !.status = "aborted", !.final = id.start, !.end = id.start]
        ELSE txns[id]]
\* reconcile_postmaster_restart: no transaction survives a server restart, so
\* open headers become aborted at their own start LSN.
ReconciledHeaders ==
    [id \in DOMAIN txns |->
        IF txns[id].status = "open"
        THEN [txns[id] EXCEPT !.status = "aborted", !.final = id.start, !.end = id.start,
                              !.pending = 0]
        ELSE txns[id]]

\* bootstrap_ingress: check the slot against the generation, reconcile a
\* server restart, and replicate from what is persisted.
StartRuntime ==
    /\ ~up
    /\ slot >= Baseline
    /\ IF persisted = 0 THEN slot = Baseline ELSE slot <= persisted
    /\ txns' = IF staleEpoch THEN ReconciledHeaders ELSE txns
    /\ openPayload' = IF staleEpoch THEN 0 ELSE openPayload
    /\ staleEpoch' = FALSE
    /\ up' = TRUE /\ pc' = "publish" /\ busy' = FALSE /\ status' = 0
    /\ sender' = LET start == Larger(persisted, slot) IN
                 [Disconnected EXCEPT !.start = start, !.pos = start]
    /\ segment' = NoSegment
    /\ UNCHANGED <<wal, slot, replayVars, streamVars, refused, faultVars>>

RuntimeCrash ==
    /\ up /\ crashes < MaxCrashes
    /\ crashes' = crashes + 1
    /\ RuntimeEnds
    /\ UNCHANGED <<wal, slot, status, txns, replayVars, openPayload, staleEpoch,
                   streamVars, refused, restarts>>

\* The server goes down and recovers: transactions in progress are gone, and
\* the slot may fall back to a position it saved earlier.
PostmasterRestart ==
    /\ restarts < MaxRestarts
    /\ restarts' = restarts + 1
    /\ wal' = Append(wal, [op |-> "recovery"])
    /\ RuntimeEnds /\ staleEpoch' = TRUE /\ status' = 0
    /\ slot' \in {Baseline, slot}
    /\ UNCHANGED <<txns, replayVars, openPayload, streamVars, refused, crashes>>

Source ==
    \/ \E x \in Xids, s \in Sources, sub \in Subs \cup {Top} : WriteChange(x, sub, s)
    \/ \E x \in Xids, sub \in Subs : WriteRollback(x, sub)
    \/ \E x \in Xids, op \in Ends : WriteEnd(x, op)
    \/ \E s \in Sources : RegisterSource(s) \/ DropSource(s) \/ DrainStream(s)
Walsender == Decode \/ SlotConfirms \/ \E x \in Xids : StreamSegment(x)
Runtime ==
    \/ PublishSource \/ AdvanceFrontier
    \/ IngestBatch \/ IngestRefused \/ IngestNothing
    \/ SendStatus \/ RecordFeedback \/ CollectGarbage
    \/ StartRuntime
Fault == RuntimeCrash \/ PostmasterRestart

Next == Source \/ Walsender \/ Runtime \/ Fault
Spec == Init /\ [][Next]_vars

\* The Runtime is restarted and keeps looping, the walsender keeps decoding,
\* operators keep draining their streams.
Fairness ==
    /\ WF_vars(Decode)
    /\ WF_vars(PublishSource) /\ WF_vars(AdvanceFrontier)
    /\ WF_vars(IngestBatch) /\ WF_vars(IngestRefused) /\ WF_vars(IngestNothing)
    /\ WF_vars(StartRuntime)
    /\ \A s \in Sources : WF_vars(DrainStream(s))
LiveSpec == Spec /\ Fairness
-----------------------------------------------------------------------------
Lsn == 0 .. Len(wal) + 1
Event == [lsn : Positions, source : Sources, sub : Subs \cup {Top}]

\* Every catalog column and in-memory field keeps its type.
TypeOK ==
    /\ slot \in Lsn /\ status \in Lsn /\ up \in BOOLEAN /\ busy \in BOOLEAN
    /\ pc \in {"publish", "frontier", "ingest"}
    /\ sender.start \in Lsn /\ sender.pos \in Lsn /\ Streamed \subseteq Xids
    /\ segment = NoSegment \/ segment.xid \in Xids
    /\ \A id \in DOMAIN txns :
         /\ id.xid \in Xids /\ id.start \in Positions
         /\ txns[id].status \in {"open", "committed", "aborted"}
         /\ txns[id].final \in Lsn /\ txns[id].end \in Lsn
         /\ txns[id].log \in Seq(Event) /\ txns[id].pending \in Nat
         /\ \A t \in txns[id].tasks : t.next \in 0 .. t.last /\ t.last <= Len(txns[id].log)
    /\ persisted \in Lsn /\ published \in Lsn /\ confirmed \in Lsn /\ replaySafe \in Lsn
    /\ openPayload \in Nat /\ staleEpoch \in BOOLEAN
    /\ \A s \in Sources : activation[s] \in Lsn /\ full[s] \in BOOLEAN

\* A row that the source database keeps and that a Scan of s waits for: it
\* was committed after the activation, and its subtransaction was not rolled
\* back.
IsWanted(s, i) ==
    /\ wal[i].op = "change" /\ wal[i].source = s
    /\ Committed(wal[i].xid) /\ Wants(s, CommitLsn(wal[i].xid))
    /\ ~RolledBackBy(wal[i].xid, wal[i].sub, Len(wal) + 1)
EffectLsns(s) == {effects[s][k].lsn : k \in DOMAIN effects[s]}

\* A source stream only ever holds rows that are committed in the source,
\* whatever was streamed, aborted, rolled back or replayed before.
OnlyCommittedRows ==
    \A s \in Sources : \A i \in EffectLsns(s) : IsWanted(s, i)

\* Rows reach a source stream in commit order, within a transaction in WAL
\* order, each exactly once: strictly increasing by (commit LSN, change LSN).
CommitOrder ==
    \A s \in Sources : \A k \in 1 .. Len(effects[s]) - 1 :
        LET a == effects[s][k]
            b == effects[s][k + 1]
        IN a.commit < b.commit \/ (a.commit = b.commit /\ a.lsn < b.lsn)

\* published_lsn is a promise to every Scan: nothing that committed at or
\* before it is missing from its stream (advance_ingress_publication_frontier).
FrontierComplete ==
    \A s \in Sources : \A i \in Positions :
        IsWanted(s, i) /\ CommitLsn(wal[i].xid) <= published => i \in EffectLsns(s)

\* persisted_lsn is where replication resumes: a transaction that committed
\* before it is published, or staged completely and still committed.
PersistedComplete ==
    \A x \in Xids :
        /\ Committed(x) /\ CommitLsn(x) < persisted /\ CommitLsn(x) > published
        /\ \E i \in Changes(x) : ~RolledBackBy(x, wal[i].sub, Len(wal) + 1)
        => \E id \in DOMAIN txns :
                /\ id.xid = x /\ txns[id].status = "committed"
                /\ txns[id].final = CommitLsn(x)
                /\ \A i \in Changes(x) : ~RolledBackBy(x, wal[i].sub, Len(wal) + 1)
                                           => i \in LoggedLsns(txns[id])

\* The counters that gate ingest and the frontier are exact: pending_publications
\* of a live header counts its unfinished tasks, open_payload_bytes is the
\* payload of the open headers and never exceeds the staging limit.
AccountingExact ==
    LET open == {id \in DOMAIN txns : txns[id].status = "open"} IN
    /\ \A id \in DOMAIN txns :
         txns[id].pending =
             IF txns[id].status = "aborted" THEN 0
             ELSE Cardinality({t \in txns[id].tasks : t.next # 0})
    /\ openPayload = MapThenSumSet(LAMBDA id : Len(txns[id].log), open)
    /\ openPayload <= StagingLimit

\* The slot never passes durable progress, and published_lsn and confirmed_lsn
\* stay behind it: a crash can not lose a transaction PostgreSQL no longer has.
FeedbackSafe == /\ status <= persisted
                /\ persisted # 0 => slot <= persisted
                /\ persisted = 0 => slot = Baseline
                /\ published <= persisted /\ confirmed <= persisted
                /\ replaySafe <= confirmed

\* The progress columns never move back.
ProgressMonotone == [][ /\ persisted' >= persisted /\ published' >= published
                        /\ confirmed' >= confirmed /\ replaySafe' >= replaySafe ]_vars

\* Every committed transaction is eventually covered by published_lsn.
CommitsPublished ==
    \A x \in Xids : Committed(x) ~> (Committed(x) /\ published >= CommitLsn(x))

\* A header is sealed as aborted only if its source transaction is (comment on
\* postmaster_started_at).
AbortedInSource ==
    \A id \in DOMAIN txns : txns[id].status = "aborted" => ~Committed(id.xid)
-----------------------------------------------------------------------------
(* Not guaranteed by the code: see "Limits of the claims" in the README.     *)

\* Rows of a transaction whose header is sealed as aborted can be sent again,
\* more of them than before: by the replay of a recorded abort, and after a
\* server restart retired its prefix (validate_replay).
SealedPrefixReplayable == "terminal" \notin refused

\* An abort that was recorded before a crash can be replayed: so can the
\* StreamAbort of its subtransactions (abort_ingress_subtransaction).
RollbackReplayAccepted == "rollback" \notin refused

\* A replayed transaction and its events keep their identity, so that claim
\* and admission recognize them.
StableIdentity == refused \cap {"identity", "claim", "prefix"} = {}
=============================================================================
