--------------------------- MODULE IngressProofs ---------------------------
(***************************************************************************)
(* Proofs about Ingress: the replication session and its progress columns, *)
(* and the staged transactions with their publication tasks.               *)
(***************************************************************************)
EXTENDS Ingress, Induction, SequenceTheorems

\* The records a source database writes.
WalRecord ==
    [op : {"change"}, xid : Xids, sub : Subs \cup {Top}, source : Sources]
    \cup [op : {"rollback"}, xid : Xids, sub : Subs]
    \cup [op : {"commit", "abort"}, xid : Xids]
    \cup [op : {"recovery"}]

\* How a segment may end, and what the walsender may send.
Boundary ==
    [kind : {"none"}] \cup [kind : {"commit", "abort"}, lsn : Positions]
    \cup [kind : {"rollback"}, sub : Subs]
Segment == [xid : Xids, start : Positions, events : Seq(Event),
            streaming : BOOLEAN, end : Boundary]

WalOK == wal \in Seq(WalRecord)

ScalarsOK ==
    /\ slot \in Lsn /\ status \in Lsn /\ persisted \in Lsn
    /\ confirmed \in Lsn /\ replaySafe \in Lsn
    /\ up \in BOOLEAN /\ busy \in BOOLEAN /\ staleEpoch \in BOOLEAN
    /\ pc \in {"publish", "frontier", "ingest"}
    /\ activation \in [Sources -> Lsn] /\ full \in [Sources -> BOOLEAN]

SenderOK ==
    /\ sender = [start |-> sender.start, pos |-> sender.pos,
                 streamed |-> sender.streamed, sent |-> sender.sent]
    /\ sender.start \in Lsn /\ sender.pos \in Lsn /\ sender.start <= sender.pos
    /\ sender.sent \in [Xids -> Nat]
    /\ Streamed \subseteq Xids /\ \A x \in Streamed : sender.streamed[x] \in Positions

SegmentOK == segment = NoSegment \/ (up /\ segment \in Segment)

\* The session replicates from durable progress on: what it has decoded is
\* ahead of persisted_lsn, and so is a commit it has yet to persist.
SessionOK ==
    /\ up => sender.pos >= persisted /\ sender.start >= Baseline
    /\ segment # NoSegment /\ segment.end.kind = "commit" =>
          persisted <= segment.end.lsn /\ segment.end.lsn < sender.pos

\* FeedbackSafe without published_lsn.
FlushOK ==
    /\ status <= persisted /\ slot >= Baseline
    /\ persisted # 0 => slot <= persisted
    /\ persisted = 0 => slot = Baseline
    /\ confirmed <= persisted /\ replaySafe <= confirmed

SessionInv == WalOK /\ ScalarsOK /\ SenderOK /\ SegmentOK /\ SessionOK /\ FlushOK
-----------------------------------------------------------------------------
\* What decoding x between two positions yields: its changes in that range that
\* were not rolled back before its end, in WAL order.
LEMMA QueuedFacts ==
    ASSUME WalOK, NEW x \in Xids, NEW after \in Nat, NEW before \in Nat,
           1 <= before, before <= Len(wal) + 1, NEW streamed \in BOOLEAN
    PROVE  LET q == Queued(x, after, before, streamed) IN
           /\ q \in Seq(Event)
           /\ \A k \in 1 .. Len(q) :
                /\ q[k].lsn \in Changes(x) /\ after < q[k].lsn /\ q[k].lsn < before
                /\ q[k].source = wal[q[k].lsn].source
           /\ \A j, k \in 1 .. Len(q) : j < k => q[j].lsn < q[k].lsn
           /\ \A i \in Changes(x) :
                after < i /\ i < before /\ ~RolledBackBy(x, wal[i].sub, before)
                  => \E k \in 1 .. Len(q) : q[k].lsn = i
<1>. DEFINE S == {i \in Changes(x) : /\ after < i /\ i < before
                                     /\ ~RolledBackBy(x, wal[i].sub, before)}
            lsns == Ascending(S, before - 1)
            q == Queued(x, after, before, streamed)
<1>1. before - 1 \in Nat /\ S \in SUBSET (1 .. before - 1)
  BY DEF Changes, Positions
<1>2. /\ lsns \in Seq(S)
      /\ \A j, k \in 1 .. Len(lsns) : j < k => lsns[j] < lsns[k]
      /\ \A i \in S : \E k \in 1 .. Len(lsns) : lsns[k] = i
  <2>. HIDE DEF S
  <2>. QED BY <1>1, AscendingFacts
<1>3. q = [k \in 1 .. Len(lsns) |->
             [lsn |-> lsns[k], source |-> wal[lsns[k]].source,
              sub |-> IF streamed THEN wal[lsns[k]].sub ELSE Top]]
  BY DEF Queued
<1>4. \A i \in S : /\ i \in Positions /\ i \in Changes(x) /\ after < i /\ i < before
                   /\ wal[i].source \in Sources /\ wal[i].sub \in Subs \cup {Top}
  <2>1. SUFFICES ASSUME NEW i \in Positions, IsChange(i, x)
                 PROVE  wal[i].source \in Sources /\ wal[i].sub \in Subs \cup {Top}
    BY DEF Changes
  <2>2. wal[i] \in WalRecord
    BY DEF WalOK, Positions
  <2>. QED BY <2>1, <2>2 DEF WalRecord, IsChange
<1>. HIDE DEF S, lsns, q
<1>5. Len(lsns) \in Nat /\ \A k \in 1 .. Len(lsns) : lsns[k] \in S
  BY <1>2, ElementOfSeq
<1>6. \A k \in 1 .. Len(lsns) :
        [lsn |-> lsns[k], source |-> wal[lsns[k]].source,
         sub |-> IF streamed THEN wal[lsns[k]].sub ELSE Top] \in Event
  BY <1>4, <1>5 DEF Event
<1>7. q \in Seq(Event) /\ Len(q) = Len(lsns)
  BY <1>3, <1>5, <1>6
<1>8. \A k \in 1 .. Len(q) :
        q[k].lsn = lsns[k] /\ q[k].source = wal[lsns[k]].source
  BY <1>3, <1>7
<1>9. \A i \in Changes(x) :
        after < i /\ i < before /\ ~RolledBackBy(x, wal[i].sub, before) => i \in S
  BY DEF S
<1>. QED BY <1>2, <1>4, <1>5, <1>7, <1>8, <1>9 DEF q
-----------------------------------------------------------------------------
\* The write-ahead log only grows.

\* One more record: the earlier ones keep their positions.
LEMMA WalGrows ==
    ASSUME WalOK, NEW r \in WalRecord, wal' = Append(wal, r)
    PROVE  /\ WalOK' /\ Len(wal') = Len(wal) + 1 /\ Len(wal) \in Nat
           /\ Positions \subseteq Positions' /\ Lsn \subseteq Lsn'
           /\ \A i \in Positions : wal'[i] = wal[i]
           /\ wal'[Len(wal) + 1] = r
BY DEF WalOK, Positions, Lsn

\* A sequence over a set is a sequence over every larger one.
LEMMA SeqGrows ==
    ASSUME NEW A, NEW B, A \subseteq B, NEW s \in Seq(A) PROVE s \in Seq(B)
BY ElementOfSeq

\* A longer log admits the segments that a shorter one admitted.
LEMMA TypesGrow ==
    ASSUME WalOK, Positions \subseteq Positions'
    PROVE  /\ Event \subseteq Event' /\ Seq(Event) \subseteq Seq(Event')
           /\ Segment \subseteq Segment'
<1>1. Event \subseteq Event'
  BY DEF Event
<1>2. Seq(Event) \subseteq Seq(Event')
  BY <1>1, SeqGrows
<1>3. Boundary \subseteq Boundary'
  BY DEF Boundary
<1>4. ASSUME NEW s \in Segment PROVE s \in Segment'
  BY <1>2, <1>3 DEF Segment
<1>. QED BY <1>1, <1>2, <1>4

\* A step of the source database appends at most one record.
LEMMA SourceRecords ==
    ASSUME Source, IngressAssumption
    PROVE  /\ wal' = wal \/ \E r \in WalRecord : wal' = Append(wal, r)
           /\ UNCHANGED <<txns, openPayload, persisted, published, confirmed, replaySafe>>
<1>. USE DEF replayVars
<1>1. ASSUME NEW x \in Xids, NEW s \in Sources, NEW sub \in Subs \cup {Top},
             WriteChange(x, sub, s)
      PROVE  /\ \E r \in WalRecord : wal' = Append(wal, r)
             /\ UNCHANGED <<txns, openPayload, persisted, published, confirmed, replaySafe>>
  BY <1>1 DEF WriteChange, WriteRecord, WalRecord
<1>2. ASSUME NEW x \in Xids, NEW sub \in Subs, WriteRollback(x, sub)
      PROVE  /\ \E r \in WalRecord : wal' = Append(wal, r)
             /\ UNCHANGED <<txns, openPayload, persisted, published, confirmed, replaySafe>>
  BY <1>2 DEF WriteRollback, WriteRecord, WalRecord
<1>3. ASSUME NEW x \in Xids, NEW op \in Ends, WriteEnd(x, op)
      PROVE  /\ \E r \in WalRecord : wal' = Append(wal, r)
             /\ UNCHANGED <<txns, openPayload, persisted, published, confirmed, replaySafe>>
  <2>1. op \in {"commit", "abort"}
    BY DEF IngressAssumption
  <2>. QED BY <1>3, <2>1 DEF WriteEnd, WriteRecord, WalRecord
<1>4. ASSUME NEW s \in Sources, RegisterSource(s) \/ DropSource(s) \/ DrainStream(s)
      PROVE  UNCHANGED <<wal, txns, openPayload, persisted, published, confirmed, replaySafe>>
  BY <1>4 DEF RegisterSource, DropSource, DrainStream
<1>. QED BY <1>1, <1>2, <1>3, <1>4 DEF Source
-----------------------------------------------------------------------------
\* What poll_batch takes off a segment, and what it leaves.
LEMMA BatchFacts ==
    ASSUME segment \in Segment, IngressAssumption
    PROVE  /\ NextBatch.xid = segment.xid /\ NextBatch.start = segment.start
           /\ NextBatch.xid \in Xids /\ NextBatch.start \in Positions
           /\ NextBatch.events = SubSeq(segment.events, 1, TakenRows)
           /\ NextBatch.events \in Seq(Event) /\ Len(NextBatch.events) = TakenRows
           /\ TakenRows \in Nat /\ TakenRows <= Len(segment.events)
           /\ \A k \in 1 .. TakenRows : NextBatch.events[k] = segment.events[k]
           /\ NextBatch.end = IF ReachesEnd THEN segment.end ELSE NoBoundary
           /\ NextBatch.end \in Boundary
           /\ ReachesEnd => TakenRows = Len(segment.events) /\ RestOfSegment = NoSegment
<1>1. segment.events \in Seq(Event) /\ Len(segment.events) \in Nat /\ BatchRows \in Nat
  BY DEF Segment, IngressAssumption
<1>2. TakenRows \in Nat /\ TakenRows <= Len(segment.events)
  BY <1>1 DEF TakenRows
<1>3. /\ SubSeq(segment.events, 1, TakenRows) \in Seq(Event)
      /\ Len(SubSeq(segment.events, 1, TakenRows)) = TakenRows
      /\ \A k \in 1 .. TakenRows :
           SubSeq(segment.events, 1, TakenRows)[k] = segment.events[k]
  BY <1>1, <1>2
<1>4. (IF ReachesEnd THEN segment.end ELSE NoBoundary) \in Boundary
  BY DEF Segment, Boundary, NoBoundary
<1>5. ReachesEnd => TakenRows = Len(segment.events) /\ RestOfSegment = NoSegment
  BY <1>1 DEF ReachesEnd, TakenRows, RestOfSegment
<1>. QED BY <1>2, <1>3, <1>4, <1>5 DEF NextBatch, Segment

\* What ReplicationSession keeps of a segment when the batch limit cuts it.
LEMMA RestFacts ==
    ASSUME segment \in Segment, IngressAssumption, RestOfSegment # NoSegment
    PROVE  /\ RestOfSegment \in Segment /\ ~ReachesEnd
           /\ RestOfSegment.xid = segment.xid /\ RestOfSegment.start = segment.start
           /\ RestOfSegment.streaming = segment.streaming
           /\ RestOfSegment.end = segment.end
           /\ Len(RestOfSegment.events) = Len(segment.events) - TakenRows
           /\ \A k \in 1 .. Len(RestOfSegment.events) :
                RestOfSegment.events[k] = segment.events[TakenRows + k]
<1>. DEFINE rest == SubSeq(segment.events, TakenRows + 1, Len(segment.events))
<1>1. segment.events \in Seq(Event) /\ Len(segment.events) \in Nat
  BY DEF Segment
<1>2. TakenRows \in Nat /\ TakenRows <= Len(segment.events)
  BY BatchFacts
<1>3. /\ rest \in Seq(Event) /\ Len(rest) = Len(segment.events) - TakenRows
      /\ \A k \in 1 .. Len(rest) : rest[k] = segment.events[TakenRows + k]
  BY <1>1, <1>2
<1>4. ~ReachesEnd /\ RestOfSegment = [segment EXCEPT !.events = rest]
  BY DEF RestOfSegment
<1>. HIDE DEF rest
<1>. QED BY <1>3, <1>4 DEF Segment
-----------------------------------------------------------------------------
\* The session invariant.

\* The session invariant of the database before replication starts.
LEMMA SessionInit == ASSUME IngressAssumption, Init PROVE SessionInv
<1>. USE DEF Init, Baseline
<1>1. WalOK
  BY DEF WalOK
<1>2. Lsn = 0 .. 1
  BY DEF Lsn
<1>3. ScalarsOK
  <2>1. /\ slot \in Lsn /\ status \in Lsn /\ persisted \in Lsn
        /\ confirmed \in Lsn /\ replaySafe \in Lsn
        /\ pc \in {"publish", "frontier", "ingest"}
    BY <1>2
  <2>2. activation \in [Sources -> Lsn]
    BY <1>2
  <2>3. up \in BOOLEAN /\ busy \in BOOLEAN /\ staleEpoch \in BOOLEAN
    OBVIOUS
  <2>4. full \in [Sources -> BOOLEAN]
    OBVIOUS
  <2>. QED BY <2>1, <2>2, <2>3, <2>4, Zenon DEF ScalarsOK
<1>4. SenderOK
  BY <1>2 DEF SenderOK, Disconnected, Streamed
<1>5. SegmentOK /\ SessionOK
  BY DEF SegmentOK, SessionOK
<1>6. FlushOK
  BY DEF FlushOK
<1>. QED BY <1>1, <1>3, <1>4, <1>5, <1>6 DEF SessionInv

\* A writer appends a record: what was sent or persisted is not affected.
LEMMA SessionWrite ==
    ASSUME SessionInv, NEW r \in WalRecord, WriteRecord(r)
    PROVE  SessionInv'
<1>. USE DEF SessionInv, WriteRecord, senderVars, loopVars, replayVars, streamVars
<1>1. WalOK' /\ Positions \subseteq Positions' /\ Lsn \subseteq Lsn'
  BY WalGrows
<1>2. ScalarsOK'
  BY <1>1 DEF ScalarsOK
<1>3. SenderOK'
  <2>1. sender' = sender
    OBVIOUS
  <2>. QED BY <1>1, <2>1 DEF SenderOK, Streamed
<1>4. SegmentOK'
  BY <1>1, TypesGrow DEF SegmentOK
<1>5. SessionOK' /\ FlushOK'
  BY DEF SessionOK, FlushOK
<1>. QED BY <1>1, <1>2, <1>3, <1>4, <1>5

\* A change of what the session does not touch.
LEMMA SessionSame ==
    ASSUME SessionInv, ScalarsOK', SessionOK', FlushOK',
           UNCHANGED <<wal, sender, segment, up>>
    PROVE  SessionInv'
<1>1. Positions' = Positions /\ Lsn' = Lsn
  BY DEF Positions, Lsn
<1>2. WalOK' /\ SenderOK'
  BY <1>1 DEF SessionInv, WalOK, SenderOK, Streamed
<1>3. SegmentOK'
  BY <1>1, TypesGrow DEF SessionInv, SegmentOK
<1>. QED BY <1>2, <1>3 DEF SessionInv

\* The Runtime process ends.
LEMMA SessionEnds ==
    ASSUME SessionInv, RuntimeEnds, WalOK', ScalarsOK', FlushOK'
    PROVE  SessionInv'
<1>. USE DEF SessionInv, RuntimeEnds
<1>1. Len(wal') \in Nat
  BY DEF WalOK
<1>2. SenderOK'
  BY <1>1 DEF SenderOK, Disconnected, Streamed, Lsn
<1>3. SegmentOK' /\ SessionOK'
  BY DEF SegmentOK, SessionOK
<1>. QED BY <1>2, <1>3

\* The walsender sends what it has queued, or decodes one record.
LEMMA SessionStream ==
    ASSUME SessionInv, NEW x \in Xids, StreamSegment(x)
    PROVE  SessionInv'
<1>. USE DEF SessionInv
<1>. DEFINE events == Queued(x, sender.sent[x], sender.pos, TRUE)
            start == IF x \in Streamed THEN sender.streamed[x] ELSE events[1].lsn
<1>1. /\ up /\ events # <<>> /\ sender.pos > sender.start
      /\ segment' = [xid |-> x, start |-> start, events |-> events,
                     streaming |-> TRUE, end |-> NoBoundary]
      /\ sender' = [sender EXCEPT
                       !.streamed = [y \in Streamed \cup {x} |->
                                        IF y = x THEN start ELSE sender.streamed[y]],
                       !.sent = [sender.sent EXCEPT ![x] = sender.pos - 1]]
      /\ UNCHANGED <<wal, slot, up, pc, busy, status, persisted, confirmed, replaySafe,
                     staleEpoch, activation, full>>
  BY DEF StreamSegment, Send, loopVars, replayVars, streamVars
<1>2. /\ Len(wal) \in Nat /\ sender.pos \in Nat /\ sender.sent[x] \in Nat
      /\ 1 <= sender.pos /\ sender.pos <= Len(wal) + 1
  BY <1>1 DEF WalOK, SenderOK, Lsn
<1>3. events \in Seq(Event)
  BY <1>2, QueuedFacts
<1>4. start \in Positions
  <2>1. events[1] \in Event
    <3>. HIDE DEF events
    <3>1. 1 \in 1 .. Len(events)
      BY <1>1, <1>3
    <3>. QED BY <1>3, <3>1, ElementOfSeq
  <2>. QED BY <2>1 DEF Event, SenderOK
<1>. HIDE DEF events, start
<1>5. Positions' = Positions /\ Lsn' = Lsn
  BY <1>1 DEF Positions, Lsn
<1>6. WalOK' /\ ScalarsOK' /\ FlushOK'
  BY <1>1, <1>5 DEF WalOK, ScalarsOK, FlushOK
<1>7. /\ sender'.start = sender.start /\ sender'.pos = sender.pos
      /\ sender'.streamed = [y \in Streamed \cup {x} |->
                               IF y = x THEN start ELSE sender.streamed[y]]
      /\ sender'.sent = [sender.sent EXCEPT ![x] = sender.pos - 1]
      /\ sender' = [start |-> sender'.start, pos |-> sender'.pos,
                    streamed |-> sender'.streamed, sent |-> sender'.sent]
  BY <1>1 DEF SenderOK
<1>8. SenderOK'
  <2>1. sender'.sent \in [Xids -> Nat]
    BY <1>2, <1>7 DEF SenderOK
  <2>2. DOMAIN sender'.streamed = Streamed \cup {x}
    BY <1>7
  <2>3. \A y \in Streamed \cup {x} : sender'.streamed[y] \in Positions
    BY <1>4, <1>7 DEF SenderOK
  <2>. QED BY <1>5, <1>7, <2>1, <2>2, <2>3 DEF SenderOK, Streamed
<1>9. SegmentOK'
  <2>1. segment' \in Segment
    BY <1>1, <1>3, <1>4 DEF Segment, Boundary, NoBoundary
  <2>2. Segment \subseteq Segment'
    BY <1>5, TypesGrow
  <2>. QED BY <1>1, <2>1, <2>2 DEF SegmentOK
<1>10. SessionOK'
  BY <1>1, <1>7 DEF SessionOK, NoBoundary
<1>. QED BY <1>6, <1>8, <1>9, <1>10

\* The segment a decoded record sends, if any.
LEMMA DecodedSegment ==
    ASSUME SessionInv, Decode
    PROVE  \/ segment' = NoSegment
           \/ /\ segment' \in Segment
              /\ segment'.end.kind \in {"commit", "abort"} => segment'.end.lsn = sender.pos
<1>. DEFINE r == wal[sender.pos]
<1>. USE DEF SessionInv
<1>1. /\ up /\ segment = NoSegment /\ sender.pos <= Len(wal)
      /\ CASE r.op = "commit" -> DecodeCommit(r.xid)
           [] r.op = "abort" -> DecodeAbort(r.xid)
           [] r.op = "rollback" -> DecodeRollback(r.xid, r.sub)
           [] OTHER -> UNCHANGED segment
  BY DEF Decode
<1>2. Len(wal) \in Nat /\ sender.pos \in Positions
  BY <1>1 DEF WalOK, SenderOK, SessionOK, Lsn, Positions, Baseline
<1>3. r \in WalRecord
  BY <1>2 DEF WalOK, Positions
<1>. HIDE DEF r
<1>4. CASE r.op = "commit"
  <2>. DEFINE streaming == r.xid \in Streamed
              events == Queued(r.xid, sender.sent[r.xid], sender.pos, streaming)
              start == IF streaming THEN sender.streamed[r.xid] ELSE Min(Changes(r.xid))
              end == [kind |-> "commit", lsn |-> sender.pos]
  <2>1. r.xid \in Xids
    BY <1>3, <1>4 DEF WalRecord
  <2>2. DecodeCommit(r.xid)
    BY <1>1, <1>4
  <2>3. \/ UNCHANGED segment
        \/ /\ ~(~streaming /\ events = <<>>)
           /\ segment' = [xid |-> r.xid, start |-> start, events |-> events,
                          streaming |-> streaming, end |-> end]
    BY <2>2 DEF DecodeCommit, Send
  <2>4. /\ events \in Seq(Event)
        /\ \A k \in 1 .. Len(events) : events[k].lsn \in Changes(r.xid)
    <3>1. sender.sent[r.xid] \in Nat /\ streaming \in BOOLEAN /\ sender.pos \in Nat
          /\ 1 <= sender.pos /\ sender.pos <= Len(wal) + 1
      BY <1>2, <2>1 DEF SenderOK, Positions
    <3>. HIDE DEF streaming
    <3>. QED BY <2>1, <3>1, QueuedFacts
  <2>5. ~(~streaming /\ events = <<>>) => start \in Positions
    <3>1. CASE streaming
      BY <3>1 DEF SenderOK
    <3>2. CASE ~streaming /\ events # <<>>
      <4>1. 1 \in 1 .. Len(events)
        BY <2>4, <3>2
      <4>2. Changes(r.xid) # {} /\ Changes(r.xid) \in SUBSET Nat
        BY <2>4, <4>1 DEF Changes, Positions
      <4>3. Min(Changes(r.xid)) \in Changes(r.xid)
        BY <4>2, MinOfNats
      <4>. QED BY <3>2, <4>3 DEF Changes
    <3>. QED BY <3>1, <3>2
  <2>6. end \in Boundary
    BY <1>2 DEF Boundary
  <2>7. streaming \in BOOLEAN
    OBVIOUS
  <2>. HIDE DEF streaming, events, start
  <2>. QED BY <1>1, <2>1, <2>3, <2>4, <2>5, <2>6, <2>7 DEF Segment
<1>5. CASE r.op = "abort"
  <2>1. r.xid \in Xids /\ DecodeAbort(r.xid)
    BY <1>1, <1>3, <1>5 DEF WalRecord
  <2>2. r.xid \in Streamed => sender.streamed[r.xid] \in Positions
    BY DEF SenderOK
  <2>3. [kind |-> "abort", lsn |-> sender.pos] \in Boundary
    BY <1>2 DEF Boundary
  <2>4. \/ UNCHANGED segment
        \/ /\ r.xid \in Streamed
           /\ segment' = [xid |-> r.xid, start |-> sender.streamed[r.xid], events |-> <<>>,
                          streaming |-> TRUE, end |-> [kind |-> "abort", lsn |-> sender.pos]]
    BY <2>1 DEF DecodeAbort, Send
  <2>5. <<>> \in Seq(Event)
    OBVIOUS
  <2>6. r.xid \in Streamed =>
          [xid |-> r.xid, start |-> sender.streamed[r.xid], events |-> <<>>,
           streaming |-> TRUE, end |-> [kind |-> "abort", lsn |-> sender.pos]] \in Segment
    BY <2>1, <2>2, <2>3, <2>5 DEF Segment
  <2>7. segment = NoSegment
    BY <1>1
  <2>8. CASE UNCHANGED segment
    BY <2>7, <2>8
  <2>9. CASE r.xid \in Streamed /\ segment' # segment
    <3>1. segment' \in Segment
      BY <2>4, <2>6, <2>9
    <3>2. segment'.end = [kind |-> "abort", lsn |-> sender.pos]
      BY <2>4, <2>9
    <3>. QED BY <3>1, <3>2
  <2>. QED BY <2>4, <2>8, <2>9
<1>6. CASE r.op = "rollback"
  <2>1. r.xid \in Xids /\ r.sub \in Subs /\ DecodeRollback(r.xid, r.sub)
    BY <1>1, <1>3, <1>6 DEF WalRecord
  <2>2. r.xid \in Streamed => sender.streamed[r.xid] \in Positions
    BY DEF SenderOK
  <2>3. [kind |-> "rollback", sub |-> r.sub] \in Boundary
    BY <2>1 DEF Boundary
  <2>4. \/ UNCHANGED segment
        \/ /\ r.xid \in Streamed
           /\ segment' = [xid |-> r.xid, start |-> sender.streamed[r.xid], events |-> <<>>,
                          streaming |-> TRUE, end |-> [kind |-> "rollback", sub |-> r.sub]]
    BY <2>1 DEF DecodeRollback, Send
  <2>5. <<>> \in Seq(Event)
    OBVIOUS
  <2>6. r.xid \in Streamed =>
          [xid |-> r.xid, start |-> sender.streamed[r.xid], events |-> <<>>,
           streaming |-> TRUE, end |-> [kind |-> "rollback", sub |-> r.sub]] \in Segment
    BY <2>1, <2>2, <2>3, <2>5 DEF Segment
  <2>7. segment = NoSegment
    BY <1>1
  <2>8. CASE UNCHANGED segment
    BY <2>7, <2>8
  <2>9. CASE r.xid \in Streamed /\ segment' # segment
    <3>1. segment' \in Segment
      BY <2>4, <2>6, <2>9
    <3>2. segment'.end = [kind |-> "rollback", sub |-> r.sub]
      BY <2>4, <2>9
    <3>. QED BY <3>1, <3>2
  <2>. QED BY <2>4, <2>8, <2>9
<1>7. CASE r.op \notin {"commit", "abort", "rollback"}
  BY <1>1, <1>7
<1>. QED BY <1>4, <1>5, <1>6, <1>7

\* Decoding one record keeps the session invariant.
LEMMA SessionDecode ==
    ASSUME SessionInv, Decode
    PROVE  SessionInv'
<1>. USE DEF SessionInv
<1>. DEFINE r == wal[sender.pos]
            streamed == CASE r.op \in {"commit", "abort"} -> Without(sender.streamed, r.xid)
                          [] r.op = "recovery" -> <<>>
                          [] OTHER -> sender.streamed
<1>1. /\ up /\ segment = NoSegment /\ sender.pos <= Len(wal)
      /\ sender' = [sender EXCEPT !.pos = sender.pos + 1, !.streamed = streamed]
      /\ UNCHANGED <<wal, slot, up, pc, busy, status, persisted, confirmed, replaySafe,
                     staleEpoch, activation, full>>
  BY DEF Decode, loopVars, replayVars, streamVars
<1>2. DOMAIN streamed \subseteq Streamed /\ \A y \in DOMAIN streamed : streamed[y] = sender.streamed[y]
  BY DEF Without, Streamed
<1>. HIDE DEF r, streamed
<1>3. Len(wal) \in Nat /\ sender.pos + 1 \in Lsn /\ sender.start <= sender.pos + 1
  BY <1>1 DEF WalOK, SenderOK, Lsn
<1>5. Positions' = Positions /\ Lsn' = Lsn
  BY <1>1 DEF Positions, Lsn
<1>6. WalOK' /\ ScalarsOK' /\ FlushOK'
  BY <1>1, <1>5 DEF WalOK, ScalarsOK, FlushOK
<1>7. /\ sender'.start = sender.start /\ sender'.pos = sender.pos + 1
      /\ sender'.streamed = streamed /\ sender'.sent = sender.sent
      /\ sender' = [start |-> sender'.start, pos |-> sender'.pos,
                    streamed |-> sender'.streamed, sent |-> sender'.sent]
  BY <1>1 DEF SenderOK
<1>8. SenderOK'
  BY <1>2, <1>3, <1>5, <1>7 DEF SenderOK, Streamed
<1>9. SegmentOK'
  <2>1. Segment \subseteq Segment'
    BY <1>5, TypesGrow
  <2>. QED BY <1>1, <2>1, DecodedSegment DEF SegmentOK
<1>10. SessionOK'
  <2>1. sender.pos \in Nat /\ persisted \in Nat /\ sender.start \in Nat
    BY <1>3 DEF SenderOK, ScalarsOK, Lsn
  <2>. QED BY <1>1, <1>7, <2>1, DecodedSegment DEF SessionOK
<1>. QED BY <1>6, <1>8, <1>9, <1>10

\* A batch is persisted: only its commit moves persisted_lsn, to the end of the
\* commit record, which the session has decoded.
LEMMA SessionIngest ==
    ASSUME SessionInv, IngressAssumption, IngestBatch
    PROVE  SessionInv' /\ persisted' >= persisted
<1>. USE DEF SessionInv
<1>1. /\ up /\ segment # NoSegment
      /\ persisted' = PersistedAfter(NextBatch) /\ segment' = RestOfSegment
      /\ pc' = "publish"
      /\ UNCHANGED <<wal, slot, sender, up, busy, status, confirmed, replaySafe,
                     staleEpoch, activation, full>>
  BY DEF IngestBatch, streamVars
<1>2. segment \in Segment /\ segment.end \in Boundary
  BY <1>1 DEF SegmentOK, Segment
<1>3. Positions' = Positions /\ Lsn' = Lsn
  BY <1>1 DEF Positions, Lsn
<1>4. Len(wal) \in Nat /\ persisted \in Nat /\ sender.pos \in Nat /\ slot \in Nat
      /\ confirmed \in Nat /\ replaySafe \in Nat /\ status \in Nat
  BY DEF WalOK, ScalarsOK, SenderOK, Lsn
<1>5. \/ persisted' = persisted /\ NextBatch.end.kind # "commit"
      \/ /\ ReachesEnd /\ segment.end.kind = "commit" /\ segment' = NoSegment
         /\ persisted' = segment.end.lsn + 1
         /\ persisted <= segment.end.lsn /\ segment.end.lsn < sender.pos
         /\ segment.end.lsn \in Positions
  <2>1. CASE NextBatch.end.kind = "commit"
    <3>1. ReachesEnd /\ NextBatch.end = segment.end /\ RestOfSegment = NoSegment
      BY <1>2, <2>1, BatchFacts DEF NoBoundary
    <3>2. segment.end.lsn \in Positions
      BY <1>2, <2>1, <3>1 DEF Boundary
    <3>3. persisted <= segment.end.lsn /\ segment.end.lsn < sender.pos
      BY <1>1, <2>1, <3>1 DEF SessionOK
    <3>4. persisted' = segment.end.lsn + 1
      BY <1>1, <1>4, <2>1, <3>1, <3>2, <3>3 DEF PersistedAfter, Larger, Positions
    <3>. QED BY <1>1, <2>1, <3>1, <3>2, <3>3, <3>4
  <2>2. CASE NextBatch.end.kind # "commit"
    BY <1>1, <2>2 DEF PersistedAfter
  <2>. QED BY <2>1, <2>2
<1>6. persisted' >= persisted /\ persisted' \in Lsn /\ sender.pos >= persisted'
  BY <1>1, <1>4, <1>5 DEF Positions, Lsn, ScalarsOK, SessionOK
<1>7. ScalarsOK'
  BY <1>1, <1>3, <1>6 DEF ScalarsOK
<1>8. FlushOK'
  <2>1. persisted' \in Nat
    BY <1>4, <1>6 DEF Lsn
  <2>. QED BY <1>1, <1>4, <1>6, <2>1 DEF FlushOK, Baseline
<1>9. WalOK' /\ SenderOK'
  BY <1>1, <1>3 DEF WalOK, SenderOK, Streamed
<1>10. SegmentOK'
  <2>1. Segment \subseteq Segment'
    BY <1>3, TypesGrow
  <2>. QED BY <1>1, <1>2, <2>1, RestFacts DEF SegmentOK
<1>11. SessionOK'
  <2>1. CASE segment' = NoSegment
    BY <1>1, <1>6, <2>1 DEF SessionOK
  <2>2. CASE segment' # NoSegment
    <3>1. segment'.end = segment.end /\ persisted' = persisted
      BY <1>1, <1>2, <1>5, <2>2, RestFacts
    <3>. QED BY <1>1, <3>1 DEF SessionOK
  <2>. QED BY <2>1, <2>2
<1>. QED BY <1>6, <1>7, <1>8, <1>9, <1>10, <1>11

\* The Runtime connects, and replicates from what is persisted.
LEMMA SessionStart ==
    ASSUME SessionInv, StartRuntime
    PROVE  SessionInv'
<1>. USE DEF SessionInv
<1>. DEFINE start == Larger(persisted, slot)
<1>1. /\ up' = TRUE /\ pc' = "publish" /\ busy' = FALSE /\ status' = 0
      /\ staleEpoch' = FALSE /\ segment' = NoSegment
      /\ sender' = [Disconnected EXCEPT !.start = start, !.pos = start]
      /\ UNCHANGED <<wal, slot, persisted, confirmed, replaySafe, activation, full>>
  BY DEF StartRuntime, replayVars, streamVars
<1>2. Positions' = Positions /\ Lsn' = Lsn
  BY <1>1 DEF Positions, Lsn
<1>3. Len(wal) \in Nat /\ persisted \in Nat /\ slot \in Nat
  BY DEF WalOK, ScalarsOK, Lsn
<1>4. start \in Lsn /\ start >= persisted /\ start >= Baseline
  BY <1>3 DEF Larger, ScalarsOK, FlushOK, Baseline
<1>. HIDE DEF start
<1>5. /\ sender' = [start |-> start, pos |-> start, streamed |-> <<>>,
                    sent |-> [x \in Xids |-> 0]]
  BY <1>1 DEF Disconnected
<1>6. SenderOK'
  BY <1>2, <1>3, <1>4, <1>5 DEF SenderOK, Streamed, Lsn
<1>7. WalOK' /\ SegmentOK' /\ SessionOK'
  BY <1>1, <1>4, <1>5 DEF WalOK, SegmentOK, SessionOK
<1>8. FlushOK'
  BY <1>1, <1>3 DEF FlushOK
<1>9. ScalarsOK'
  <2>1. 0 \in Lsn
    BY <1>3 DEF Lsn
  <2>2. up' \in BOOLEAN /\ busy' \in BOOLEAN /\ staleEpoch' \in BOOLEAN
    BY <1>1
  <2>3. /\ slot' \in Lsn' /\ status' \in Lsn' /\ persisted' \in Lsn'
        /\ confirmed' \in Lsn' /\ replaySafe' \in Lsn'
        /\ pc' \in {"publish", "frontier", "ingest"}
        /\ activation' \in [Sources -> Lsn']
    BY <1>1, <1>2, <2>1 DEF ScalarsOK
  <2>4. full' \in [Sources -> BOOLEAN]
    BY <1>1 DEF ScalarsOK
  <2>. QED BY <2>2, <2>3, <2>4, Zenon DEF ScalarsOK
<1>. QED BY <1>6, <1>7, <1>8, <1>9

\* The server restarts; its slot may fall back, never ahead.
LEMMA SessionRestart ==
    ASSUME SessionInv, PostmasterRestart
    PROVE  SessionInv'
<1>. USE DEF SessionInv
<1>1. /\ wal' = Append(wal, [op |-> "recovery"]) /\ RuntimeEnds /\ staleEpoch' = TRUE
      /\ status' = 0 /\ slot' \in {Baseline, slot}
      /\ UNCHANGED <<persisted, confirmed, replaySafe, activation, full>>
  BY DEF PostmasterRestart, replayVars, streamVars
<1>2. [op |-> "recovery"] \in WalRecord
  BY DEF WalRecord
<1>3. WalOK' /\ Lsn \subseteq Lsn' /\ Len(wal) \in Nat
  BY <1>1, <1>2, WalGrows
<1>4. FlushOK'
  BY <1>1, <1>3 DEF FlushOK, ScalarsOK, Lsn, Baseline
<1>5. ScalarsOK'
  <2>1. up' \in BOOLEAN /\ busy' \in BOOLEAN /\ staleEpoch' \in BOOLEAN
    BY <1>1 DEF RuntimeEnds
  <2>2. 0 \in Lsn /\ Baseline \in Lsn
    BY <1>3 DEF Lsn, Baseline
  <2>3. /\ slot' \in Lsn' /\ status' \in Lsn' /\ persisted' \in Lsn'
        /\ confirmed' \in Lsn' /\ replaySafe' \in Lsn'
        /\ pc' \in {"publish", "frontier", "ingest"}
        /\ activation' \in [Sources -> Lsn']
    BY <1>1, <1>3, <2>2 DEF ScalarsOK, RuntimeEnds
  <2>4. full' \in [Sources -> BOOLEAN]
    BY <1>1 DEF ScalarsOK
  <2>. QED BY <2>1, <2>3, <2>4, Zenon DEF ScalarsOK
<1>. QED BY <1>1, <1>3, <1>4, <1>5, SessionEnds

\* The Runtime ends, by a refused batch or a crash.
LEMMA SessionDies ==
    ASSUME SessionInv, RuntimeEnds,
           UNCHANGED <<wal, slot, status, persisted, confirmed, replaySafe, staleEpoch,
                       activation, full>>
    PROVE  SessionInv'
<1>. USE DEF SessionInv
<1>1. WalOK' /\ FlushOK' /\ Lsn' = Lsn
  BY DEF WalOK, FlushOK, Lsn
<1>2. ScalarsOK'
  BY <1>1 DEF ScalarsOK, RuntimeEnds
<1>. QED BY <1>1, <1>2, SessionEnds

\* Every step keeps the session invariant.
LEMMA SessionStep ==
    ASSUME SessionInv, IngressAssumption, [Next]_vars
    PROVE  SessionInv'
<1>. USE DEF SessionInv, loopVars, senderVars, replayVars, streamVars
<1>0. Len(wal) \in Nat /\ persisted \in Nat /\ slot \in Nat /\ confirmed \in Nat
      /\ replaySafe \in Nat /\ status \in Nat
  BY DEF WalOK, ScalarsOK, Lsn
<1>1. ASSUME NEW x \in Xids, NEW sub \in Subs \cup {Top}, NEW s \in Sources, WriteChange(x, sub, s)
      PROVE  SessionInv'
  <2>1. [op |-> "change", xid |-> x, sub |-> sub, source |-> s] \in WalRecord
    BY DEF WalRecord
  <2>. QED BY <1>1, <2>1, SessionWrite DEF WriteChange
<1>2. ASSUME NEW x \in Xids, NEW sub \in Subs, WriteRollback(x, sub) PROVE SessionInv'
  <2>1. [op |-> "rollback", xid |-> x, sub |-> sub] \in WalRecord
    BY DEF WalRecord
  <2>. QED BY <1>2, <2>1, SessionWrite DEF WriteRollback
<1>3. ASSUME NEW x \in Xids, NEW op \in Ends, WriteEnd(x, op) PROVE SessionInv'
  <2>1. [op |-> op, xid |-> x] \in WalRecord
    BY DEF WalRecord, IngressAssumption
  <2>. QED BY <1>3, <2>1, SessionWrite DEF WriteEnd
<1>4. ASSUME NEW s \in Sources, RegisterSource(s) PROVE SessionInv'
  <2>1. Lsn' = Lsn /\ Len(wal) + 1 \in Lsn
    BY <1>0, <1>4 DEF RegisterSource, Lsn
  <2>. QED BY <1>4, <2>1, SessionSame DEF RegisterSource, ScalarsOK, SessionOK, FlushOK
<1>5. ASSUME NEW s \in Sources, DropSource(s) PROVE SessionInv'
  <2>1. Lsn' = Lsn /\ 0 \in Lsn
    BY <1>0, <1>5 DEF DropSource, Lsn
  <2>. QED BY <1>5, <2>1, SessionSame DEF DropSource, ScalarsOK, SessionOK, FlushOK
<1>6. ASSUME NEW s \in Sources, DrainStream(s) PROVE SessionInv'
  <2>1. Lsn' = Lsn
    BY <1>6 DEF DrainStream, Lsn
  <2>. QED BY <1>6, <2>1, SessionSame DEF DrainStream, ScalarsOK, SessionOK, FlushOK
<1>7. CASE SlotConfirms
  <2>1. Lsn' = Lsn
    BY <1>7 DEF SlotConfirms, Lsn
  <2>. QED BY <1>0, <1>7, <2>1, SessionSame, SMTT(30)
           DEF SlotConfirms, ScalarsOK, SessionOK, FlushOK, Baseline
<1>8. CASE PublishSource
  <2>1. Lsn' = Lsn
    BY <1>8 DEF PublishSource, Lsn
  <2>2. full' \in [Sources -> BOOLEAN]
    BY <1>8 DEF PublishSource, AppendChunk, DiscardTask, ScalarsOK
  <2>3. busy' \in BOOLEAN
    BY <1>8 DEF PublishSource, HasPending
  <2>. QED BY <1>8, <2>1, <2>2, <2>3, SessionSame
           DEF PublishSource, ScalarsOK, SessionOK, FlushOK
<1>9. CASE AdvanceFrontier
  <2>1. Lsn' = Lsn
    BY <1>9 DEF AdvanceFrontier, Lsn
  <2>. QED BY <1>9, <2>1, SessionSame DEF AdvanceFrontier, ScalarsOK, SessionOK, FlushOK
<1>10. CASE IngestNothing
  <2>1. Lsn' = Lsn
    BY <1>10 DEF IngestNothing, Lsn
  <2>. QED BY <1>10, <2>1, SessionSame DEF IngestNothing, ScalarsOK, SessionOK, FlushOK
<1>11. CASE SendStatus
  <2>1. Lsn' = Lsn
    BY <1>11 DEF SendStatus, Lsn
  <2>. QED BY <1>0, <1>11, <2>1, SessionSame
           DEF SendStatus, Feedback, ScalarsOK, SessionOK, FlushOK
<1>12. CASE RecordFeedback
  <2>1. Lsn' = Lsn
    BY <1>12 DEF RecordFeedback, Lsn
  <2>. QED BY <1>0, <1>12, <2>1, SessionSame, SMTT(30)
           DEF RecordFeedback, ScalarsOK, SessionOK, FlushOK
<1>13. CASE CollectGarbage
  <2>1. Lsn' = Lsn
    BY <1>13 DEF CollectGarbage, Lsn
  <2>. QED BY <1>0, <1>13, <2>1, SessionSame
           DEF CollectGarbage, ReplaySafeAfter, Larger, ScalarsOK, SessionOK, FlushOK
<1>14. CASE IngestRefused
  BY <1>14, SessionDies DEF IngestRefused
<1>15. CASE RuntimeCrash
  BY <1>15, SessionDies DEF RuntimeCrash
<1>16. CASE UNCHANGED vars
  <2>1. Lsn' = Lsn
    BY <1>16 DEF vars, Lsn
  <2>. QED BY <1>16, <2>1, SessionSame DEF vars, ScalarsOK, SessionOK, FlushOK
<1>. QED
  BY <1>1, <1>2, <1>3, <1>4, <1>5, <1>6, <1>7, <1>8, <1>9, <1>10, <1>11, <1>12, <1>13,
     <1>14, <1>15, <1>16, SessionStream, SessionDecode, SessionIngest, SessionStart,
     SessionRestart
  DEF Next, Source, Walsender, Runtime, Fault
-----------------------------------------------------------------------------
\* The staged transactions.  n is the length of the write-ahead log.

EventAt(n) == [lsn : 1 .. n, source : Sources, sub : Subs \cup {Top}]
Task == [batch : Nat, source : Sources, last : Nat, next : Nat]
Header(n) == [status : {"open", "committed", "aborted"}, final : 0 .. n + 1,
              end : 0 .. n + 1, log : Seq(EventAt(n)), tasks : SUBSET Task,
              batches : Nat, pending : Nat, aborted : SUBSET Subs]
Id(n) == [xid : Xids, start : 1 .. n]
Unfinished(h) == {t \in h.tasks : t.next # 0}

\* The tasks of a header point into its change log, there is one per batch and
\* source, and pending_publications counts the unfinished ones.
TasksOK(h) ==
    /\ IsFiniteSet(h.tasks)
    /\ \A t \in h.tasks : /\ t.next <= t.last /\ t.last <= Len(h.log)
                          /\ 1 <= t.batch /\ t.batch <= h.batches
    /\ \A t, u \in h.tasks : t.batch = u.batch /\ t.source = u.source => t = u
PendingOK(h) ==
    h.pending = IF h.status = "aborted" THEN 0 ELSE Cardinality(Unfinished(h))
HeaderOK(h, n) == h \in Header(n) /\ TasksOK(h) /\ PendingOK(h)

TxnsOK ==
    /\ IsFiniteSet(DOMAIN txns)
    /\ \A id \in DOMAIN txns : id \in Id(Len(wal)) /\ HeaderOK(txns[id], Len(wal))

OpenIds == {id \in DOMAIN txns : txns[id].status = "open"}
Payload == [id \in DOMAIN txns |-> Len(txns[id].log)]

\* open_payload_bytes is the payload of the open headers, within the limit.
PayloadOK == openPayload = SetSum(Payload, OpenIds) /\ openPayload <= StagingLimit

PublishedOK == published \in Nat /\ published <= persisted

TxnsInv == TxnsOK /\ PayloadOK /\ PublishedOK
-----------------------------------------------------------------------------
\* A header that fits a log fits every longer one.
LEMMA HeaderGrows ==
    ASSUME NEW n \in Nat, NEW m \in Nat, n <= m, NEW h, HeaderOK(h, n)
    PROVE  HeaderOK(h, m)
<1>1. EventAt(n) \subseteq EventAt(m) /\ (0 .. n + 1) \subseteq (0 .. m + 1)
  BY DEF EventAt
<1>2. Seq(EventAt(n)) \subseteq Seq(EventAt(m))
  BY <1>1, SeqGrows
<1>3. h \in Header(m)
  BY <1>1, <1>2 DEF HeaderOK, Header
<1>. QED BY <1>3 DEF HeaderOK

\* The header that write_batch inserts for an unknown transaction is in order.
LEMMA NewHeaderOK == ASSUME NEW n \in Nat PROVE HeaderOK(NewHeader, n)
<1>1. NewHeader \in Header(n)
  BY DEF Header, NewHeader
<1>2. TasksOK(NewHeader)
  BY FS_EmptySet DEF TasksOK, NewHeader
<1>3. Unfinished(NewHeader) = {}
  BY DEF Unfinished, NewHeader
<1>4. PendingOK(NewHeader)
  BY <1>3, FS_EmptySet DEF PendingOK, NewHeader
<1>. QED BY <1>1, <1>2, <1>4 DEF HeaderOK

\* The fresh events of a batch, and the log entries they become.
LEMMA FreshFacts ==
    ASSUME NEW h, NEW batch, NEW E, batch.events \in Seq(E)
    PROVE  /\ IsFiniteSet(Fresh(h, batch)) /\ Cardinality(Fresh(h, batch)) \in Nat
           /\ Cardinality(Fresh(h, batch)) <= Len(batch.events)
           /\ Fresh(h, batch) # {} => Cardinality(Fresh(h, batch)) # 0
<1>1. Len(batch.events) \in Nat /\ Fresh(h, batch) \subseteq 1 .. Len(batch.events)
  BY DEF Fresh
<1>2. IsFiniteSet(1 .. Len(batch.events)) /\ Cardinality(1 .. Len(batch.events)) = Len(batch.events)
  BY <1>1, FS_Interval, SMTT(30)
<1>3. IsFiniteSet(Fresh(h, batch))
  BY <1>1, <1>2, FS_Subset
<1>4. Cardinality(Fresh(h, batch)) <= Cardinality(1 .. Len(batch.events))
  BY <1>1, <1>2, FS_Subset
<1>. QED BY <1>2, <1>3, <1>4, FS_CardinalityType, FS_EmptySet

\* One task per source of the batch, over the rows the batch adds.
LEMMA BatchTasksFacts ==
    ASSUME NEW n \in Nat, NEW h \in Header(n), NEW events \in Seq(EventAt(n))
    PROVE  /\ IsFiniteSet(BatchTasks(h, events)) /\ BatchTasks(h, events) \in SUBSET Task
           /\ \A t \in BatchTasks(h, events) :
                /\ t.batch = h.batches + 1 /\ t.last = Len(h.log) + Len(events)
                /\ t.next > Len(h.log) /\ t.next <= t.last
                /\ \A k \in 1 .. Len(events) :
                     events[k].source = t.source => t.next <= Len(h.log) + k
           /\ \A t, u \in BatchTasks(h, events) : t.source = u.source => t = u
           /\ \A k \in 1 .. Len(events) :
                \E t \in BatchTasks(h, events) : t.source = events[k].source
<1>. DEFINE sources == {events[k].source : k \in DOMAIN events}
            rows(s) == {k \in DOMAIN events : events[k].source = s}
            task(s) == [batch |-> h.batches + 1, source |-> s,
                        last |-> Len(h.log) + Len(events),
                        next |-> Len(h.log) + Min(rows(s))]
<1>1. BatchTasks(h, events) = {task(s) : s \in sources}
  BY DEF BatchTasks
<1>2. /\ Len(events) \in Nat /\ DOMAIN events = 1 .. Len(events)
      /\ h.batches \in Nat /\ Len(h.log) \in Nat
  BY DEF Header
<1>3. IsFiniteSet(sources)
  <2>1. IsFiniteSet(1 .. Len(events))
    BY <1>2, FS_Interval
  <2>. DEFINE f == [k \in 1 .. Len(events) |-> events[k].source]
  <2>3. f \in Surjection(1 .. Len(events), sources)
    BY <1>2 DEF Surjection
  <2>. QED BY <2>1, <2>3, FS_Surjection
<1>4. IsFiniteSet(BatchTasks(h, events))
  <2>. DEFINE g == [s \in sources |-> task(s)]
  <2>1. g \in Surjection(sources, {task(s) : s \in sources})
    BY DEF Surjection
  <2>. HIDE DEF g, sources, task
  <2>. QED BY <1>1, <1>3, <2>1, FS_Surjection
<1>5. \A s \in sources : /\ Min(rows(s)) \in 1 .. Len(events)
                         /\ \A k \in rows(s) : Min(rows(s)) <= k
  <2>1. ASSUME NEW s \in sources PROVE rows(s) # {} /\ rows(s) \in SUBSET Nat
    BY <1>2
  <2>2. ASSUME NEW s \in sources
        PROVE  Min(rows(s)) \in rows(s) /\ \A k \in rows(s) : Min(rows(s)) <= k
    <3>. HIDE DEF rows, sources
    <3>. QED BY <2>1, MinOfNats
  <2>. QED BY <1>2, <2>2
<1>6. \A s \in sources : s \in Sources
  <2>1. \A k \in DOMAIN events : events[k] \in EventAt(n)
    OBVIOUS
  <2>. QED BY <2>1 DEF EventAt
<1>7. \A k \in 1 .. Len(events) : events[k].source \in sources /\ k \in rows(events[k].source)
  BY <1>2
<1>. DEFINE mins == [s \in sources |-> Min(rows(s))]
<1>8. \A s \in sources : /\ mins[s] \in 1 .. Len(events)
                         /\ \A k \in 1 .. Len(events) : events[k].source = s => mins[s] <= k
                         /\ task(s) = [batch |-> h.batches + 1, source |-> s,
                                       last |-> Len(h.log) + Len(events),
                                       next |-> Len(h.log) + mins[s]]
  BY <1>2, <1>5
<1>. HIDE DEF sources, rows, task, mins
<1>9. \A s \in sources : /\ task(s) \in Task /\ task(s).source = s
                         /\ task(s).batch = h.batches + 1
                         /\ task(s).last = Len(h.log) + Len(events)
                         /\ task(s).next = Len(h.log) + mins[s]
  BY <1>2, <1>6, <1>8 DEF Task
<1>10. \A t \in BatchTasks(h, events) : \E s \in sources : t = task(s)
  BY <1>1
<1>11. \A s \in sources : task(s) \in BatchTasks(h, events)
  BY <1>1
<1>12. BatchTasks(h, events) \in SUBSET Task
  BY <1>9, <1>10
<1>13. ASSUME NEW t \in BatchTasks(h, events)
       PROVE  /\ t.batch = h.batches + 1 /\ t.last = Len(h.log) + Len(events)
              /\ t.next > Len(h.log) /\ t.next <= t.last
              /\ \A k \in 1 .. Len(events) :
                   events[k].source = t.source => t.next <= Len(h.log) + k
  <2>1. PICK s \in sources : t = task(s)
    BY <1>10
  <2>. QED BY <1>2, <1>8, <1>9, <2>1
<1>14. \A t, u \in BatchTasks(h, events) : t.source = u.source => t = u
  BY <1>9, <1>10
<1>15. \A k \in 1 .. Len(events) :
         \E t \in BatchTasks(h, events) : t.source = events[k].source
  BY <1>7, <1>9, <1>11
<1>. QED BY <1>4, <1>12, <1>13, <1>14, <1>15

\* A function over 1 .. c with values in E is a sequence over E.
LEMMA FunctionIsSeq ==
    ASSUME NEW E, NEW c \in Nat, NEW f, f = [k \in 1 .. c |-> f[k]], \A k \in 1 .. c : f[k] \in E
    PROVE  f \in Seq(E) /\ Len(f) = c
OBVIOUS

\* write_batch: the fresh events become log entries with new tasks.
LEMMA AdmittedFacts ==
    ASSUME NEW n \in Nat, NEW h, HeaderOK(h, n),
           NEW batch, batch.events \in Seq(EventAt(n)),
           Fresh(h, batch) = {} \/ h.status = "open"
    PROVE  LET a == Admitted(h, batch)
               fresh == Cardinality(Fresh(h, batch))
           IN /\ HeaderOK(a, n)
              /\ a.status = h.status /\ a.final = h.final /\ a.end = h.end
              /\ a.aborted = h.aborted
              /\ Len(a.log) = Len(h.log) + fresh
              /\ \A k \in 1 .. Len(h.log) : a.log[k] = h.log[k]
              /\ \A k \in 1 .. fresh :
                   a.log[Len(h.log) + k] = batch.events[Len(batch.events) - fresh + k]
              /\ h.tasks \subseteq a.tasks
              /\ \A t \in a.tasks \ h.tasks :
                   /\ t.batch = h.batches + 1 /\ t.next > Len(h.log) /\ t.last = Len(a.log)
                   /\ \A k \in Len(h.log) + 1 .. Len(a.log) :
                        a.log[k].source = t.source => t.next <= k
              /\ \A k \in Len(h.log) + 1 .. Len(a.log) :
                   \E t \in a.tasks : t.source = a.log[k].source /\ t.batch = h.batches + 1
              /\ a.batches \in {h.batches, h.batches + 1}
<1>. DEFINE fresh == Fresh(h, batch)
            c == Cardinality(fresh)
            new == [k \in 1 .. c |-> batch.events[Len(batch.events) - c + k]]
            tasks == BatchTasks(h, new)
            a == Admitted(h, batch)
<1>1. /\ IsFiniteSet(fresh) /\ c \in Nat /\ c <= Len(batch.events) /\ Len(batch.events) \in Nat
      /\ fresh # {} => c # 0
      /\ fresh = {} => c = 0
  BY FreshFacts, FS_EmptySet
<1>2. new \in Seq(EventAt(n)) /\ Len(new) = c
  <2>. HIDE DEF c
  <2>1. \A k \in 1 .. c : batch.events[Len(batch.events) - c + k] \in EventAt(n)
    BY <1>1, ElementOfSeq
  <2>2. new = [k \in 1 .. c |-> new[k]] /\ \A k \in 1 .. c : new[k] \in EventAt(n)
    BY <2>1
  <2>. HIDE DEF new
  <2>. QED BY <1>1, <2>2, FunctionIsSeq
<1>3. h \in Header(n) /\ TasksOK(h) /\ PendingOK(h)
  BY DEF HeaderOK
<1>4. a = IF fresh = {} THEN h
          ELSE [h EXCEPT !.log = h.log \o new, !.batches = h.batches + 1,
                         !.tasks = h.tasks \cup tasks,
                         !.pending = h.pending + Cardinality(tasks)]
  BY DEF Admitted
<1>5. /\ IsFiniteSet(tasks) /\ tasks \in SUBSET Task
      /\ \A t \in tasks : /\ t.batch = h.batches + 1 /\ t.last = Len(h.log) + Len(new)
                          /\ t.next > Len(h.log) /\ t.next <= t.last
                          /\ \A k \in 1 .. Len(new) :
                               new[k].source = t.source => t.next <= Len(h.log) + k
      /\ \A t, u \in tasks : t.source = u.source => t = u
      /\ \A k \in 1 .. Len(new) : \E t \in tasks : t.source = new[k].source
  <2>. HIDE DEF new
  <2>. QED BY <1>2, <1>3, BatchTasksFacts
<1>6. CASE fresh = {}
  <2>1. a = h /\ c = 0 /\ Len(h.log) \in Nat
    BY <1>1, <1>3, <1>4, <1>6 DEF Header
  <2>. HIDE DEF a, c, fresh
  <2>2. h.batches \in Nat
    BY <1>3 DEF Header
  <2>. QED BY <2>1, <2>2 DEF a, c, fresh
<1>7. CASE fresh # {}
  <2>. HIDE DEF a, c, fresh, new, tasks
  <2>0. h.status = "open"
    BY <1>7 DEF fresh
  <2>1. /\ a.log = h.log \o new /\ a.batches = h.batches + 1 /\ a.tasks = h.tasks \cup tasks
        /\ a.pending = h.pending + Cardinality(tasks)
        /\ a.status = h.status /\ a.final = h.final /\ a.end = h.end /\ a.aborted = h.aborted
    BY <1>3, <1>4, <1>7 DEF Header
  <2>2. Cardinality(tasks) \in Nat
    BY <1>5, FS_CardinalityType
  <2>3. /\ h.log \in Seq(EventAt(n)) /\ Len(h.log) \in Nat /\ h.batches \in Nat
        /\ h.tasks \in SUBSET Task /\ h.pending \in Nat
    BY <1>3 DEF Header
  <2>4. /\ h.log \o new \in Seq(EventAt(n)) /\ Len(a.log) = Len(h.log) + c
        /\ \A k \in 1 .. Len(h.log) : a.log[k] = h.log[k]
        /\ \A k \in 1 .. c : a.log[Len(h.log) + k] = new[k]
    <3>1. /\ h.log \o new \in Seq(EventAt(n)) /\ Len(h.log \o new) = Len(h.log) + Len(new)
          /\ \A k \in 1 .. Len(h.log) + Len(new) : (h.log \o new)[k] =
                 IF k <= Len(h.log) THEN h.log[k] ELSE new[k - Len(h.log)]
      BY <1>2, <2>3, ConcatProperties
    <3>2. \A k \in 1 .. Len(h.log) : a.log[k] = h.log[k]
      BY <1>1, <1>2, <2>1, <2>3, <3>1
    <3>3. ASSUME NEW k \in 1 .. c PROVE a.log[Len(h.log) + k] = new[k]
      <4>1. /\ Len(h.log) + k \in 1 .. Len(h.log) + Len(new) /\ ~(Len(h.log) + k <= Len(h.log))
            /\ (Len(h.log) + k) - Len(h.log) = k
        BY <1>1, <1>2, <2>3
      <4>. QED BY <2>1, <3>1, <4>1
    <3>. QED BY <1>2, <2>1, <3>1, <3>2, <3>3
  <2>5. a \in Header(n)
    <3>1. /\ h.batches + 1 \in Nat /\ h.tasks \cup tasks \in SUBSET Task
          /\ h.pending + Cardinality(tasks) \in Nat
      BY <1>5, <2>2, <2>3
    <3>2. a = [h EXCEPT !.log = h.log \o new, !.batches = h.batches + 1,
                        !.tasks = h.tasks \cup tasks,
                        !.pending = h.pending + Cardinality(tasks)]
      BY <1>4, <1>7
    <3>3. h.log \o new \in Seq(EventAt(n))
      BY <2>4
    <3>. QED BY <1>3, <3>1, <3>2, <3>3 DEF Header
  <2>6. TasksOK(a)
    <3>1. IsFiniteSet(a.tasks)
      <4>1. IsFiniteSet(h.tasks) /\ IsFiniteSet(tasks)
        BY <1>3, <1>5 DEF TasksOK
      <4>2. IsFiniteSet(h.tasks \cup tasks)
        BY <4>1, FS_Union
      <4>3. a.tasks = h.tasks \cup tasks
        BY <2>1
      <4>. QED BY <4>2, <4>3
    <3>2. \A t \in h.tasks : t \in Task /\ t.last <= Len(h.log) /\ t.batch <= h.batches
                             /\ t.next <= t.last /\ 1 <= t.batch
      BY <1>3, <2>3 DEF TasksOK
    <3>3. \A t \in a.tasks : /\ t.next <= t.last /\ t.last <= Len(a.log)
                             /\ 1 <= t.batch /\ t.batch <= a.batches
      <4>1. ASSUME NEW t \in h.tasks
            PROVE  /\ t.next <= t.last /\ t.last <= Len(a.log)
                   /\ 1 <= t.batch /\ t.batch <= a.batches
        BY <1>1, <2>1, <2>3, <2>4, <3>2 DEF Task
      <4>2. ASSUME NEW t \in tasks
            PROVE  /\ t.next <= t.last /\ t.last <= Len(a.log)
                   /\ 1 <= t.batch /\ t.batch <= a.batches
        <5>1. t.batch = h.batches + 1 /\ t.last = Len(h.log) + Len(new) /\ t.next <= t.last
          BY <1>5
        <5>. QED BY <1>1, <1>2, <2>1, <2>3, <2>4, <5>1
      <4>. QED BY <2>1, <4>1, <4>2
    <3>4. ASSUME NEW t \in a.tasks, NEW u \in a.tasks, t.batch = u.batch, t.source = u.source
          PROVE  t = u
      <4>1. \A v \in h.tasks : v.batch # h.batches + 1
        BY <2>3, <3>2 DEF Task
      <4>2. (t \in h.tasks /\ u \in h.tasks) \/ (t \in tasks /\ u \in tasks)
        BY <1>5, <2>1, <3>4, <4>1
      <4>. QED BY <1>3, <1>5, <3>4, <4>2 DEF TasksOK
    <3>. QED BY <3>1, <3>3, <3>4 DEF TasksOK
  <2>7. PendingOK(a)
    <3>1. Unfinished(a) = Unfinished(h) \cup tasks
      <4>1. \A t \in tasks : t.next # 0
        BY <1>5, <2>3 DEF Task
      <4>. QED BY <2>1, <4>1 DEF Unfinished
    <3>2. Unfinished(h) \cap tasks = {}
      <4>1. \A t \in h.tasks : t.batch # h.batches + 1
        BY <1>3, <2>3 DEF TasksOK, Task
      <4>. QED BY <1>5, <4>1 DEF Unfinished
    <3>3. IsFiniteSet(Unfinished(h))
      BY <1>3, FS_Subset DEF TasksOK, Unfinished
    <3>4. Cardinality(Unfinished(a)) = Cardinality(Unfinished(h)) + Cardinality(tasks)
      <4>1. Cardinality(Unfinished(h) \cup tasks) =
              Cardinality(Unfinished(h)) + Cardinality(tasks) - Cardinality(Unfinished(h) \cap tasks)
        BY <1>5, <3>3, FS_Union
      <4>2. Cardinality(Unfinished(h) \cap tasks) = 0
        BY <3>2, FS_EmptySet
      <4>3. Cardinality(Unfinished(h)) \in Nat
        BY <3>3, FS_CardinalityType
      <4>4. Cardinality(Unfinished(h) \cup tasks) = Cardinality(Unfinished(h)) + Cardinality(tasks)
        BY <2>2, <4>1, <4>2, <4>3
      <4>. QED BY <3>1, <4>4
    <3>. QED BY <1>3, <2>0, <2>1, <3>4 DEF PendingOK
  <2>8. HeaderOK(a, n)
    BY <2>5, <2>6, <2>7 DEF HeaderOK
  <2>9. \A k \in 1 .. c : a.log[Len(h.log) + k] = batch.events[Len(batch.events) - c + k]
    BY <2>4 DEF new
  <2>10. \A k \in Len(h.log) + 1 .. Len(a.log) :
           k - Len(h.log) \in 1 .. Len(new) /\ a.log[k] = new[k - Len(h.log)]
    <3>1. ASSUME NEW k \in Len(h.log) + 1 .. Len(a.log)
          PROVE  k - Len(h.log) \in 1 .. c /\ k = Len(h.log) + (k - Len(h.log))
      BY <1>1, <2>3, <2>4
    <3>. QED BY <1>2, <2>4, <3>1
  <2>11. ASSUME NEW t \in a.tasks \ h.tasks
         PROVE  /\ t.batch = h.batches + 1 /\ t.next > Len(h.log) /\ t.last = Len(a.log)
                /\ \A k \in Len(h.log) + 1 .. Len(a.log) :
                     a.log[k].source = t.source => t.next <= k
    <3>1. t \in tasks
      BY <2>1
    <3>2. ASSUME NEW k \in Len(h.log) + 1 .. Len(a.log), a.log[k].source = t.source
          PROVE  t.next <= k
      <4>1. t.next <= Len(h.log) + (k - Len(h.log))
        BY <1>5, <2>10, <3>1, <3>2
      <4>2. Len(h.log) + (k - Len(h.log)) = k
        BY <2>3
      <4>. QED BY <4>1, <4>2
    <3>. QED BY <1>2, <1>5, <2>4, <3>1, <3>2
  <2>12. ASSUME NEW k \in Len(h.log) + 1 .. Len(a.log)
         PROVE  \E t \in a.tasks : t.source = a.log[k].source /\ t.batch = h.batches + 1
    BY <1>5, <2>1, <2>10
  <2>. QED BY <2>1, <2>4, <2>8, <2>9, <2>11, <2>12 DEF a, c, fresh
<1>. QED BY <1>6, <1>7

\* commit_, abort_ingress_transaction, abort_ingress_subtransaction.
LEMMA FinalizedFacts ==
    ASSUME NEW n \in Nat, NEW h, HeaderOK(h, n), NEW batch,
           \/ batch.end = NoBoundary
           \/ batch.end \in [kind : {"commit", "abort"}, lsn : 1 .. n]
           \/ batch.end \in [kind : {"rollback"}, sub : Subs]
    PROVE  LET f == Finalized(h, batch) IN
           /\ HeaderOK(f, n)
           /\ f.log = h.log /\ f.tasks = h.tasks /\ f.batches = h.batches
           /\ h.status = "open" /\ batch.end.kind = "commit" =>
                f.status = "committed" /\ f.final = batch.end.lsn /\ f.aborted = h.aborted
           /\ h.status = "open" /\ batch.end.kind = "abort" =>
                f.status = "aborted" /\ f.final = batch.end.lsn
           /\ ~(h.status = "open" /\ batch.end.kind \in {"commit", "abort"}) =>
                f.status = h.status /\ f.final = h.final
           /\ batch.end.kind # "rollback" => f.aborted = h.aborted
<1>. DEFINE end == batch.end
            f == Finalized(h, batch)
<1>1. h \in Header(n) /\ TasksOK(h) /\ PendingOK(h) /\ h.aborted \in SUBSET Subs
  BY DEF HeaderOK, Header
<1>2. CASE h.status = "open" /\ end.kind = "commit"
  <2>1. f = [h EXCEPT !.status = "committed", !.final = end.lsn, !.end = end.lsn + 1]
    BY <1>2 DEF Finalized
  <2>2. end.lsn \in 1 .. n
    BY <1>2 DEF NoBoundary
  <2>3. end.lsn \in 0 .. n + 1 /\ end.lsn + 1 \in 0 .. n + 1
    BY <2>2
  <2>. HIDE DEF f, end
  <2>4. /\ f.log = h.log /\ f.tasks = h.tasks /\ f.batches = h.batches
        /\ f.pending = h.pending /\ f.status = "committed" /\ f.final = end.lsn
        /\ f.aborted = h.aborted
    BY <1>1, <2>1 DEF Header
  <2>5. f \in Header(n)
    BY <1>1, <2>1, <2>3 DEF Header
  <2>6. TasksOK(f) /\ PendingOK(f)
    BY <1>1, <1>2, <2>4 DEF TasksOK, PendingOK, Unfinished
  <2>. QED BY <1>2, <2>4, <2>5, <2>6 DEF HeaderOK, f, end
<1>3. CASE h.status = "open" /\ end.kind = "abort"
  <2>1. f = [h EXCEPT !.status = "aborted", !.final = end.lsn, !.end = end.lsn, !.pending = 0]
    BY <1>3 DEF Finalized
  <2>2. end.lsn \in 1 .. n
    BY <1>3 DEF NoBoundary
  <2>3. end.lsn \in 0 .. n + 1
    BY <2>2
  <2>. HIDE DEF f, end
  <2>4. /\ f.log = h.log /\ f.tasks = h.tasks /\ f.batches = h.batches
        /\ f.pending = 0 /\ f.status = "aborted" /\ f.final = end.lsn
        /\ f.aborted = h.aborted
    BY <1>1, <2>1 DEF Header
  <2>5. f \in Header(n)
    BY <1>1, <2>1, <2>3 DEF Header
  <2>6. TasksOK(f) /\ PendingOK(f)
    BY <1>1, <1>3, <2>4 DEF TasksOK, PendingOK
  <2>. QED BY <1>3, <2>4, <2>5, <2>6 DEF HeaderOK, f, end
<1>4. CASE end.kind = "rollback"
  <2>1. f = [h EXCEPT !.aborted = h.aborted \cup {end.sub}]
    BY <1>4 DEF Finalized
  <2>2. end.sub \in Subs
    BY <1>4 DEF NoBoundary
  <2>3. h.aborted \cup {end.sub} \in SUBSET Subs
    BY <1>1, <2>2
  <2>. HIDE DEF f, end
  <2>4. /\ f.log = h.log /\ f.tasks = h.tasks /\ f.batches = h.batches
        /\ f.pending = h.pending /\ f.status = h.status /\ f.final = h.final
    BY <1>1, <2>1 DEF Header
  <2>5. f \in Header(n)
    BY <1>1, <2>1, <2>3 DEF Header
  <2>6. TasksOK(f) /\ PendingOK(f)
    BY <1>1, <2>4 DEF TasksOK, PendingOK, Unfinished
  <2>. QED BY <1>4, <2>4, <2>5, <2>6 DEF HeaderOK, f, end
<1>5. CASE ~(h.status = "open" /\ end.kind \in {"commit", "abort"}) /\ end.kind # "rollback"
  <2>1. f = h
    BY <1>5 DEF Finalized
  <2>. QED BY <1>5, <2>1
<1>. QED BY <1>2, <1>3, <1>4, <1>5

\* advance_task on a header: the cursor of one task moves, to 0 when it is done.
CursorAt(h, t, next) ==
    [h EXCEPT !.tasks = (h.tasks \ {t}) \cup {[t EXCEPT !.next = next]},
              !.pending = IF next = 0 THEN h.pending - 1 ELSE h.pending]

\* The cursor of one unfinished task of a committed header moves.
LEMMA AdvancedFacts ==
    ASSUME NEW n \in Nat, NEW h, HeaderOK(h, n), h.status = "committed",
           NEW t \in h.tasks, t.next # 0, NEW next \in Nat, next <= t.last,
           NEW a, a = CursorAt(h, t, next)
    PROVE  /\ HeaderOK(a, n)
           /\ a.status = h.status /\ a.final = h.final /\ a.end = h.end /\ a.log = h.log
           /\ a.aborted = h.aborted /\ a.batches = h.batches
           /\ a.tasks = (h.tasks \ {t}) \cup {[t EXCEPT !.next = next]}
<1>. DEFINE u == [t EXCEPT !.next = next]
<1>1. h \in Header(n) /\ TasksOK(h) /\ PendingOK(h)
  BY DEF HeaderOK
<1>2. t \in Task /\ h.tasks \in SUBSET Task /\ h.pending \in Nat
  BY <1>1 DEF Header
<1>3. /\ u \in Task /\ u.batch = t.batch /\ u.source = t.source /\ u.last = t.last
      /\ u.next = next
  BY <1>2 DEF Task
<1>. HIDE DEF u
<1>4. /\ a.tasks = (h.tasks \ {t}) \cup {u}
      /\ a.pending = IF next = 0 THEN h.pending - 1 ELSE h.pending
      /\ a.status = h.status /\ a.final = h.final /\ a.end = h.end /\ a.log = h.log
      /\ a.aborted = h.aborted /\ a.batches = h.batches
  BY <1>1 DEF Header, u, CursorAt
<1>5. IsFiniteSet(h.tasks) /\ IsFiniteSet(Unfinished(h))
  BY <1>1, FS_Subset DEF TasksOK, Unfinished
<1>6. /\ t \in Unfinished(h) /\ h.pending = Cardinality(Unfinished(h))
      /\ h.pending # 0
  <2>1. t \in Unfinished(h) /\ h.pending = Cardinality(Unfinished(h))
    BY <1>1 DEF Unfinished, PendingOK
  <2>. QED BY <1>5, <2>1, FS_EmptySet
<1>7. u \notin h.tasks \ {t}
  BY <1>1, <1>3 DEF TasksOK
<1>8. TasksOK(a)
  <2>1. IsFiniteSet(a.tasks)
    <3>1. IsFiniteSet(h.tasks \ {t})
      BY <1>5, FS_Subset
    <3>. QED BY <1>4, <3>1, FS_AddElement
  <2>2. \A v \in a.tasks : /\ v.next <= v.last /\ v.last <= Len(a.log)
                           /\ 1 <= v.batch /\ v.batch <= a.batches
    BY <1>1, <1>3, <1>4 DEF TasksOK
  <2>3. \A v, w \in a.tasks : v.batch = w.batch /\ v.source = w.source => v = w
    BY <1>1, <1>3, <1>4 DEF TasksOK
  <2>. QED BY <2>1, <2>2, <2>3 DEF TasksOK
<1>9. Cardinality(Unfinished(h) \ {t}) = Cardinality(Unfinished(h)) - 1
  BY <1>5, <1>6, FS_RemoveElement
<1>10. PendingOK(a) /\ a.pending \in Nat
  <2>1. CASE next = 0
    <3>1. Unfinished(a) = Unfinished(h) \ {t}
      BY <1>3, <1>4, <2>1 DEF Unfinished
    <3>. QED BY <1>2, <1>4, <1>6, <1>9, <2>1, <3>1 DEF PendingOK
  <2>2. CASE next # 0
    <3>1. Unfinished(a) = (Unfinished(h) \ {t}) \cup {u}
      BY <1>3, <1>4, <2>2 DEF Unfinished
    <3>2. IsFiniteSet(Unfinished(h) \ {t}) /\ u \notin Unfinished(h) \ {t}
      BY <1>5, <1>7, FS_Subset DEF Unfinished
    <3>3. Cardinality((Unfinished(h) \ {t}) \cup {u}) = Cardinality(Unfinished(h) \ {t}) + 1
      BY <3>2, FS_AddElement
    <3>. QED BY <1>2, <1>4, <1>6, <1>9, <2>2, <3>1, <3>3 DEF PendingOK
  <2>. QED BY <2>1, <2>2
<1>11. a \in Header(n)
  <2>1. (h.tasks \ {t}) \cup {u} \in SUBSET Task
    BY <1>2, <1>3
  <2>2. (IF next = 0 THEN h.pending - 1 ELSE h.pending) \in Nat
    BY <1>4, <1>10
  <2>. QED BY <1>1, <2>1, <2>2 DEF Header, u, CursorAt
<1>. QED BY <1>4, <1>8, <1>10, <1>11 DEF HeaderOK, u
-----------------------------------------------------------------------------
\* The open headers are finitely many, and their payload bounds each log.
LEMMA OpenFinite ==
    ASSUME TxnsOK
    PROVE  /\ IsFiniteSet(OpenIds) /\ OpenIds \subseteq DOMAIN txns
           /\ \A i \in DOMAIN txns : Payload[i] = Len(txns[i].log) /\ Payload[i] \in Nat
           /\ SetSum(Payload, OpenIds) \in Nat
           /\ \A i \in OpenIds : Len(txns[i].log) <= SetSum(Payload, OpenIds)
<1>1. IsFiniteSet(OpenIds) /\ OpenIds \subseteq DOMAIN txns
  BY FS_Subset DEF TxnsOK, OpenIds
<1>2. \A i \in DOMAIN txns : Payload[i] = Len(txns[i].log) /\ Payload[i] \in Nat
  BY DEF Payload, TxnsOK, HeaderOK, Header
<1>3. \A i \in OpenIds : Payload[i] \in Nat
  BY <1>1, <1>2
<1>4. SetSum(Payload, OpenIds) \in Nat /\ \A i \in OpenIds : Payload[i] <= SetSum(Payload, OpenIds)
  BY <1>1, <1>3, SetSumNat
<1>. QED BY <1>1, <1>2, <1>4

\* How replacing one header changes the open payload.
LEMMA PayloadPut ==
    ASSUME TxnsOK, NEW id, NEW h, Len(h.log) \in Nat, txns' = PutHeader(id, h)
    PROVE  SetSum(Payload, OpenIds)' =
             SetSum(Payload, OpenIds)
             - (IF id \in OpenIds THEN Len(txns[id].log) ELSE 0)
             + (IF h.status = "open" THEN Len(h.log) ELSE 0)
<1>. DEFINE D == OpenIds \ {id}
<1>1. /\ DOMAIN txns' = DOMAIN txns \cup {id} /\ txns'[id] = h
      /\ \A i \in DOMAIN txns \ {id} : txns'[i] = txns[i]
  BY DEF PutHeader
<1>2. /\ IsFiniteSet(OpenIds) /\ OpenIds \subseteq DOMAIN txns
      /\ \A i \in DOMAIN txns : Payload[i] = Len(txns[i].log) /\ Payload[i] \in Nat
  BY OpenFinite
<1>3. OpenIds' = IF h.status = "open" THEN D \cup {id} ELSE D
  BY <1>1 DEF OpenIds
<1>4. /\ \A i \in D : Payload'[i] = Payload[i]
      /\ Payload'[id] = Len(h.log)
  BY <1>1, <1>2 DEF Payload
<1>5. IsFiniteSet(D) /\ id \notin D /\ \A i \in D : Payload[i] \in Int
  BY <1>2, FS_Subset
<1>6. SetSum(Payload, D) = SetSum(Payload', D)
  BY <1>4, <1>5, SetSumAgree
<1>7. /\ SetSum(Payload, D) \in Int
      /\ SetSum(Payload, OpenIds) =
           SetSum(Payload, D) + (IF id \in OpenIds THEN Len(txns[id].log) ELSE 0)
  <2>1. CASE id \in OpenIds
    <3>1. \A i \in OpenIds : Payload[i] \in Int
      BY <1>2
    <3>2. /\ SetSum(Payload, OpenIds) = Payload[id] + SetSum(Payload, D)
          /\ SetSum(Payload, D) \in Int
      BY <1>2, <2>1, <3>1, SetSumRemove
    <3>3. Payload[id] = Len(txns[id].log) /\ Payload[id] \in Nat
      BY <1>2, <2>1
    <3>. QED BY <2>1, <3>2, <3>3
  <2>2. CASE id \notin OpenIds
    <3>1. D = OpenIds
      BY <2>2
    <3>. QED BY <2>2, <3>1, OpenFinite, SMTT(30)
  <2>. QED BY <2>1, <2>2
<1>8. SetSum(Payload', OpenIds') =
        SetSum(Payload', D) + (IF h.status = "open" THEN Len(h.log) ELSE 0)
  <2>1. CASE h.status = "open"
    <3>1. \A i \in D \cup {id} : Payload'[i] \in Int
      BY <1>4, <1>5
    <3>2. SetSum(Payload', D \cup {id}) = Payload'[id] + SetSum(Payload', D)
      BY <1>5, <3>1, SetSumInsert
    <3>. QED BY <1>3, <1>4, <1>6, <1>7, <2>1, <3>2
  <2>2. CASE h.status # "open"
    BY <1>3, <1>6, <1>7, <2>2
  <2>. QED BY <2>1, <2>2
<1>9. (IF id \in OpenIds THEN Len(txns[id].log) ELSE 0) \in Int
  BY <1>2
<1>. QED BY <1>6, <1>7, <1>8, <1>9

\* A header of the transactions that stays as staged keeps its place.
LEMMA TxnsPut ==
    ASSUME SessionInv, TxnsOK, NEW id \in Id(Len(wal)), NEW h, HeaderOK(h, Len(wal)),
           txns' = PutHeader(id, h), wal' = wal
    PROVE  TxnsOK'
<1>1. /\ DOMAIN txns' = DOMAIN txns \cup {id} /\ txns'[id] = h
      /\ \A i \in DOMAIN txns \ {id} : txns'[i] = txns[i]
  BY DEF PutHeader
<1>2. IsFiniteSet(DOMAIN txns')
  BY <1>1, FS_AddElement DEF TxnsOK
<1>. QED BY <1>1, <1>2 DEF TxnsOK

\* What a batch that is not refused does to its header.
LEMMA IngestFacts ==
    ASSUME SessionInv, TxnsOK, IngressAssumption, IngestBatch
    PROVE  LET b == NextBatch
               h == ClaimedHeader(b)
               a == Admitted(h, b)
               f == Finalized(a, b)
               n == Len(wal)
           IN /\ segment \in Segment /\ b.events \in Seq(EventAt(n))
              /\ HeaderId(b) \in Id(n) /\ HeaderOK(h, n) /\ HeaderOK(a, n) /\ HeaderOK(f, n)
              /\ Fresh(h, b) = {} \/ (h.status = "open" /\ ~OverStagingLimit(h, b))
              /\ a.status = h.status /\ f.log = a.log /\ f.tasks = a.tasks
              /\ ~IdentityConflict(h, b) /\ ~NotAPrefix(h, b) /\ ~ClaimRefused(b)
              /\ BoundaryError(h, b) = {}
              /\ txns' = PutHeader(HeaderId(b), f)
              /\ \/ b.end = NoBoundary
                 \/ b.end \in [kind : {"commit", "abort"}, lsn : 1 .. n]
                 \/ b.end \in [kind : {"rollback"}, sub : Subs]
<1>. DEFINE b == NextBatch
            h == ClaimedHeader(b)
            n == Len(wal)
<1>0. n \in Nat /\ Event = EventAt(n) /\ Positions = 1 .. n
  BY DEF SessionInv, WalOK, Event, EventAt, Positions
<1>1. segment \in Segment
  BY DEF IngestBatch, SessionInv, SegmentOK
<1>2. /\ b.events \in Seq(EventAt(n)) /\ b.xid \in Xids /\ b.start \in 1 .. n
      /\ b.end \in Boundary
  BY <1>0, <1>1, BatchFacts
<1>3. \/ b.end = NoBoundary
      \/ b.end \in [kind : {"commit", "abort"}, lsn : 1 .. n]
      \/ b.end \in [kind : {"rollback"}, sub : Subs]
  <2>1. \A e \in [kind : {"none"}] : e = NoBoundary
    BY DEF NoBoundary
  <2>. QED BY <1>0, <1>2, <2>1 DEF Boundary
<1>4. HeaderId(b) \in Id(n)
  BY <1>2 DEF HeaderId, Id
<1>5. HeaderOK(h, n)
  BY <1>0, NewHeaderOK DEF ClaimedHeader, TxnsOK
<1>6. BatchError(b) = {} /\ txns' = PutHeader(HeaderId(b), Finalized(Admitted(h, b), b))
  BY DEF IngestBatch
<1>7. ~ClaimRefused(b) /\ AdmissionError(h, b) = {} /\ BoundaryError(h, b) = {}
  <2>1. ~ClaimRefused(b) /\ AdmissionError(h, b) = {}
    BY <1>6 DEF BatchError
  <2>. QED BY <1>6, <2>1 DEF BatchError
<1>8. ~IdentityConflict(h, b) /\ ~NotAPrefix(h, b)
  BY <1>7 DEF AdmissionError
<1>9. Fresh(h, b) = {} \/ (h.status = "open" /\ ~OverStagingLimit(h, b))
  BY <1>7, <1>8 DEF AdmissionError
<1>. HIDE DEF b, h, n
<1>10. HeaderOK(Admitted(h, b), n) /\ Admitted(h, b).status = h.status
  BY <1>0, <1>2, <1>5, <1>9, AdmittedFacts
<1>11. /\ HeaderOK(Finalized(Admitted(h, b), b), n)
       /\ Finalized(Admitted(h, b), b).log = Admitted(h, b).log
       /\ Finalized(Admitted(h, b), b).tasks = Admitted(h, b).tasks
  BY <1>0, <1>3, <1>10, FinalizedFacts
<1>. QED BY <1>1, <1>2, <1>3, <1>4, <1>5, <1>6, <1>7, <1>8, <1>9, <1>10, <1>11 DEF b, h, n

\* write_batch keeps the headers, the payload counter and the frontier.
LEMMA TxnsIngest ==
    ASSUME SessionInv, TxnsInv, IngressAssumption, IngestBatch
    PROVE  TxnsInv'
<1>. DEFINE b == NextBatch
            h == ClaimedHeader(b)
            a == Admitted(h, b)
            f == Finalized(a, b)
            n == Len(wal)
            c == Cardinality(Fresh(h, b))
<1>0. TxnsOK /\ PayloadOK /\ PublishedOK /\ n \in Nat
  BY DEF TxnsInv, SessionInv, WalOK
<1>1. /\ b.events \in Seq(EventAt(n)) /\ HeaderId(b) \in Id(n)
      /\ HeaderOK(h, n) /\ HeaderOK(a, n) /\ HeaderOK(f, n)
      /\ Fresh(h, b) = {} \/ (h.status = "open" /\ ~OverStagingLimit(h, b))
      /\ a.status = h.status /\ f.log = a.log
      /\ txns' = PutHeader(HeaderId(b), f)
      /\ \/ b.end = NoBoundary
         \/ b.end \in [kind : {"commit", "abort"}, lsn : 1 .. n]
         \/ b.end \in [kind : {"rollback"}, sub : Subs]
  BY <1>0, IngestFacts
<1>2. /\ openPayload' = OpenPayloadAfter(b) /\ wal' = wal /\ published' = published
  BY DEF IngestBatch
<1>3. TxnsOK'
  <2>. HIDE DEF f
  <2>. QED BY <1>0, <1>1, <1>2, TxnsPut
<1>4. PublishedOK'
  <2>1. persisted' >= persisted /\ persisted \in Nat /\ persisted' \in Nat
    BY <1>0, SessionIngest DEF SessionInv, ScalarsOK, Lsn, WalOK
  <2>. QED BY <1>0, <1>2, <2>1 DEF PublishedOK
<1>5. /\ c \in Nat /\ Len(a.log) = Len(h.log) + c /\ Len(h.log) \in Nat /\ Len(f.log) \in Nat
      /\ Fresh(h, b) = {} => c = 0
  <2>1. c \in Nat /\ (Fresh(h, b) = {} => c = 0)
    BY <1>1, FreshFacts, FS_EmptySet
  <2>2. Len(a.log) = Len(h.log) + c
    BY <1>0, <1>1, AdmittedFacts
  <2>3. Len(h.log) \in Nat
    BY <1>1 DEF HeaderOK, Header
  <2>. QED BY <1>1, <2>1, <2>2, <2>3
<1>6. f.status = "open" <=> h.status = "open" /\ b.end.kind \notin {"commit", "abort"}
  <2>. HIDE DEF a, b, h
  <2>. QED BY <1>0, <1>1, FinalizedFacts
<1>7. openPayload' = openPayload + c - (IF h.status = "open" /\ b.end.kind \in {"commit", "abort"}
                                        THEN Len(a.log) ELSE 0)
  BY <1>0, <1>2, <1>5, OpenFinite DEF OpenPayloadAfter, PayloadOK
<1>8. /\ HeaderId(b) \in OpenIds => h = txns[HeaderId(b)] /\ h.status = "open"
      /\ HeaderId(b) \notin OpenIds => h.status # "open" \/ Len(h.log) = 0
  BY DEF ClaimedHeader, OpenIds, NewHeader
<1>9. SetSum(Payload, OpenIds)' =
        openPayload - (IF HeaderId(b) \in OpenIds THEN Len(txns[HeaderId(b)].log) ELSE 0)
                    + (IF f.status = "open" THEN Len(f.log) ELSE 0)
  <2>. HIDE DEF f
  <2>. QED BY <1>0, <1>1, <1>5, PayloadPut DEF PayloadOK
<1>10. openPayload \in Nat /\ openPayload <= StagingLimit /\ StagingLimit \in Nat
  BY <1>0, OpenFinite DEF PayloadOK, IngressAssumption
<1>11. HeaderId(b) \in OpenIds => Len(h.log) <= openPayload
  BY <1>0, <1>8, OpenFinite DEF PayloadOK
<1>12. Fresh(h, b) # {} => openPayload + c <= StagingLimit
  BY <1>1, <1>5, <1>10 DEF OverStagingLimit
<1>. HIDE DEF b, h, a, f, n, c
<1>13. openPayload' = SetSum(Payload, OpenIds)'
  <2>1. Len(f.log) = Len(h.log) + c
    BY <1>1, <1>5
  <2>2. CASE HeaderId(b) \in OpenIds
    <3>1. h.status = "open" /\ Len(txns[HeaderId(b)].log) = Len(h.log)
      BY <1>8, <2>2
    <3>2. CASE b.end.kind \in {"commit", "abort"}
      <4>1. SetSum(Payload, OpenIds)' = openPayload - Len(h.log) + 0
        BY <1>6, <1>9, <2>2, <3>1, <3>2
      <4>2. openPayload' = openPayload + c - Len(a.log)
        BY <1>7, <3>1, <3>2
      <4>. QED BY <1>5, <1>10, <4>1, <4>2
    <3>3. CASE b.end.kind \notin {"commit", "abort"}
      <4>1. SetSum(Payload, OpenIds)' = openPayload - Len(h.log) + Len(f.log)
        BY <1>6, <1>9, <2>2, <3>1, <3>3
      <4>2. openPayload' = openPayload + c - 0
        BY <1>7, <3>3
      <4>3. Len(h.log) \in Nat /\ c \in Nat /\ openPayload \in Nat
        BY <1>5, <1>10
      <4>. DEFINE l == Len(h.log)
      <4>4. /\ l \in Nat /\ SetSum(Payload, OpenIds)' = openPayload - l + Len(f.log)
            /\ Len(f.log) = l + c
        BY <2>1, <4>1, <4>3
      <4>. HIDE DEF l
      <4>. QED BY <4>2, <4>3, <4>4
    <3>. QED BY <3>2, <3>3
  <2>3. CASE HeaderId(b) \notin OpenIds /\ h.status = "open"
    <3>1. Len(h.log) = 0
      BY <1>8, <2>3
    <3>2. CASE b.end.kind \in {"commit", "abort"}
      <4>1. SetSum(Payload, OpenIds)' = openPayload - 0 + 0
        BY <1>6, <1>9, <2>3, <3>2
      <4>2. openPayload' = openPayload + c - Len(a.log)
        BY <1>7, <2>3, <3>2
      <4>3. Len(a.log) = c /\ c \in Nat /\ openPayload \in Nat
        BY <1>5, <1>10, <3>1
      <4>. QED BY <4>1, <4>2, <4>3
    <3>3. CASE b.end.kind \notin {"commit", "abort"}
      <4>1. SetSum(Payload, OpenIds)' = openPayload - 0 + Len(f.log)
        BY <1>6, <1>9, <2>3, <3>3
      <4>2. openPayload' = openPayload + c - 0
        BY <1>7, <3>3
      <4>. QED BY <1>5, <1>10, <2>1, <3>1, <4>1, <4>2
    <3>. QED BY <3>2, <3>3
  <2>4. CASE HeaderId(b) \notin OpenIds /\ h.status # "open"
    BY <1>1, <1>5, <1>6, <1>7, <1>9, <1>10, <2>4
  <2>. QED BY <2>2, <2>3, <2>4
<1>14. openPayload' <= StagingLimit
  BY <1>5, <1>7, <1>10, <1>12
<1>15. PayloadOK'
  BY <1>13, <1>14 DEF PayloadOK
<1>. QED BY <1>3, <1>4, <1>15 DEF TxnsInv

\* What publication takes: an unfinished task of a committed header.
LEMMA CandidateFacts ==
    ASSUME SessionInv, TxnsOK, NEW w \in Candidates
    PROVE  LET h == txns[w.id] IN
           /\ w.id \in DOMAIN txns /\ w.id \in Id(Len(wal)) /\ HeaderOK(h, Len(wal))
           /\ h.status = "committed" /\ w.task \in h.tasks /\ w.task \in Task
           /\ w.task.next # 0 /\ w.task.next <= w.task.last /\ w.task.last <= Len(h.log)
           /\ ~Blocked(w) /\ \A v \in Waiting : v.task.source = w.task.source => ~EarlierTask(v, w)
<1>1. /\ w \in Waiting /\ ~Blocked(w)
      /\ \A v \in Waiting : v.task.source = w.task.source => ~EarlierTask(v, w)
  BY DEF Candidates
<1>2. /\ w.id \in DOMAIN txns /\ w.task \in txns[w.id].tasks /\ w.task.next # 0
      /\ txns[w.id].status = "committed"
  BY <1>1 DEF Waiting, Tasks
<1>3. w.id \in Id(Len(wal)) /\ HeaderOK(txns[w.id], Len(wal))
  BY <1>2 DEF TxnsOK
<1>4. w.task \in Task /\ w.task.next <= w.task.last /\ w.task.last <= Len(txns[w.id].log)
  BY <1>2, <1>3 DEF HeaderOK, Header, TasksOK
<1>. QED BY <1>1, <1>2, <1>3, <1>4

\* The rows of a task that are left: in log order, up to its end.
LEMMA LiveRowsFacts ==
    ASSUME SessionInv, TxnsOK, NEW w \in Candidates
    PROVE  LET h == txns[w.id]
               rows == LiveRows(w)
           IN /\ rows \in Seq(Nat)
              /\ \A k \in 1 .. Len(rows) :
                   /\ rows[k] \in w.task.next .. w.task.last /\ rows[k] \in 1 .. Len(h.log)
                   /\ h.log[rows[k]].source = w.task.source
                   /\ h.log[rows[k]].sub \notin h.aborted
              /\ \A j, k \in 1 .. Len(rows) : j < k => rows[j] < rows[k]
              /\ \A i \in w.task.next .. w.task.last :
                   h.log[i].source = w.task.source /\ h.log[i].sub \notin h.aborted
                     => \E k \in 1 .. Len(rows) : rows[k] = i
<1>. DEFINE h == txns[w.id]
            S == {i \in w.task.next .. w.task.last : /\ h.log[i].source = w.task.source
                                                     /\ h.log[i].sub \notin h.aborted}
            rows == LiveRows(w)
<1>1. /\ w.task \in Task /\ w.task.next # 0 /\ w.task.next <= w.task.last
      /\ w.task.last <= Len(h.log) /\ Len(h.log) \in Nat
  BY CandidateFacts DEF HeaderOK, Header
<1>2. /\ w.task.last \in Nat /\ w.task.next \in Nat \ {0}
      /\ S \in SUBSET (1 .. w.task.last)
  BY <1>1 DEF Task
<1>3. rows = Ascending(S, w.task.last)
  BY DEF LiveRows
<1>4. \A i \in S : /\ i \in w.task.next .. w.task.last /\ i \in 1 .. Len(h.log) /\ i \in Nat
                   /\ h.log[i].source = w.task.source /\ h.log[i].sub \notin h.aborted
  BY <1>1, <1>2
<1>5. \A i \in w.task.next .. w.task.last :
        h.log[i].source = w.task.source /\ h.log[i].sub \notin h.aborted => i \in S
  OBVIOUS
<1>. HIDE DEF S, rows
<1>6. /\ rows \in Seq(S)
      /\ \A j, k \in 1 .. Len(rows) : j < k => rows[j] < rows[k]
      /\ \A i \in S : \E k \in 1 .. Len(rows) : rows[k] = i
  BY <1>2, <1>3, AscendingFacts
<1>7. \A k \in 1 .. Len(rows) : rows[k] \in S
  BY <1>6, ElementOfSeq
<1>8. rows \in Seq(Nat)
  <2>1. S \subseteq Nat
    BY <1>4
  <2>. QED BY <1>6, <2>1, SeqGrows
<1>. QED BY <1>4, <1>5, <1>6, <1>7, <1>8 DEF rows

\* publish_source stops its cursor within the task.
LEMMA NextInputFacts ==
    ASSUME SessionInv, TxnsOK, IngressAssumption, NEW w \in Candidates
    PROVE  NextInputSeq(w) \in Nat /\ NextInputSeq(w) <= w.task.last
<1>1. /\ LiveRows(w) \in Seq(Nat) /\ w.task.last \in Nat
      /\ \A k \in 1 .. Len(LiveRows(w)) : LiveRows(w)[k] \in w.task.next .. w.task.last
  BY LiveRowsFacts, CandidateFacts DEF Task
<1>2. ChunkRows \in Nat \ {0} /\ Len(LiveRows(w)) \in Nat
  BY <1>1 DEF IngressAssumption
<1>3. w.task.next \in Nat
  BY CandidateFacts DEF Task
<1>. QED BY <1>1, <1>2, <1>3 DEF NextInputSeq

\* The effects, the header and the blocked flag after a publication step.
LEMMA PublishFacts ==
    ASSUME SessionInv, TxnsOK, IngressAssumption, PublishSource
    PROVE  \/ UNCHANGED <<txns, effects>>
           \/ \E w \in Candidates, next \in Nat :
                LET h == txns[w.id]
                    t == w.task
                IN /\ next <= t.last /\ txns' = PutHeader(w.id, CursorAt(h, t, next))
                   /\ \/ ~Wants(t.source, h.final) /\ next = 0 /\ effects' = effects
                      \/ /\ Wants(t.source, h.final) /\ next = NextInputSeq(w)
                         /\ effects' = [effects EXCEPT ![t.source] = effects[t.source] \o
                              [k \in DOMAIN ChunkOf(w) |->
                                 [xid |-> w.id.xid, lsn |-> h.log[ChunkOf(w)[k]].lsn,
                                  commit |-> h.final]]]
<1>1. CASE \E w \in Candidates : AppendChunk(w)
  <2>1. PICK w \in Candidates : AppendChunk(w)
    BY <1>1
  <2>2. NextInputSeq(w) \in Nat /\ NextInputSeq(w) <= w.task.last
    BY NextInputFacts
  <2>. QED BY <2>1, <2>2 DEF AppendChunk, AdvancedTask, CursorAt
<1>2. CASE \E w \in Candidates : DiscardTask(w)
  <2>1. PICK w \in Candidates : DiscardTask(w)
    BY <1>2
  <2>2. 0 \in Nat /\ 0 <= w.task.last
    BY CandidateFacts DEF Task
  <2>. QED BY <2>1, <2>2 DEF DiscardTask, AdvancedTask, CursorAt
<1>. QED BY <1>1, <1>2 DEF PublishSource

\* publish_source keeps the headers, the payload counter and the frontier.
LEMMA TxnsPublish ==
    ASSUME SessionInv, TxnsInv, IngressAssumption, PublishSource
    PROVE  TxnsInv'
<1>0. TxnsOK /\ PayloadOK /\ PublishedOK /\ Len(wal) \in Nat
  BY DEF TxnsInv, SessionInv, WalOK
<1>1. UNCHANGED <<wal, openPayload, persisted, published>>
  BY DEF PublishSource, replayVars
<1>2. PublishedOK'
  BY <1>0, <1>1 DEF PublishedOK
<1>3. CASE UNCHANGED <<txns, effects>>
  <2>1. TxnsOK' /\ PayloadOK'
    BY <1>0, <1>1, <1>3 DEF TxnsOK, PayloadOK, Payload, OpenIds
  <2>. QED BY <1>2, <2>1 DEF TxnsInv
<1>4. ASSUME NEW w \in Candidates, NEW next \in Nat, next <= w.task.last,
             NEW a, txns' = PutHeader(w.id, a),
             a = CursorAt(txns[w.id], w.task, next)
      PROVE  TxnsInv'
  <2>1. /\ w.id \in DOMAIN txns /\ w.id \in Id(Len(wal)) /\ HeaderOK(txns[w.id], Len(wal))
        /\ txns[w.id].status = "committed" /\ w.task \in txns[w.id].tasks /\ w.task.next # 0
    BY <1>0, CandidateFacts
  <2>2. HeaderOK(a, Len(wal)) /\ a.status = "committed" /\ a.log = txns[w.id].log
    BY <1>0, <1>4, <2>1, AdvancedFacts
  <2>3. TxnsOK'
    BY <1>0, <1>1, <1>4, <2>1, <2>2, TxnsPut
  <2>4. Len(a.log) \in Nat /\ w.id \notin OpenIds
    BY <2>1, <2>2 DEF HeaderOK, Header, OpenIds
  <2>5. SetSum(Payload, OpenIds)' = SetSum(Payload, OpenIds) - 0 + 0
    BY <1>0, <1>4, <2>2, <2>4, PayloadPut
  <2>6. PayloadOK'
    BY <1>0, <1>1, <2>5, OpenFinite DEF PayloadOK
  <2>. QED BY <1>2, <2>3, <2>6 DEF TxnsInv
<1>. QED BY <1>0, <1>3, <1>4, PublishFacts

\* published_lsn moves to the next sealed header, at most to persisted_lsn.
LEMMA FrontierMoves ==
    ASSUME SessionInv, TxnsInv, AdvanceFrontier
    PROVE  /\ published' >= published /\ PublishedOK'
           /\ published' # published =>
                \E id \in DOMAIN txns :
                   /\ published' = txns[id].final /\ txns[id].final > published
                   /\ FrontierMovesTo(txns[id])
                   /\ \A i \in DOMAIN txns :
                        txns[i].final > published => txns[i].final >= published'
<1>. DEFINE sealed == {txns[id] : id \in {i \in DOMAIN txns : txns[i].final > published}}
            next == {h \in sealed : (\A g \in sealed : h.final <= g.final) /\ FrontierMovesTo(h)}
            finals == {h.final : h \in next}
<1>1. /\ published' = (IF next = {} THEN published ELSE Min(finals)) /\ persisted' = persisted
  BY DEF AdvanceFrontier
<1>2. published \in Nat /\ published <= persisted /\ persisted \in Nat
  BY DEF TxnsInv, PublishedOK, SessionInv, ScalarsOK, Lsn, WalOK
<1>3. \A id \in DOMAIN txns : txns[id].final \in Nat
  BY DEF TxnsInv, TxnsOK, HeaderOK, Header, SessionInv, WalOK
<1>4. CASE next = {}
  BY <1>1, <1>2, <1>4 DEF PublishedOK
<1>5. CASE next # {}
  <2>1. finals \in SUBSET Nat /\ finals # {}
    BY <1>3, <1>5
  <2>2. Min(finals) \in finals
    <3>. HIDE DEF finals
    <3>. QED BY <2>1, MinOfNats
  <2>3. PICK h \in next : Min(finals) = h.final
    BY <2>2
  <2>4. PICK id \in DOMAIN txns : h = txns[id] /\ txns[id].final > published
    BY <2>3
  <2>5. FrontierMovesTo(txns[id]) /\ published' = txns[id].final
    BY <1>1, <1>5, <2>3, <2>4
  <2>6. \A i \in DOMAIN txns : txns[i].final > published => txns[i] \in sealed
    OBVIOUS
  <2>7. \A i \in DOMAIN txns : txns[i].final > published => txns[i].final >= published'
    BY <1>3, <2>3, <2>4, <2>5, <2>6
  <2>8. published' \in Nat /\ published' > published /\ published' <= persisted
    BY <1>3, <2>4, <2>5 DEF FrontierMovesTo
  <2>9. published' >= published /\ PublishedOK'
    BY <1>1, <1>2, <2>8 DEF PublishedOK
  <2>10. /\ published' = txns[id].final /\ txns[id].final > published
         /\ FrontierMovesTo(txns[id])
         /\ \A i \in DOMAIN txns : txns[i].final > published => txns[i].final >= published'
    BY <2>4, <2>5, <2>7
  <2>. QED BY <2>4, <2>9, <2>10
<1>. QED BY <1>4, <1>5

\* The staged transactions stay as they are while the log may grow.
LEMMA TxnsSame ==
    ASSUME SessionInv, TxnsInv, UNCHANGED <<txns, openPayload>>,
           Len(wal') \in Nat, Len(wal) <= Len(wal')
    PROVE  TxnsOK' /\ PayloadOK'
<1>0. TxnsOK /\ PayloadOK /\ Len(wal) \in Nat
  BY DEF TxnsInv, SessionInv, WalOK
<1>1. \A i \in Id(Len(wal)) : i \in Id(Len(wal'))
  BY <1>0 DEF Id
<1>2. TxnsOK'
  BY <1>0, <1>1, HeaderGrows DEF TxnsOK
<1>3. PayloadOK'
  BY <1>0 DEF PayloadOK, Payload, OpenIds
<1>. QED BY <1>2, <1>3

\* _gc_change_log deletes sealed headers: no open payload is lost with them.
LEMMA TxnsGarbage ==
    ASSUME SessionInv, TxnsInv, CollectGarbage
    PROVE  TxnsInv'
<1>0. /\ TxnsOK /\ PayloadOK /\ PublishedOK
      /\ UNCHANGED <<wal, openPayload, persisted, published>>
  BY DEF TxnsInv, CollectGarbage
<1>1. PICK old \in SUBSET Garbage(replaySafe') :
        txns' = [id \in DOMAIN txns \ old |-> txns[id]]
  BY DEF CollectGarbage
<1>2. /\ DOMAIN txns' = DOMAIN txns \ old /\ \A id \in DOMAIN txns' : txns'[id] = txns[id]
      /\ OpenIds \cap old = {}
  BY <1>1 DEF Garbage, OpenIds
<1>3. TxnsOK'
  <2>1. IsFiniteSet(DOMAIN txns')
    BY <1>0, <1>2, FS_Subset DEF TxnsOK
  <2>. QED BY <1>0, <1>2, <2>1 DEF TxnsOK
<1>4. OpenIds' = OpenIds
  BY <1>2 DEF OpenIds
<1>5. \A i \in OpenIds : Payload[i] \in Int /\ Payload[i] = Payload'[i]
  BY <1>0, <1>2, OpenFinite DEF Payload, OpenIds
<1>6. SetSum(Payload, OpenIds) = SetSum(Payload', OpenIds)
  BY <1>0, <1>5, OpenFinite, SetSumAgree
<1>7. PayloadOK' /\ PublishedOK'
  BY <1>0, <1>4, <1>6 DEF PayloadOK, PublishedOK
<1>. QED BY <1>3, <1>7 DEF TxnsInv

\* reconcile_postmaster_restart retires every open header.
LEMMA TxnsStart ==
    ASSUME SessionInv, TxnsInv, IngressAssumption, StartRuntime
    PROVE  TxnsInv'
<1>0. /\ TxnsOK /\ PayloadOK /\ PublishedOK /\ Len(wal) \in Nat
      /\ UNCHANGED <<wal, persisted, published>>
  BY DEF TxnsInv, StartRuntime, SessionInv, WalOK, replayVars
<1>1. PublishedOK'
  BY <1>0 DEF PublishedOK
<1>2. CASE ~staleEpoch
  <2>1. UNCHANGED <<txns, openPayload>>
    BY <1>2 DEF StartRuntime
  <2>. QED BY <1>0, <1>1, <2>1, TxnsSame DEF TxnsInv
<1>3. CASE staleEpoch
  <2>1. txns' = ReconciledHeaders /\ openPayload' = 0
    BY <1>3 DEF StartRuntime
  <2>2. ASSUME NEW id \in DOMAIN txns
        PROVE  HeaderOK(txns'[id], Len(wal)) /\ txns'[id].status # "open"
    <3>. DEFINE h == txns[id]
                r == [h EXCEPT !.status = "aborted", !.final = id.start, !.end = id.start,
                               !.pending = 0]
    <3>1. HeaderOK(h, Len(wal)) /\ id.start \in 0 .. Len(wal) + 1
      BY <1>0 DEF TxnsOK, Id
    <3>2. txns'[id] = IF h.status = "open" THEN r ELSE h
      BY <2>1 DEF ReconciledHeaders
    <3>. HIDE DEF h
    <3>3. h \in Header(Len(wal)) /\ TasksOK(h)
      BY <3>1 DEF HeaderOK
    <3>4. /\ r.log = h.log /\ r.tasks = h.tasks /\ r.batches = h.batches
          /\ r.pending = 0 /\ r.status = "aborted"
      BY <3>3 DEF Header
    <3>5. r \in Header(Len(wal))
      BY <3>1, <3>3 DEF Header
    <3>. HIDE DEF r
    <3>6. HeaderOK(r, Len(wal))
      BY <3>3, <3>4, <3>5 DEF HeaderOK, TasksOK, PendingOK
    <3>. QED BY <3>1, <3>2, <3>4, <3>6
  <2>3. DOMAIN txns' = DOMAIN txns
    BY <2>1 DEF ReconciledHeaders
  <2>4. TxnsOK'
    BY <1>0, <2>2, <2>3 DEF TxnsOK
  <2>5. OpenIds' = {}
    BY <2>2, <2>3 DEF OpenIds
  <2>6. PayloadOK'
    BY <2>1, <2>5, SetSumEmpty DEF PayloadOK, IngressAssumption
  <2>. QED BY <1>1, <2>4, <2>6 DEF TxnsInv
<1>. QED BY <1>2, <1>3

\* There are no headers, and nothing is counted, in the initial state.
LEMMA TxnsInit == ASSUME IngressAssumption, Init PROVE TxnsInv
<1>1. DOMAIN txns = {} /\ OpenIds = {}
  BY DEF Init, OpenIds
<1>2. TxnsOK
  BY <1>1, FS_EmptySet DEF TxnsOK
<1>3. PayloadOK
  BY <1>1, SetSumEmpty DEF Init, PayloadOK, IngressAssumption
<1>. QED BY <1>2, <1>3 DEF TxnsInv, PublishedOK, Init

\* One step per action that touches the headers, the counters or the frontier.
LEMMA TxnsStep ==
    ASSUME SessionInv, TxnsInv, IngressAssumption, [Next]_vars
    PROVE  TxnsInv'
<1>0. SessionInv' /\ PublishedOK /\ Len(wal) \in Nat
  BY SessionStep DEF TxnsInv, SessionInv, WalOK
<1>1. ASSUME UNCHANGED <<txns, openPayload, persisted, published>>,
             wal' = wal \/ \E r \in WalRecord : wal' = Append(wal, r)
      PROVE  TxnsInv'
  <2>1. Len(wal') \in Nat /\ Len(wal) <= Len(wal')
    BY <1>0, <1>1, WalGrows DEF SessionInv
  <2>2. PublishedOK'
    BY <1>0, <1>1 DEF PublishedOK
  <2>. QED BY <1>1, <2>1, <2>2, TxnsSame DEF TxnsInv
<1>2. CASE Source
  BY <1>1, <1>2, SourceRecords
<1>3. CASE Walsender
  BY <1>1, <1>3 DEF Walsender, Decode, SlotConfirms, StreamSegment, replayVars
<1>4. CASE AdvanceFrontier
  <2>1. UNCHANGED <<wal, txns, openPayload>>
    BY <1>4 DEF AdvanceFrontier
  <2>2. TxnsOK' /\ PayloadOK'
    BY <1>0, <2>1, TxnsSame
  <2>. QED BY <1>4, <2>2, FrontierMoves DEF TxnsInv
<1>5. CASE IngestRefused \/ IngestNothing \/ SendStatus \/ RecordFeedback
  BY <1>1, <1>5 DEF IngestRefused, IngestNothing, SendStatus, RecordFeedback, replayVars
<1>6. CASE RuntimeCrash
  BY <1>1, <1>6 DEF RuntimeCrash, replayVars
<1>7. CASE PostmasterRestart
  <2>1. [op |-> "recovery"] \in WalRecord
    BY DEF WalRecord
  <2>. QED BY <1>1, <1>7, <2>1 DEF PostmasterRestart, replayVars
<1>8. CASE UNCHANGED vars
  BY <1>1, <1>8 DEF vars
<1>. QED BY <1>2, <1>3, <1>4, <1>5, <1>6, <1>7, <1>8, TxnsIngest, TxnsPublish, TxnsGarbage,
            TxnsStart
         DEF Next, Runtime, Fault
-----------------------------------------------------------------------------
\* The sum as AccountingExact writes it.
LEMMA OpenPayloadSum ==
    ASSUME TxnsOK
    PROVE  MapThenSumSet(LAMBDA id : Len(txns[id].log), OpenIds) = SetSum(Payload, OpenIds)
<1>. DEFINE S == OpenIds
            P(f) == f = [s \in SUBSET S |->
                           IF s = {} THEN 0
                           ELSE Len(txns[Chosen(s)].log) + f[s \ {Chosen(s)}]]
            iter == CHOOSE f : P(f)
<1>1. /\ IsFiniteSet(S) /\ S \subseteq DOMAIN txns
      /\ \A i \in S : Payload[i] = Len(txns[i].log) /\ Payload[i] \in Int
  BY OpenFinite
<1>2. \A s \in SUBSET S : s # {} => Payload[Chosen(s)] = Len(txns[Chosen(s)].log)
  BY <1>1, ChosenIn
<1>. HIDE DEF S
<1>3. ASSUME NEW f PROVE P(f) <=> IsSummation(f, Payload, S)
  BY <1>2 DEF IsSummation
<1>4. PICK f \in [SUBSET S -> Int] : IsSummation(f, Payload, S) /\ SetSum(Payload, S) = f[S]
  BY <1>1, SetSumDef
<1>5. P(iter)
  <2>1. P(f)
    BY <1>3, <1>4, Zenon
  <2>. QED BY <2>1, Zenon
<1>6. MapThenSumSet(LAMBDA id : Len(txns[id].log), S) = iter[S]
  BY Zenon DEF MapThenSumSet, MapThenFoldSet, Chosen
<1>. HIDE DEF iter, P
<1>7. IsSummation(iter, Payload, S) /\ S \in SUBSET (S \cap S)
  BY <1>3, <1>5
<1>8. iter[S] = f[S]
  BY <1>1, <1>4, <1>7, SummationUnique
<1>. QED BY <1>4, <1>6, <1>8 DEF S

\* The invariants of the session and of the staged transactions hold.
LEMMA IngressInvariant == Spec => [](SessionInv /\ TxnsInv)
<1>1. Init => SessionInv /\ TxnsInv
  BY SessionInit, TxnsInit, IngressAssumption
<1>2. SessionInv /\ TxnsInv /\ [Next]_vars => (SessionInv /\ TxnsInv)'
  BY SessionStep, TxnsStep, IngressAssumption
<1>. QED BY <1>1, <1>2, PTL DEF Spec

\* Every catalog column and in-memory field of ingress keeps its type, for any
\* number of transactions, sources, batches and failures.
THEOREM TypeCorrect == Spec => []TypeOK
<1>1. ASSUME SessionInv, TxnsInv PROVE TypeOK
  <2>. USE <1>1
  <2>1. ScalarsOK /\ SenderOK /\ SegmentOK /\ TxnsOK /\ PayloadOK /\ PublishedOK /\ WalOK
    BY DEF SessionInv, TxnsInv
  <2>2. /\ Len(wal) \in Nat /\ Event = EventAt(Len(wal)) /\ Positions = 1 .. Len(wal)
        /\ Lsn = 0 .. Len(wal) + 1
    BY <2>1 DEF WalOK, Event, EventAt, Positions, Lsn
  <2>3. published \in Lsn
    BY <2>1, <2>2 DEF PublishedOK, ScalarsOK
  <2>4. openPayload \in Nat
    BY <2>1, OpenFinite DEF PayloadOK
  <2>5. ASSUME NEW id \in DOMAIN txns
        PROVE  /\ id.xid \in Xids /\ id.start \in Positions
               /\ txns[id].status \in {"open", "committed", "aborted"}
               /\ txns[id].final \in Lsn /\ txns[id].end \in Lsn
               /\ txns[id].log \in Seq(Event) /\ txns[id].pending \in Nat
               /\ \A t \in txns[id].tasks :
                    t.next \in 0 .. t.last /\ t.last <= Len(txns[id].log)
    <3>. DEFINE h == txns[id]
    <3>1. id \in Id(Len(wal)) /\ HeaderOK(h, Len(wal))
      BY <2>1 DEF TxnsOK
    <3>. HIDE DEF h
    <3>2. h \in Header(Len(wal)) /\ TasksOK(h)
      BY <3>1 DEF HeaderOK
    <3>3. /\ h.status \in {"open", "committed", "aborted"} /\ h.pending \in Nat
          /\ h.final \in 0 .. Len(wal) + 1 /\ h.end \in 0 .. Len(wal) + 1
          /\ h.log \in Seq(EventAt(Len(wal))) /\ h.tasks \in SUBSET Task
      BY <3>2 DEF Header
    <3>4. \A t \in h.tasks : t.next \in 0 .. t.last /\ t.last <= Len(h.log)
      BY <3>2, <3>3 DEF TasksOK, Task
    <3>. QED BY <2>2, <3>1, <3>3, <3>4 DEF Id, h
  <2>6. segment = NoSegment \/ segment.xid \in Xids
    BY <2>1 DEF SegmentOK, Segment
  <2>. QED BY <2>1, <2>3, <2>4, <2>5, <2>6, Zenon DEF ScalarsOK, SenderOK, TypeOK
<1>. QED BY <1>1, IngressInvariant, PTL

\* A status is sent, and the slot confirmed, only up to what is persisted.
THEOREM FeedbackIsSafe == Spec => []FeedbackSafe
<1>1. SessionInv /\ TxnsInv => FeedbackSafe
  BY DEF SessionInv, TxnsInv, FlushOK, PublishedOK, FeedbackSafe
<1>. QED BY <1>1, IngressInvariant, PTL

\* pending_publications and open_payload_bytes are exact through every admission,
\* replay, abort, publication step, collection and reconciliation.
THEOREM AccountingIsExact == Spec => []AccountingExact
<1>1. ASSUME SessionInv, TxnsInv PROVE AccountingExact
  <2>1. TxnsOK /\ PayloadOK
    BY <1>1 DEF TxnsInv
  <2>2. \A id \in DOMAIN txns :
          txns[id].pending = IF txns[id].status = "aborted" THEN 0
                             ELSE Cardinality({t \in txns[id].tasks : t.next # 0})
    BY <2>1 DEF TxnsOK, HeaderOK, PendingOK, Unfinished
  <2>3. openPayload = MapThenSumSet(LAMBDA id : Len(txns[id].log), OpenIds)
    BY <2>1, OpenPayloadSum DEF PayloadOK
  <2>4. openPayload <= StagingLimit
    BY <2>1 DEF PayloadOK
  <2>. QED BY <2>2, <2>3, <2>4, Zenon DEF AccountingExact, OpenIds
<1>. QED BY <1>1, IngressInvariant, PTL

\* No step, a crash and a server restart included, moves a progress column back.
THEOREM ProgressIsMonotone == Spec => ProgressMonotone
<1>1. ASSUME SessionInv, TxnsInv, [Next]_vars
      PROVE  /\ persisted' >= persisted /\ published' >= published
             /\ confirmed' >= confirmed /\ replaySafe' >= replaySafe
  <2>1. /\ persisted \in Nat /\ published \in Nat /\ confirmed \in Nat /\ replaySafe \in Nat
        /\ slot \in Nat /\ status \in Nat
    BY <1>1 DEF SessionInv, ScalarsOK, TxnsInv, PublishedOK, Lsn, WalOK
  <2>2. ASSUME UNCHANGED <<persisted, published, confirmed, replaySafe>>
        PROVE  /\ persisted' >= persisted /\ published' >= published
               /\ confirmed' >= confirmed /\ replaySafe' >= replaySafe
    BY <2>1, <2>2
  <2>3. CASE Source
    BY <2>2, <2>3, SourceRecords, IngressAssumption
  <2>4. CASE Walsender
    BY <2>2, <2>4 DEF Walsender, Decode, SlotConfirms, StreamSegment, replayVars
  <2>5. CASE AdvanceFrontier
    <3>1. UNCHANGED <<persisted, confirmed, replaySafe>>
      BY <2>5 DEF AdvanceFrontier
    <3>. QED BY <1>1, <2>1, <2>5, <3>1, FrontierMoves
  <2>6. CASE IngestBatch
    <3>1. UNCHANGED <<published, confirmed, replaySafe>>
      BY <2>6 DEF IngestBatch
    <3>. QED BY <1>1, <2>1, <2>6, <3>1, SessionIngest, IngressAssumption
  <2>7. CASE PublishSource \/ IngestRefused \/ IngestNothing \/ SendStatus \/ StartRuntime
    BY <2>2, <2>7 DEF PublishSource, IngestRefused, IngestNothing, SendStatus, StartRuntime,
                      replayVars
  <2>8. CASE RecordFeedback
    BY <2>1, <2>8 DEF RecordFeedback
  <2>9. CASE CollectGarbage
    BY <2>1, <2>9 DEF CollectGarbage, ReplaySafeAfter, Larger
  <2>10. CASE Fault
    BY <2>2, <2>10 DEF Fault, RuntimeCrash, PostmasterRestart, replayVars
  <2>11. CASE UNCHANGED vars
    BY <2>2, <2>11 DEF vars
  <2>. QED BY <1>1, <2>3, <2>4, <2>5, <2>6, <2>7, <2>8, <2>9, <2>10, <2>11
           DEF Next, Runtime
<1>2. SessionInv /\ TxnsInv /\ [Next]_vars =>
        [ /\ persisted' >= persisted /\ published' >= published
          /\ confirmed' >= confirmed /\ replaySafe' >= replaySafe ]_vars
  BY <1>1
<1>. QED BY <1>2, IngressInvariant, PTL DEF Spec, ProgressMonotone

-----------------------------------------------------------------------------
(***************************************************************************)
(* Where the rows of a source stream come from, from the write-ahead log   *)
(* over segments and staged headers to the stream.                         *)
(***************************************************************************)

\* Position i holds a change of x to source s; the commit record of x.
IsRow(i, x, s) ==
    i \in Positions /\ wal[i].op = "change" /\ wal[i].xid = x /\ wal[i].source = s
IsCommit(i, x) == i \in Positions /\ wal[i] = [op |-> "commit", xid |-> x]

\* A transaction ends after its changes, once, and writes nothing more.
EndLaw ==
    \A i \in Positions : wal[i].op \in {"commit", "abort"} =>
        /\ \E j \in Positions : j < i /\ wal[j].op = "change" /\ wal[j].xid = wal[i].xid
        /\ \A j \in Positions : j > i => wal[j].op = "recovery" \/ wal[j].xid # wal[i].xid

\* What the walsender has sent and the Runtime has not yet persisted.
SegmentRows ==
    segment # NoSegment =>
        /\ \A k \in 1 .. Len(segment.events) :
             IsRow(segment.events[k].lsn, segment.xid, segment.events[k].source)
        /\ segment.end.kind = "commit" => IsCommit(segment.end.lsn, segment.xid)

\* What is staged: rows of the header's transaction, sealed by its commit.
HeaderRows ==
    \A id \in DOMAIN txns :
        /\ \A k \in 1 .. Len(txns[id].log) :
             IsRow(txns[id].log[k].lsn, id.xid, txns[id].log[k].source)
        /\ txns[id].status = "committed" => IsCommit(txns[id].final, id.xid)

\* What is in the source streams.
Effect == [xid : Xids, lsn : Nat, commit : Nat]
EffectRows ==
    /\ effects \in [Sources -> Seq(Effect)]
    /\ \A s \in Sources : \A k \in 1 .. Len(effects[s]) :
         /\ IsRow(effects[s][k].lsn, effects[s][k].xid, s)
         /\ IsCommit(effects[s][k].commit, effects[s][k].xid)
         /\ Wants(s, effects[s][k].commit)

RowInv == EndLaw /\ SegmentRows /\ HeaderRows /\ EffectRows
-----------------------------------------------------------------------------
\* The write-ahead log as it grows.

\* Every step of the system leaves the log alone or appends one record.
LEMMA WalStep ==
    ASSUME IngressAssumption, [Next]_vars
    PROVE  wal' = wal \/ \E r \in WalRecord : wal' = Append(wal, r)
<1>1. CASE Source
  BY <1>1, SourceRecords
<1>2. CASE Walsender
  BY <1>2 DEF Walsender, Decode, SlotConfirms, StreamSegment
<1>3. CASE Runtime
  BY <1>3 DEF Runtime, PublishSource, AdvanceFrontier, IngestBatch, IngestRefused,
              IngestNothing, SendStatus, RecordFeedback, CollectGarbage, StartRuntime
<1>4. CASE Fault
  BY <1>4 DEF Fault, RuntimeCrash, PostmasterRestart, WalRecord
<1>5. CASE UNCHANGED vars
  BY <1>5 DEF vars
<1>. QED BY <1>1, <1>2, <1>3, <1>4, <1>5 DEF Next

\* Records stay where they are.
LEMMA RecordsStay ==
    ASSUME WalOK, wal' = wal \/ \E r \in WalRecord : wal' = Append(wal, r)
    PROVE  /\ Positions \subseteq Positions' /\ \A i \in Positions : wal'[i] = wal[i]
           /\ Len(wal) \in Nat /\ Len(wal') \in Nat /\ Len(wal) <= Len(wal')
BY WalGrows DEF WalOK, Positions

\* A transaction that has ended in the log writes no further record.
LEMMA EndedStays ==
    ASSUME WalOK, EndLaw, NEW i \in Positions, wal[i].op \in {"commit", "abort"}
    PROVE  Ended(wal[i].xid)
<1>1. i \in Nat /\ i <= Len(wal)
  BY DEF Positions, WalOK
<1>2. \E j \in Changes(wal[i].xid) : j < i
  BY DEF EndLaw, Changes, IsChange
<1>. QED BY <1>1, <1>2 DEF Ended, EndedBy, IsEnd

\* A record is written that leaves every ended transaction alone.
LEMMA EndLawGrows ==
    ASSUME WalOK, EndLaw, NEW r \in WalRecord, wal' = Append(wal, r),
           r.op = "recovery" \/ ~Ended(r.xid),
           r.op \in {"commit", "abort"} => Changes(r.xid) # {}
    PROVE  EndLaw'
<1>1. /\ WalOK' /\ Len(wal') = Len(wal) + 1 /\ Len(wal) \in Nat
      /\ Positions \subseteq Positions' /\ \A i \in Positions : wal'[i] = wal[i]
      /\ wal'[Len(wal) + 1] = r
  BY WalGrows
<1>3. SUFFICES ASSUME NEW i \in Positions', wal'[i].op \in {"commit", "abort"}
               PROVE  /\ \E j \in Positions' : /\ j < i /\ wal'[j].op = "change"
                                               /\ wal'[j].xid = wal'[i].xid
                      /\ \A j \in Positions' : j > i =>
                            wal'[j].op = "recovery" \/ wal'[j].xid # wal'[i].xid
  BY DEF EndLaw
<1>4. \A j \in Positions' : j \in Positions \/ j = Len(wal) + 1
  BY <1>1 DEF Positions
<1>5. CASE i \in Positions
  <2>1. wal'[i] = wal[i]
    BY <1>1, <1>5
  <2>2. \E j \in Positions : j < i /\ wal[j].op = "change" /\ wal[j].xid = wal[i].xid
    BY <1>3, <1>5, <2>1 DEF EndLaw
  <2>3. \E j \in Positions' : j < i /\ wal'[j].op = "change" /\ wal'[j].xid = wal'[i].xid
    BY <1>1, <2>1, <2>2
  <2>4. ASSUME NEW j \in Positions', j > i
        PROVE  wal'[j].op = "recovery" \/ wal'[j].xid # wal'[i].xid
    <3>1. CASE j \in Positions
      <4>1. wal[i].op \in {"commit", "abort"} /\ wal'[j] = wal[j]
        BY <1>1, <1>3, <2>1, <3>1
      <4>2. wal[j].op = "recovery" \/ wal[j].xid # wal[i].xid
        BY <1>5, <2>4, <3>1, <4>1 DEF EndLaw
      <4>. QED BY <2>1, <4>1, <4>2
    <3>2. CASE j = Len(wal) + 1
      <4>1. Ended(wal[i].xid)
        BY <1>3, <1>5, <2>1, EndedStays
      <4>. QED BY <1>1, <2>1, <3>2, <4>1
    <3>. QED BY <1>4, <3>1, <3>2
  <2>. QED BY <2>3, <2>4
<1>6. CASE i = Len(wal) + 1
  <2>1. wal'[i] = r
    BY <1>1, <1>6
  <2>2. PICK j \in Changes(r.xid) : TRUE
    BY <1>3, <2>1
  <2>3. /\ j \in Positions' /\ j < i /\ wal'[j].op = "change" /\ wal'[j].xid = r.xid
    BY <1>1, <1>6, <2>2 DEF Changes, Positions, IsChange
  <2>4. \A k \in Positions' : ~(k > i)
    BY <1>1, <1>6 DEF Positions
  <2>. QED BY <2>1, <2>3, <2>4
<1>. QED BY <1>4, <1>5, <1>6

\* Writers respect the end of a transaction; a server restart ends them all.
LEMMA EndLawStep ==
    ASSUME IngressAssumption, SessionInv, EndLaw, [Next]_vars
    PROVE  EndLaw'
<1>0. WalOK
  BY DEF SessionInv
<1>1. CASE wal' = wal
  BY <1>1 DEF EndLaw, Positions, Changes, IsChange
<1>2. ASSUME NEW x \in Xids, NEW s \in Sources, NEW sub \in Subs \cup {Top},
             WriteChange(x, sub, s)
      PROVE  EndLaw'
  <2>. DEFINE r == [op |-> "change", xid |-> x, sub |-> sub, source |-> s]
  <2>1. /\ r \in WalRecord /\ r.op = "change" /\ r.xid = x
        /\ wal' = Append(wal, r) /\ ~Ended(x)
    BY <1>2 DEF WriteChange, WriteRecord, WalRecord
  <2>. HIDE DEF r
  <2>. QED BY <1>0, <2>1, EndLawGrows
<1>3. ASSUME NEW x \in Xids, NEW sub \in Subs, WriteRollback(x, sub)
      PROVE  EndLaw'
  <2>. DEFINE r == [op |-> "rollback", xid |-> x, sub |-> sub]
  <2>1. /\ r \in WalRecord /\ r.op = "rollback" /\ r.xid = x
        /\ wal' = Append(wal, r) /\ ~Ended(x)
    BY <1>3 DEF WriteRollback, WriteRecord, WalRecord, InProgress
  <2>. HIDE DEF r
  <2>. QED BY <1>0, <2>1, EndLawGrows
<1>4. ASSUME NEW x \in Xids, NEW op \in Ends, WriteEnd(x, op)
      PROVE  EndLaw'
  <2>. DEFINE r == [op |-> op, xid |-> x]
  <2>1. /\ r \in WalRecord /\ r.xid = x
        /\ wal' = Append(wal, r) /\ ~Ended(x) /\ Changes(x) # {}
    BY <1>4 DEF WriteEnd, WriteRecord, WalRecord, InProgress, IngressAssumption
  <2>. HIDE DEF r
  <2>. QED BY <1>0, <2>1, EndLawGrows
<1>5. CASE PostmasterRestart
  <2>. DEFINE r == [op |-> "recovery"]
  <2>1. r \in WalRecord /\ r.op = "recovery" /\ wal' = Append(wal, r)
    BY <1>5 DEF PostmasterRestart, WalRecord
  <2>. HIDE DEF r
  <2>. QED BY <1>0, <2>1, EndLawGrows
<1>6. CASE \E s \in Sources : RegisterSource(s) \/ DropSource(s) \/ DrainStream(s)
  BY <1>1, <1>6 DEF RegisterSource, DropSource, DrainStream
<1>7. CASE Walsender
  BY <1>1, <1>7 DEF Walsender, Decode, SlotConfirms, StreamSegment
<1>8. CASE Runtime
  BY <1>1, <1>8 DEF Runtime, PublishSource, AdvanceFrontier, IngestBatch, IngestRefused,
              IngestNothing, SendStatus, RecordFeedback, CollectGarbage, StartRuntime
<1>9. CASE RuntimeCrash \/ UNCHANGED vars
  BY <1>1, <1>9 DEF RuntimeCrash, vars
<1>. QED BY <1>2, <1>3, <1>4, <1>5, <1>6, <1>7, <1>8, <1>9 DEF Next, Source, Fault
-----------------------------------------------------------------------------
\* What the walsender sends.

\* A segment of a transaction in progress: all its changes queued so far.
LEMMA StreamFacts ==
    ASSUME SessionInv, NEW x \in Xids, StreamSegment(x)
    PROVE  LET events == Queued(x, sender.sent[x], sender.pos, TRUE)
               start == IF x \in Streamed THEN sender.streamed[x] ELSE events[1].lsn
           IN /\ up /\ up' = up /\ segment = NoSegment /\ events # <<>>
              /\ sender.pos \in Nat /\ sender.sent[x] \in Nat
              /\ 1 <= sender.pos /\ sender.pos <= Len(wal) + 1
              /\ sender.pos > sender.start /\ ~EndedBy(x, sender.pos - 1)
              /\ segment' = [xid |-> x, start |-> start, events |-> events,
                             streaming |-> TRUE, end |-> NoBoundary]
              /\ sender'.start = sender.start /\ sender'.pos = sender.pos
              /\ DOMAIN sender'.streamed = Streamed \cup {x}
              /\ \A y \in Streamed \cup {x} :
                   sender'.streamed[y] = IF y = x THEN start ELSE sender.streamed[y]
              /\ sender'.sent = [sender.sent EXCEPT ![x] = sender.pos - 1]
              /\ UNCHANGED <<wal, txns, persisted, published, effects, activation>>
<1>. DEFINE events == Queued(x, sender.sent[x], sender.pos, TRUE)
            start == IF x \in Streamed THEN sender.streamed[x] ELSE events[1].lsn
<1>1. /\ up /\ segment = NoSegment /\ events # <<>> /\ sender.pos > sender.start
      /\ ~EndedBy(x, sender.pos - 1)
      /\ segment' = [xid |-> x, start |-> start, events |-> events,
                     streaming |-> TRUE, end |-> NoBoundary]
      /\ sender' = [sender EXCEPT
                       !.streamed = [y \in Streamed \cup {x} |->
                                        IF y = x THEN start ELSE sender.streamed[y]],
                       !.sent = [sender.sent EXCEPT ![x] = sender.pos - 1]]
      /\ UNCHANGED <<wal, txns, persisted, published, effects, activation, up>>
  BY DEF StreamSegment, Send, loopVars, replayVars, streamVars
<1>2. /\ Len(wal) \in Nat /\ sender.pos \in Nat /\ sender.sent[x] \in Nat
      /\ 1 <= sender.pos /\ sender.pos <= Len(wal) + 1
  BY <1>1 DEF SessionInv, WalOK, SenderOK, Lsn
<1>. HIDE DEF events, start
<1>3. /\ sender'.start = sender.start /\ sender'.pos = sender.pos
      /\ sender'.streamed = [y \in Streamed \cup {x} |->
                               IF y = x THEN start ELSE sender.streamed[y]]
      /\ sender'.sent = [sender.sent EXCEPT ![x] = sender.pos - 1]
  BY <1>1 DEF SessionInv, SenderOK
<1>. QED BY <1>1, <1>2, <1>3 DEF events, start

\* A decoded record: a commit sends what is left of its transaction, the abort
\* of a streamed transaction or of one of its subtransactions only itself.
LEMMA DecodeFacts ==
    ASSUME SessionInv, Decode
    PROVE  LET r == wal[sender.pos]
               streaming == r.xid \in Streamed
               events == Queued(r.xid, sender.sent[r.xid], sender.pos, streaming)
               start == IF streaming THEN sender.streamed[r.xid] ELSE Min(Changes(r.xid))
           IN /\ up /\ up' = up /\ segment = NoSegment
              /\ sender.pos \in Positions /\ r \in WalRecord
              /\ sender'.start = sender.start /\ sender'.pos = sender.pos + 1
              /\ sender'.sent = sender.sent
              /\ DOMAIN sender'.streamed \subseteq Streamed
              /\ \A y \in DOMAIN sender'.streamed : sender'.streamed[y] = sender.streamed[y]
              /\ r.op \in {"commit", "abort"} => r.xid \notin DOMAIN sender'.streamed
              /\ r.op = "recovery" => DOMAIN sender'.streamed = {}
              /\ UNCHANGED <<wal, txns, persisted, published, effects, activation>>
              /\ \/ /\ segment' = NoSegment
                    /\ r.op = "commit" => ~streaming /\ events = <<>>
                 \/ /\ r.op = "commit" /\ r.xid \in Xids
                    /\ ~(~streaming /\ events = <<>>)
                    /\ segment' = [xid |-> r.xid, start |-> start, events |-> events,
                                   streaming |-> streaming,
                                   end |-> [kind |-> "commit", lsn |-> sender.pos]]
                 \/ /\ r.op \in {"abort", "rollback"} /\ r.xid \in Streamed
                    /\ segment' = [xid |-> r.xid, start |-> sender.streamed[r.xid],
                                   events |-> <<>>, streaming |-> TRUE, end |-> segment'.end]
                    /\ segment'.end =
                         IF r.op = "abort" THEN [kind |-> "abort", lsn |-> sender.pos]
                         ELSE [kind |-> "rollback", sub |-> r.sub]
<1>. DEFINE r == wal[sender.pos]
            streaming == r.xid \in Streamed
            events == Queued(r.xid, sender.sent[r.xid], sender.pos, streaming)
            start == IF streaming THEN sender.streamed[r.xid] ELSE Min(Changes(r.xid))
            streamed == CASE r.op \in {"commit", "abort"} -> Without(sender.streamed, r.xid)
                          [] r.op = "recovery" -> <<>>
                          [] OTHER -> sender.streamed
<1>1. /\ up /\ segment = NoSegment /\ sender.pos <= Len(wal)
      /\ CASE r.op = "commit" -> DecodeCommit(r.xid)
           [] r.op = "abort" -> DecodeAbort(r.xid)
           [] r.op = "rollback" -> DecodeRollback(r.xid, r.sub)
           [] OTHER -> UNCHANGED segment
      /\ sender' = [sender EXCEPT !.pos = sender.pos + 1, !.streamed = streamed]
      /\ UNCHANGED <<wal, txns, persisted, published, effects, activation, up>>
  BY DEF Decode, loopVars, replayVars, streamVars
<1>2. sender.pos \in Positions /\ sender.start <= sender.pos /\ sender.start \in Nat
      /\ sender.pos \in Nat
  BY <1>1 DEF SessionInv, WalOK, SenderOK, SessionOK, Lsn, Positions, Baseline
<1>3. r \in WalRecord
  BY <1>2 DEF SessionInv, WalOK, Positions
<1>4. /\ DOMAIN streamed \subseteq Streamed
      /\ \A y \in DOMAIN streamed : streamed[y] = sender.streamed[y]
      /\ r.op \in {"commit", "abort"} => r.xid \notin DOMAIN streamed
      /\ r.op = "recovery" => DOMAIN streamed = {}
  BY DEF Without, Streamed
<1>5. /\ sender'.start = sender.start /\ sender'.pos = sender.pos + 1
      /\ sender'.sent = sender.sent /\ sender'.streamed = streamed
  <2>. HIDE DEF streamed
  <2>. QED BY <1>1 DEF SessionInv, SenderOK
<1>6. CASE r.op = "commit"
  <2>1. DecodeCommit(r.xid) /\ r.xid \in Xids
    BY <1>1, <1>3, <1>6 DEF WalRecord
  <2>2. \/ segment' = NoSegment /\ ~streaming /\ events = <<>>
        \/ /\ ~(~streaming /\ events = <<>>)
           /\ segment' = [xid |-> r.xid, start |-> start, events |-> events,
                          streaming |-> streaming,
                          end |-> [kind |-> "commit", lsn |-> sender.pos]]
    BY <1>1, <1>2, <2>1 DEF DecodeCommit, Send
  <2>. HIDE DEF r, streaming, events, start, streamed
  <2>3. \/ /\ segment' = NoSegment
           /\ r.op = "commit" => ~streaming /\ events = <<>>
        \/ /\ r.op = "commit" /\ r.xid \in Xids
           /\ ~(~streaming /\ events = <<>>)
           /\ segment' = [xid |-> r.xid, start |-> start, events |-> events,
                          streaming |-> streaming,
                          end |-> [kind |-> "commit", lsn |-> sender.pos]]
    BY <1>6, <2>1, <2>2
  <2>4. /\ DOMAIN sender'.streamed \subseteq Streamed
        /\ \A y \in DOMAIN sender'.streamed : sender'.streamed[y] = sender.streamed[y]
        /\ r.op \in {"commit", "abort"} => r.xid \notin DOMAIN sender'.streamed
        /\ r.op = "recovery" => DOMAIN sender'.streamed = {}
    BY <1>4, <1>5
  <2>. QED BY <1>1, <1>2, <1>3, <1>5, <2>3, <2>4 DEF r, streaming, events, start
<1>7. CASE r.op \in {"abort", "rollback"}
  <2>. HIDE DEF streamed
  <2>1. \/ segment' = segment
        \/ /\ r.xid \in Streamed
           /\ segment' = [xid |-> r.xid, start |-> sender.streamed[r.xid],
                          events |-> <<>>, streaming |-> TRUE, end |-> segment'.end]
           /\ segment'.end = IF r.op = "abort" THEN [kind |-> "abort", lsn |-> sender.pos]
                             ELSE [kind |-> "rollback", sub |-> r.sub]
    <3>1. CASE r.op = "abort"
      <4>1. DecodeAbort(r.xid)
        BY <1>1, <3>1
      <4>. QED BY <3>1, <4>1 DEF DecodeAbort, Send
    <3>2. CASE r.op = "rollback"
      <4>1. DecodeRollback(r.xid, r.sub)
        BY <1>1, <3>2
      <4>. QED BY <3>2, <4>1 DEF DecodeRollback, Send
    <3>. QED BY <1>7, <3>1, <3>2
  <2>4. /\ DOMAIN sender'.streamed \subseteq Streamed
        /\ \A y \in DOMAIN sender'.streamed : sender'.streamed[y] = sender.streamed[y]
        /\ r.op \in {"commit", "abort"} => r.xid \notin DOMAIN sender'.streamed
        /\ r.op = "recovery" => DOMAIN sender'.streamed = {}
    BY <1>4, <1>5
  <2>. QED BY <1>1, <1>2, <1>3, <1>5, <1>7, <2>1, <2>4
<1>8. CASE r.op \notin {"commit", "abort", "rollback"}
  <2>. HIDE DEF streamed
  <2>1. segment' = NoSegment
    BY <1>1, <1>8
  <2>4. /\ DOMAIN sender'.streamed \subseteq Streamed
        /\ \A y \in DOMAIN sender'.streamed : sender'.streamed[y] = sender.streamed[y]
        /\ r.op \in {"commit", "abort"} => r.xid \notin DOMAIN sender'.streamed
        /\ r.op = "recovery" => DOMAIN sender'.streamed = {}
    BY <1>4, <1>5
  <2>. QED BY <1>1, <1>2, <1>3, <1>5, <1>8, <2>1, <2>4
<1>. QED BY <1>6, <1>7, <1>8

\* The rows of a queue are changes of its transaction.
LEMMA QueuedRows ==
    ASSUME WalOK, NEW x \in Xids, NEW after \in Nat, NEW before \in Nat,
           1 <= before, before <= Len(wal) + 1, NEW streamed \in BOOLEAN
    PROVE  \A k \in 1 .. Len(Queued(x, after, before, streamed)) :
             IsRow(Queued(x, after, before, streamed)[k].lsn, x,
                   Queued(x, after, before, streamed)[k].source)
<1>. DEFINE q == Queued(x, after, before, streamed)
<1>1. \A k \in 1 .. Len(q) : q[k].lsn \in Changes(x) /\ q[k].source = wal[q[k].lsn].source
  BY QueuedFacts, ZenonT(30)
<1>. HIDE DEF q
<1>2. \A k \in 1 .. Len(q) : IsRow(q[k].lsn, x, q[k].source)
  BY <1>1 DEF IsRow, Changes, IsChange
<1>. QED BY <1>2 DEF q
-----------------------------------------------------------------------------
\* The rows on their way.

\* A log that grows keeps the rows of a segment.
LEMMA SegmentRowsKept ==
    ASSUME SessionInv, SegmentRows, wal' = wal \/ \E r \in WalRecord : wal' = Append(wal, r),
           segment' \in {segment, NoSegment}
    PROVE  SegmentRows'
<1>1. Positions \subseteq Positions' /\ \A i \in Positions : wal'[i] = wal[i]
  BY RecordsStay DEF SessionInv
<1>. QED BY <1>1 DEF SegmentRows, IsRow, IsCommit

\* A streamed segment carries rows of its transaction.
LEMMA SegmentRowsStream ==
    ASSUME SessionInv, NEW x \in Xids, StreamSegment(x)
    PROVE  SegmentRows'
<1>. DEFINE events == Queued(x, sender.sent[x], sender.pos, TRUE)
<1>0. PICK start : segment' = [xid |-> x, start |-> start, events |-> events,
                               streaming |-> TRUE, end |-> NoBoundary]
  BY StreamFacts, Zenon
<1>1. /\ segment'.xid = x /\ segment'.events = events /\ segment'.end = NoBoundary
      /\ UNCHANGED wal
      /\ sender.pos \in Nat /\ sender.sent[x] \in Nat
      /\ 1 <= sender.pos /\ sender.pos <= Len(wal) + 1
  <2>1. /\ UNCHANGED wal /\ sender.pos \in Nat /\ sender.sent[x] \in Nat
        /\ 1 <= sender.pos /\ sender.pos <= Len(wal) + 1
    BY StreamFacts, Zenon
  <2>. HIDE DEF events
  <2>. QED BY <1>0, <2>1
<1>2. \A k \in 1 .. Len(events) : IsRow(events[k].lsn, x, events[k].source)
  BY <1>1, QueuedRows DEF SessionInv
<1>. HIDE DEF events
<1>3. Positions' = Positions
  BY <1>1 DEF Positions
<1>. QED BY <1>1, <1>2, <1>3 DEF SegmentRows, IsRow, NoBoundary

\* A decoded commit carries rows of the transaction that it ends.
LEMMA SegmentRowsDecode ==
    ASSUME SessionInv, Decode
    PROVE  SegmentRows'
<1>. DEFINE r == wal[sender.pos]
            streaming == r.xid \in Streamed
            events == Queued(r.xid, sender.sent[r.xid], sender.pos, streaming)
<1>1. /\ sender.pos \in Positions /\ r \in WalRecord /\ UNCHANGED wal
      /\ \/ segment' = NoSegment
         \/ /\ r.op = "commit" /\ r.xid \in Xids
            /\ segment'.xid = r.xid /\ segment'.events = events
            /\ segment'.end = [kind |-> "commit", lsn |-> sender.pos]
         \/ /\ r.op \in {"abort", "rollback"} /\ segment'.events = <<>>
            /\ segment'.end.kind # "commit"
  BY DecodeFacts
<1>2. Positions' = Positions
  BY <1>1 DEF Positions
<1>3. CASE r.op = "commit" /\ segment' # NoSegment
  <2>1. /\ sender.sent[r.xid] \in Nat /\ streaming \in BOOLEAN /\ sender.pos \in Nat
        /\ 1 <= sender.pos /\ sender.pos <= Len(wal) + 1
    BY <1>1, <1>3 DEF SessionInv, SenderOK, WalOK, Positions
  <2>2. \A k \in 1 .. Len(events) : IsRow(events[k].lsn, r.xid, events[k].source)
    <3>. HIDE DEF streaming
    <3>. QED BY <1>1, <1>3, <2>1, QueuedRows DEF SessionInv
  <2>3. r = [op |-> "commit", xid |-> r.xid]
    BY <1>1, <1>3 DEF WalRecord
  <2>4. /\ segment'.xid = r.xid /\ segment'.events = events
        /\ segment'.end = [kind |-> "commit", lsn |-> sender.pos]
    BY <1>1, <1>3
  <2>5. IsCommit(segment.end.lsn, segment.xid)'
    BY <1>1, <1>2, <2>3, <2>4 DEF IsCommit
  <2>. HIDE DEF r, events
  <2>6. \A k \in 1 .. Len(segment'.events) :
          IsRow(segment.events[k].lsn, segment.xid, segment.events[k].source)'
    BY <1>1, <1>2, <2>2, <2>4 DEF IsRow
  <2>. QED BY <2>5, <2>6 DEF SegmentRows
<1>4. CASE r.op # "commit" /\ segment' # NoSegment
  BY <1>1, <1>4 DEF SegmentRows
<1>5. CASE segment' = NoSegment
  BY <1>5 DEF SegmentRows
<1>. QED BY <1>3, <1>4, <1>5

\* The rest of a segment carries rows of the same transaction.
LEMMA SegmentRowsIngest ==
    ASSUME SessionInv, SegmentRows, IngressAssumption, IngestBatch
    PROVE  SegmentRows'
<1>1. segment \in Segment /\ segment # NoSegment /\ segment' = RestOfSegment /\ wal' = wal
  BY DEF IngestBatch, SessionInv, SegmentOK
<1>2. Positions' = Positions
  BY <1>1 DEF Positions
<1>3. CASE segment' = NoSegment
  BY <1>3 DEF SegmentRows
<1>4. CASE segment' # NoSegment
  <2>1. /\ segment'.xid = segment.xid /\ segment'.end = segment.end
        /\ Len(segment'.events) = Len(segment.events) - TakenRows
        /\ \A k \in 1 .. Len(segment'.events) :
             segment'.events[k] = segment.events[TakenRows + k]
    BY <1>1, <1>4, RestFacts
  <2>2. TakenRows \in Nat /\ TakenRows <= Len(segment.events) /\ Len(segment.events) \in Nat
    BY <1>1, BatchFacts DEF Segment
  <2>3. \A k \in 1 .. Len(segment'.events) : TakenRows + k \in 1 .. Len(segment.events)
    BY <2>1, <2>2
  <2>. QED BY <1>1, <1>2, <2>1, <2>3 DEF SegmentRows, IsRow, IsCommit
<1>. QED BY <1>3, <1>4

\* Every step keeps the rows of the segment in transit.
LEMMA SegmentRowsStep ==
    ASSUME IngressAssumption, SessionInv, SegmentRows, [Next]_vars
    PROVE  SegmentRows'
<1>0. wal' = wal \/ \E r \in WalRecord : wal' = Append(wal, r)
  BY WalStep
<1>1. ASSUME segment' \in {segment, NoSegment} PROVE SegmentRows'
  BY <1>0, <1>1, SegmentRowsKept
<1>2. CASE Source
  BY <1>1, <1>2 DEF Source, WriteChange, WriteRollback, WriteEnd, WriteRecord, RegisterSource,
                    DropSource, DrainStream, senderVars
<1>3. CASE SlotConfirms \/ PublishSource \/ AdvanceFrontier \/ IngestRefused \/ IngestNothing
           \/ SendStatus \/ RecordFeedback \/ CollectGarbage \/ StartRuntime \/ Fault
  BY <1>1, <1>3 DEF SlotConfirms, PublishSource, AdvanceFrontier, IngestRefused, IngestNothing,
                    SendStatus, RecordFeedback, CollectGarbage, StartRuntime, Fault,
                    RuntimeCrash, PostmasterRestart, RuntimeEnds, senderVars
<1>4. CASE UNCHANGED vars
  BY <1>1, <1>4 DEF vars
<1>. QED BY <1>2, <1>3, <1>4, SegmentRowsStream, SegmentRowsDecode, SegmentRowsIngest
         DEF Next, Walsender, Runtime
-----------------------------------------------------------------------------
\* The rows that are staged.

\* Headers that keep their log, their commit, or only leave.
LEMMA HeaderRowsKept ==
    ASSUME SessionInv, HeaderRows, wal' = wal \/ \E r \in WalRecord : wal' = Append(wal, r),
           \A id \in DOMAIN txns' :
              /\ id \in DOMAIN txns /\ txns'[id].log = txns[id].log
              /\ txns'[id].status = "committed" =>
                   txns[id].status = "committed" /\ txns'[id].final = txns[id].final
    PROVE  HeaderRows'
<1>1. Positions \subseteq Positions' /\ \A i \in Positions : wal'[i] = wal[i]
  BY RecordsStay DEF SessionInv
<1>2. SUFFICES ASSUME NEW id \in DOMAIN txns'
               PROVE  /\ \A k \in 1 .. Len(txns'[id].log) :
                           IsRow(txns[id].log[k].lsn, id.xid, txns[id].log[k].source)'
                      /\ txns'[id].status = "committed" => IsCommit(txns[id].final, id.xid)'
  BY DEF HeaderRows
<1>3. /\ id \in DOMAIN txns /\ txns'[id].log = txns[id].log
      /\ txns'[id].status = "committed" =>
           txns[id].status = "committed" /\ txns'[id].final = txns[id].final
  OBVIOUS
<1>4. /\ \A k \in 1 .. Len(txns[id].log) :
           IsRow(txns[id].log[k].lsn, id.xid, txns[id].log[k].source)
      /\ txns[id].status = "committed" => IsCommit(txns[id].final, id.xid)
  BY <1>3 DEF HeaderRows
<1>. QED BY <1>1, <1>3, <1>4 DEF IsRow, IsCommit

\* A batch adds rows of its own transaction, and its commit seals the header.
LEMMA HeaderRowsIngest ==
    ASSUME SessionInv, TxnsInv, SegmentRows, HeaderRows, IngressAssumption, IngestBatch
    PROVE  HeaderRows'
<1>. DEFINE b == NextBatch
            h == ClaimedHeader(b)
            a == Admitted(h, b)
            f == Finalized(a, b)
            n == Len(wal)
            id == HeaderId(b)
            c == Cardinality(Fresh(h, b))
<1>1. /\ segment \in Segment /\ b.events \in Seq(EventAt(n))
      /\ HeaderOK(h, n) /\ HeaderOK(a, n)
      /\ Fresh(h, b) = {} \/ h.status = "open"
      /\ a.status = h.status /\ f.log = a.log
      /\ txns' = PutHeader(id, f)
      /\ \/ b.end = NoBoundary
         \/ b.end \in [kind : {"commit", "abort"}, lsn : 1 .. n]
         \/ b.end \in [kind : {"rollback"}, sub : Subs]
  BY IngestFacts DEF TxnsInv
<1>2. /\ n \in Nat /\ wal' = wal /\ segment # NoSegment /\ Positions' = Positions
  BY DEF IngestBatch, SessionInv, WalOK, Positions
<1>3. /\ id.xid = segment.xid /\ Len(b.events) \in Nat
      /\ \A k \in 1 .. Len(b.events) : IsRow(b.events[k].lsn, id.xid, b.events[k].source)
      /\ b.end.kind = "commit" => IsCommit(b.end.lsn, id.xid)
  <2>1. /\ b.xid = segment.xid /\ Len(b.events) = TakenRows /\ TakenRows \in Nat
        /\ TakenRows <= Len(segment.events) /\ Len(segment.events) \in Nat
        /\ \A k \in 1 .. TakenRows : b.events[k] = segment.events[k]
        /\ b.end = IF ReachesEnd THEN segment.end ELSE NoBoundary
    BY <1>1, BatchFacts DEF Segment
  <2>2. id.xid = segment.xid
    BY <2>1 DEF HeaderId
  <2>3. b.end.kind = "commit" => b.end = segment.end
    BY <2>1 DEF NoBoundary
  <2>. HIDE DEF b, id
  <2>4. \A k \in 1 .. Len(b.events) : k \in 1 .. Len(segment.events)
    BY <2>1
  <2>. QED BY <1>2, <2>1, <2>2, <2>3, <2>4 DEF SegmentRows
<1>4. /\ \A k \in 1 .. Len(h.log) : IsRow(h.log[k].lsn, id.xid, h.log[k].source)
      /\ h.status = "committed" => IsCommit(h.final, id.xid)
  BY DEF ClaimedHeader, HeaderRows, NewHeader
<1>5. /\ c \in Nat /\ c <= Len(b.events) /\ Len(h.log) \in Nat
  <2>1. Len(h.log) \in Nat
    BY <1>1 DEF HeaderOK, Header
  <2>. QED BY <1>1, <2>1, FreshFacts
<1>6. /\ Len(a.log) = Len(h.log) + c /\ a.final = h.final
      /\ \A k \in 1 .. Len(h.log) : a.log[k] = h.log[k]
      /\ \A k \in 1 .. c : a.log[Len(h.log) + k] = b.events[Len(b.events) - c + k]
  BY <1>1, <1>2, AdmittedFacts
<1>7. f.status = "committed" =>
        \/ b.end.kind = "commit" /\ f.final = b.end.lsn
        \/ h.status = "committed" /\ f.final = h.final
  <2>. HIDE DEF a, b, h
  <2>. QED BY <1>1, <1>2, <1>6, FinalizedFacts
<1>. HIDE DEF b, h, a, f, id, n, c
<1>8. \A k \in 1 .. Len(f.log) : IsRow(f.log[k].lsn, id.xid, f.log[k].source)
  <2>1. SUFFICES ASSUME NEW k \in 1 .. Len(a.log)
                 PROVE  IsRow(a.log[k].lsn, id.xid, a.log[k].source)
    BY <1>1
  <2>2. CASE k <= Len(h.log)
    <3>1. k \in 1 .. Len(h.log)
      BY <1>5, <1>6, <2>1, <2>2
    <3>. QED BY <1>4, <1>6, <3>1
  <2>3. CASE ~(k <= Len(h.log))
    <3>. DEFINE j == k - Len(h.log)
    <3>1. /\ j \in 1 .. c /\ k = Len(h.log) + j
          /\ Len(b.events) - c + j \in 1 .. Len(b.events)
      <4>1. /\ Len(b.events) \in Nat /\ c \in Nat /\ c <= Len(b.events) /\ Len(h.log) \in Nat
            /\ k \in 1 .. Len(h.log) + c
        BY <1>3, <1>5, <1>6, <2>1
      <4>2. j \in 1 .. c /\ k = Len(h.log) + j
        BY <2>3, <4>1
      <4>3. Len(b.events) - c + j \in 1 .. Len(b.events)
        <5>. DEFINE e == Len(b.events)
        <5>1. e \in Nat /\ c <= e
          BY <4>1
        <5>. HIDE DEF e, j
        <5>2. e - c + j \in 1 .. e
          BY <4>1, <4>2, <5>1
        <5>. QED BY <5>2 DEF e
      <4>. QED BY <4>2, <4>3
    <3>. HIDE DEF j
    <3>2. a.log[k] = b.events[Len(b.events) - c + j]
      BY <1>6, <3>1
    <3>. QED BY <1>3, <3>1, <3>2
  <2>. QED BY <2>2, <2>3
<1>9. f.status = "committed" => IsCommit(f.final, id.xid)
  BY <1>3, <1>4, <1>7
<1>10. /\ DOMAIN txns' = DOMAIN txns \cup {id} /\ txns'[id] = f
       /\ \A i \in DOMAIN txns \ {id} : txns'[i] = txns[i]
  BY <1>1 DEF PutHeader
<1>11. ASSUME NEW i \in DOMAIN txns'
       PROVE  /\ \A k \in 1 .. Len(txns'[i].log) :
                   IsRow(txns'[i].log[k].lsn, i.xid, txns'[i].log[k].source)
              /\ txns'[i].status = "committed" => IsCommit(txns'[i].final, i.xid)
  <2>1. CASE i = id
    BY <1>8, <1>9, <1>10, <2>1
  <2>2. CASE i # id
    BY <1>10, <2>2 DEF HeaderRows
  <2>. QED BY <2>1, <2>2
<1>12. SUFFICES ASSUME NEW i \in DOMAIN txns'
                PROVE  /\ \A k \in 1 .. Len(txns'[i].log) :
                            IsRow(txns[i].log[k].lsn, i.xid, txns[i].log[k].source)'
                       /\ txns'[i].status = "committed" => IsCommit(txns[i].final, i.xid)'
  BY DEF HeaderRows
<1>. QED BY <1>2, <1>11 DEF IsRow, IsCommit

\* Publication moves a cursor; what is staged stays as it is.
LEMMA PublishHeaders ==
    ASSUME SessionInv, TxnsOK, IngressAssumption, PublishSource
    PROVE  /\ DOMAIN txns' = DOMAIN txns
           /\ \A id \in DOMAIN txns :
                /\ txns'[id].log = txns[id].log /\ txns'[id].status = txns[id].status
                /\ txns'[id].final = txns[id].final /\ txns'[id].end = txns[id].end
                /\ txns'[id].aborted = txns[id].aborted
<1>1. CASE UNCHANGED <<txns, effects>>
  BY <1>1
<1>2. ASSUME NEW w \in Candidates, NEW next \in Nat, next <= w.task.last,
             txns' = PutHeader(w.id, CursorAt(txns[w.id], w.task, next))
      PROVE  /\ DOMAIN txns' = DOMAIN txns
             /\ \A id \in DOMAIN txns :
                  /\ txns'[id].log = txns[id].log /\ txns'[id].status = txns[id].status
                  /\ txns'[id].final = txns[id].final /\ txns'[id].end = txns[id].end
                  /\ txns'[id].aborted = txns[id].aborted
  <2>. DEFINE h == txns[w.id]
              a == CursorAt(h, w.task, next)
  <2>1. /\ w.id \in DOMAIN txns /\ HeaderOK(h, Len(wal)) /\ h.status = "committed"
        /\ w.task \in h.tasks /\ w.task.next # 0 /\ Len(wal) \in Nat
    BY CandidateFacts DEF SessionInv, WalOK
  <2>2. txns' = PutHeader(w.id, a)
    BY <1>2
  <2>. HIDE DEF h
  <2>3. /\ a.log = h.log /\ a.status = h.status /\ a.final = h.final /\ a.end = h.end
        /\ a.aborted = h.aborted
    BY <1>2, <2>1, AdvancedFacts
  <2>. HIDE DEF a
  <2>. QED BY <2>1, <2>2, <2>3 DEF PutHeader, h
<1>. QED BY <1>1, <1>2, PublishFacts

\* Every step keeps the rows of the change logs.
LEMMA HeaderRowsStep ==
    ASSUME IngressAssumption, SessionInv, TxnsInv, SegmentRows, HeaderRows, [Next]_vars
    PROVE  HeaderRows'
<1>0. wal' = wal \/ \E r \in WalRecord : wal' = Append(wal, r)
  BY WalStep
<1>1. ASSUME txns' = txns PROVE HeaderRows'
  BY <1>0, <1>1, HeaderRowsKept
<1>2. CASE Source
  BY <1>1, <1>2, SourceRecords
<1>3. CASE Walsender
  BY <1>1, <1>3 DEF Walsender, Decode, SlotConfirms, StreamSegment
<1>4. CASE AdvanceFrontier \/ IngestRefused \/ IngestNothing
           \/ SendStatus \/ RecordFeedback \/ Fault
  BY <1>1, <1>4 DEF AdvanceFrontier, IngestRefused, IngestNothing, SendStatus, RecordFeedback,
                    Fault, RuntimeCrash, PostmasterRestart
<1>5. CASE PublishSource
  <2>1. TxnsOK
    BY DEF TxnsInv
  <2>. QED BY <1>0, <1>5, <2>1, PublishHeaders, HeaderRowsKept
<1>6. CASE CollectGarbage
  <2>1. \A id \in DOMAIN txns' : id \in DOMAIN txns /\ txns'[id] = txns[id]
    BY <1>6 DEF CollectGarbage
  <2>. QED BY <1>0, <2>1, HeaderRowsKept
<1>7. CASE StartRuntime
  <2>1. \A id \in DOMAIN txns' :
          /\ id \in DOMAIN txns /\ txns'[id].log = txns[id].log
          /\ txns'[id].status = "committed" =>
               txns[id].status = "committed" /\ txns'[id].final = txns[id].final
    <3>1. CASE ~staleEpoch
      BY <1>7, <3>1 DEF StartRuntime
    <3>2. CASE staleEpoch
      <4>1. SUFFICES ASSUME NEW id \in DOMAIN txns
                     PROVE  /\ txns'[id].log = txns[id].log
                            /\ txns'[id].status = "committed" =>
                                 txns[id].status = "committed" /\ txns'[id].final = txns[id].final
        BY <1>7, <3>2 DEF StartRuntime, ReconciledHeaders
      <4>. DEFINE h == txns[id]
      <4>2. txns'[id] = IF h.status = "open"
                        THEN [h EXCEPT !.status = "aborted", !.final = id.start,
                                       !.end = id.start, !.pending = 0]
                        ELSE h
        BY <1>7, <3>2, <4>1 DEF StartRuntime, ReconciledHeaders
      <4>3. h \in Header(Len(wal))
        BY DEF TxnsInv, TxnsOK, HeaderOK
      <4>. HIDE DEF h
      <4>4. h.status = "open" => txns'[id].status = "aborted" /\ txns'[id].log = h.log
        BY <4>2, <4>3 DEF Header
      <4>. QED BY <4>2, <4>4 DEF h
    <3>. QED BY <3>1, <3>2
  <2>. QED BY <1>0, <2>1, HeaderRowsKept
<1>8. CASE UNCHANGED vars
  BY <1>1, <1>8 DEF vars
<1>. QED BY <1>2, <1>3, <1>4, <1>5, <1>6, <1>7, <1>8, HeaderRowsIngest DEF Next, Runtime
-----------------------------------------------------------------------------
\* The rows of the source streams.

\* A chunk is a prefix of the live rows of its task.
LEMMA ChunkFacts ==
    ASSUME SessionInv, TxnsOK, IngressAssumption, NEW w \in Candidates
    PROVE  /\ ChunkOf(w) \in Seq(Nat) /\ Len(ChunkOf(w)) <= Len(LiveRows(w))
           /\ Len(ChunkOf(w)) \in Nat
           /\ \A k \in 1 .. Len(ChunkOf(w)) : ChunkOf(w)[k] = LiveRows(w)[k]
           /\ Len(LiveRows(w)) <= ChunkRows => Len(ChunkOf(w)) = Len(LiveRows(w))
           /\ Len(LiveRows(w)) > ChunkRows => Len(ChunkOf(w)) = ChunkRows
<1>. DEFINE rows == LiveRows(w)
<1>1. rows \in Seq(Nat) /\ Len(rows) \in Nat
  BY LiveRowsFacts
<1>2. ChunkRows \in Nat \ {0}
  BY DEF IngressAssumption
<1>3. ChunkOf(w) = IF Len(rows) <= ChunkRows THEN rows ELSE SubSeq(rows, 1, ChunkRows)
  BY DEF ChunkOf
<1>. HIDE DEF rows
<1>4. CASE Len(rows) <= ChunkRows
  BY <1>1, <1>2, <1>3, <1>4 DEF rows
<1>5. CASE ~(Len(rows) <= ChunkRows)
  <2>1. /\ SubSeq(rows, 1, ChunkRows) \in Seq(Nat)
        /\ Len(SubSeq(rows, 1, ChunkRows)) = ChunkRows
        /\ \A k \in 1 .. ChunkRows : SubSeq(rows, 1, ChunkRows)[k] = rows[k]
    BY <1>1, <1>2, <1>5
  <2>. QED BY <1>1, <1>2, <1>3, <1>5, <2>1 DEF rows
<1>. QED BY <1>4, <1>5

\* A log that grows, and a stream emptied, keep the rows of the streams.
LEMMA EffectRowsKept ==
    ASSUME SessionInv, EffectRows, wal' = wal \/ \E r \in WalRecord : wal' = Append(wal, r),
           effects' \in [Sources -> Seq(Effect)],
           \A s \in Sources :
              effects'[s] = <<>> \/ (effects'[s] = effects[s] /\ activation'[s] = activation[s])
    PROVE  EffectRows'
<1>1. Positions \subseteq Positions' /\ \A i \in Positions : wal'[i] = wal[i]
  BY RecordsStay DEF SessionInv
<1>2. SUFFICES ASSUME NEW s \in Sources, NEW k \in 1 .. Len(effects'[s])
               PROVE  /\ IsRow(effects[s][k].lsn, effects[s][k].xid, s)'
                      /\ IsCommit(effects[s][k].commit, effects[s][k].xid)'
                      /\ Wants(s, effects[s][k].commit)'
  BY DEF EffectRows
<1>3. effects'[s] = effects[s] /\ activation'[s] = activation[s]
  <2>1. effects'[s] # <<>>
    BY <1>2
  <2>. QED BY <2>1
<1>4. /\ IsRow(effects[s][k].lsn, effects[s][k].xid, s)
      /\ IsCommit(effects[s][k].commit, effects[s][k].xid)
      /\ Wants(s, effects[s][k].commit)
  BY <1>2, <1>3 DEF EffectRows
<1>. QED BY <1>1, <1>3, <1>4 DEF IsRow, IsCommit, Wants

\* A chunk appends rows of a committed header that its Scan waits for.
LEMMA EffectRowsPublish ==
    ASSUME SessionInv, TxnsInv, HeaderRows, EffectRows, IngressAssumption, PublishSource
    PROVE  EffectRows'
<1>0. UNCHANGED <<wal, activation>> /\ Positions' = Positions /\ TxnsOK /\ Len(wal) \in Nat
  BY DEF PublishSource, TxnsInv, Positions, SessionInv, WalOK
<1>1. CASE effects' = effects
  BY <1>0, <1>1, EffectRowsKept DEF EffectRows
<1>2. ASSUME NEW w \in Candidates, Wants(w.task.source, txns[w.id].final),
             effects' = [effects EXCEPT ![w.task.source] = effects[w.task.source] \o
                           [k \in DOMAIN ChunkOf(w) |->
                              [xid |-> w.id.xid, lsn |-> txns[w.id].log[ChunkOf(w)[k]].lsn,
                               commit |-> txns[w.id].final]]]
      PROVE  EffectRows'
  <2>. DEFINE h == txns[w.id]
              s == w.task.source
              chunk == ChunkOf(w)
              row(i) == [xid |-> w.id.xid, lsn |-> h.log[i].lsn, commit |-> h.final]
              rows == [k \in DOMAIN chunk |-> row(chunk[k])]
  <2>1. /\ w.id \in DOMAIN txns /\ w.id \in Id(Len(wal)) /\ HeaderOK(h, Len(wal))
        /\ h.status = "committed" /\ s \in Sources /\ w.id.xid \in Xids /\ h.final \in Nat
    <3>1. /\ w.id \in DOMAIN txns /\ w.id \in Id(Len(wal)) /\ HeaderOK(h, Len(wal))
          /\ h.status = "committed" /\ w.task \in Task
      BY <1>0, CandidateFacts
    <3>. QED BY <1>0, <3>1, SMTT(30) DEF Id, Task, HeaderOK, Header
  <2>2. /\ chunk \in Seq(Nat) /\ Len(chunk) \in Nat /\ DOMAIN chunk = 1 .. Len(chunk)
        /\ \A k \in 1 .. Len(chunk) :
             chunk[k] \in 1 .. Len(h.log) /\ h.log[chunk[k]].source = s
    <3>1. /\ chunk \in Seq(Nat) /\ Len(chunk) \in Nat /\ Len(chunk) <= Len(LiveRows(w))
          /\ \A k \in 1 .. Len(chunk) : chunk[k] = LiveRows(w)[k]
      BY <1>0, ChunkFacts
    <3>2. /\ LiveRows(w) \in Seq(Nat)
          /\ \A k \in 1 .. Len(LiveRows(w)) : /\ LiveRows(w)[k] \in 1 .. Len(h.log)
                                              /\ h.log[LiveRows(w)[k]].source = s
      BY <1>0, LiveRowsFacts
    <3>. HIDE DEF chunk, h, s
    <3>. QED BY <3>1, <3>2, SMTT(30)
  <2>3. /\ \A i \in 1 .. Len(h.log) : IsRow(h.log[i].lsn, w.id.xid, h.log[i].source)
        /\ IsCommit(h.final, w.id.xid)
    BY <2>1 DEF HeaderRows
  <2>4. effects' = [effects EXCEPT ![s] = effects[s] \o rows]
    BY <1>2
  <2>5. Wants(s, h.final)
    BY <1>2
  <2>. HIDE DEF h, s, chunk
  <2>6. \A k \in 1 .. Len(chunk) :
          /\ row(chunk[k]) \in Effect
          /\ IsRow(row(chunk[k]).lsn, row(chunk[k]).xid, s)
          /\ IsCommit(row(chunk[k]).commit, row(chunk[k]).xid)
          /\ Wants(s, row(chunk[k]).commit)
    <3>1. SUFFICES ASSUME NEW k \in 1 .. Len(chunk)
                   PROVE  /\ row(chunk[k]) \in Effect
                          /\ IsRow(row(chunk[k]).lsn, row(chunk[k]).xid, s)
                          /\ IsCommit(row(chunk[k]).commit, row(chunk[k]).xid)
                          /\ Wants(s, row(chunk[k]).commit)
      OBVIOUS
    <3>2. PICK i \in 1 .. Len(h.log) : i = chunk[k] /\ h.log[i].source = s
      BY <2>2, <3>1
    <3>3. IsRow(h.log[i].lsn, w.id.xid, s) /\ h.log[i].lsn \in Nat
      BY <1>0, <2>3, <3>2 DEF IsRow, Positions
    <3>4. row(i) \in Effect
      BY <2>1, <3>3 DEF Effect
    <3>5. /\ row(i).lsn = h.log[i].lsn /\ row(i).xid = w.id.xid /\ row(i).commit = h.final
      OBVIOUS
    <3>. HIDE DEF row
    <3>. QED BY <2>3, <2>5, <3>2, <3>3, <3>4, <3>5
  <2>7. rows \in Seq(Effect) /\ Len(rows) = Len(chunk)
        /\ \A k \in 1 .. Len(rows) : rows[k] = row(chunk[k])
    <3>. HIDE DEF row
    <3>. QED BY <2>2, <2>6
  <2>. HIDE DEF rows, row
  <2>8. /\ effects[s] \in Seq(Effect) /\ effects[s] \o rows \in Seq(Effect)
        /\ Len(effects[s] \o rows) = Len(effects[s]) + Len(rows)
        /\ \A k \in 1 .. Len(effects[s]) + Len(rows) :
             (effects[s] \o rows)[k] = IF k <= Len(effects[s]) THEN effects[s][k]
                                       ELSE rows[k - Len(effects[s])]
    <3>1. effects[s] \in Seq(Effect)
      BY <2>1 DEF EffectRows
    <3>. DEFINE old == effects[s]
    <3>2. old \in Seq(Effect)
      BY <3>1
    <3>. HIDE DEF old
    <3>3. /\ old \o rows \in Seq(Effect) /\ Len(old \o rows) = Len(old) + Len(rows)
          /\ \A k \in 1 .. Len(old) + Len(rows) :
               (old \o rows)[k] = IF k <= Len(old) THEN old[k] ELSE rows[k - Len(old)]
      BY <2>7, <3>2, ConcatProperties
    <3>. QED BY <3>2, <3>3 DEF old
  <2>9. effects' \in [Sources -> Seq(Effect)]
    BY <2>1, <2>4, <2>8 DEF EffectRows
  <2>10. SUFFICES ASSUME NEW q \in Sources, NEW k \in 1 .. Len(effects'[q])
                  PROVE  /\ IsRow(effects'[q][k].lsn, effects'[q][k].xid, q)
                         /\ IsCommit(effects'[q][k].commit, effects'[q][k].xid)
                         /\ Wants(q, effects'[q][k].commit)
    <3>1. \A q \in Sources : \A k \in 1 .. Len(effects'[q]) :
            /\ IsRow(effects[q][k].lsn, effects[q][k].xid, q)'
            /\ IsCommit(effects[q][k].commit, effects[q][k].xid)'
            /\ Wants(q, effects[q][k].commit)'
      <4>1. SUFFICES ASSUME NEW q \in Sources, NEW k \in 1 .. Len(effects'[q])
                     PROVE  /\ IsRow(effects[q][k].lsn, effects[q][k].xid, q)'
                            /\ IsCommit(effects[q][k].commit, effects[q][k].xid)'
                            /\ Wants(q, effects[q][k].commit)'
        OBVIOUS
      <4>2. /\ IsRow(effects'[q][k].lsn, effects'[q][k].xid, q)
            /\ IsCommit(effects'[q][k].commit, effects'[q][k].xid)
            /\ Wants(q, effects'[q][k].commit)
        BY <2>10, Zenon
      <4>. QED BY <1>0, <4>2 DEF IsRow, IsCommit, Wants
    <3>. QED BY <2>9, <3>1 DEF EffectRows
  <2>11. CASE q # s
    <3>1. effects'[q] = effects[q]
      BY <2>4, <2>11 DEF EffectRows
    <3>. QED BY <2>10, <3>1 DEF EffectRows
  <2>12. CASE q = s
    <3>1. effects'[q] = effects[s] \o rows
      BY <2>1, <2>4, <2>12 DEF EffectRows
    <3>2. Len(effects[s]) \in Nat /\ Len(rows) \in Nat
      BY <2>7, <2>8
    <3>3. CASE k <= Len(effects[s])
      <4>1. k \in 1 .. Len(effects[s]) /\ effects'[q][k] = effects[s][k]
        BY <2>8, <2>10, <3>1, <3>2, <3>3
      <4>. QED BY <2>1, <2>12, <4>1 DEF EffectRows
    <3>4. CASE ~(k <= Len(effects[s]))
      <4>1. /\ k - Len(effects[s]) \in 1 .. Len(rows)
            /\ effects'[q][k] = rows[k - Len(effects[s])]
        BY <2>8, <2>10, <3>1, <3>2, <3>4
      <4>. QED BY <2>6, <2>7, <2>12, <4>1
    <3>. QED BY <3>3, <3>4
  <2>. QED BY <2>11, <2>12
<1>. QED BY <1>0, <1>1, <1>2, PublishFacts

\* Every step keeps the rows of the effect streams.
LEMMA EffectRowsStep ==
    ASSUME IngressAssumption, SessionInv, TxnsInv, HeaderRows, EffectRows, [Next]_vars
    PROVE  EffectRows'
<1>0. wal' = wal \/ \E r \in WalRecord : wal' = Append(wal, r)
  BY WalStep
<1>1. ASSUME UNCHANGED <<effects, activation>> PROVE EffectRows'
  BY <1>0, <1>1, EffectRowsKept DEF EffectRows
<1>2. ASSUME NEW x \in Xids, NEW s \in Sources, NEW sub, WriteChange(x, sub, s)
      PROVE  EffectRows'
  BY <1>1, <1>2 DEF WriteChange, WriteRecord, streamVars
<1>3. ASSUME NEW x \in Xids, NEW sub, WriteRollback(x, sub) \/ WriteEnd(x, sub)
      PROVE  EffectRows'
  BY <1>1, <1>3 DEF WriteRollback, WriteEnd, WriteRecord, streamVars
<1>4. ASSUME NEW s \in Sources, RegisterSource(s) PROVE EffectRows'
  <2>1. effects[s] = <<>>
    <3>1. effects[s] \in Seq(Effect) /\ activation[s] = 0
      BY <1>4 DEF EffectRows, RegisterSource
    <3>2. \A k \in 1 .. Len(effects[s]) : FALSE
      BY <3>1 DEF EffectRows, Wants
    <3>. QED BY <3>1, <3>2
  <2>2. effects' = effects /\ activation' = [activation EXCEPT ![s] = Len(wal) + 1]
    BY <1>4 DEF RegisterSource
  <2>3. \A q \in Sources : q # s => activation'[q] = activation[q]
    BY <2>2 DEF SessionInv, ScalarsOK
  <2>. QED BY <1>0, <2>1, <2>2, <2>3, EffectRowsKept DEF EffectRows
<1>5. ASSUME NEW s \in Sources, DropSource(s) PROVE EffectRows'
  <2>1. /\ effects' = [effects EXCEPT ![s] = <<>>]
        /\ activation' = [activation EXCEPT ![s] = 0]
    BY <1>5 DEF DropSource
  <2>2. /\ \A q \in Sources : q # s => activation'[q] = activation[q] /\ effects'[q] = effects[q]
        /\ effects'[s] = <<>> /\ effects' \in [Sources -> Seq(Effect)]
    <3>1. <<>> \in Seq(Effect)
      OBVIOUS
    <3>. QED BY <2>1, <3>1 DEF SessionInv, ScalarsOK, EffectRows
  <2>. QED BY <1>0, <2>2, EffectRowsKept
<1>6. ASSUME NEW s \in Sources, DrainStream(s) PROVE EffectRows'
  BY <1>1, <1>6 DEF DrainStream
<1>7. CASE Walsender
  BY <1>1, <1>7 DEF Walsender, Decode, SlotConfirms, StreamSegment, streamVars
<1>8. CASE AdvanceFrontier \/ IngestBatch \/ IngestRefused \/ IngestNothing \/ SendStatus
           \/ RecordFeedback \/ CollectGarbage \/ StartRuntime \/ Fault
  BY <1>1, <1>8 DEF AdvanceFrontier, IngestBatch, IngestRefused, IngestNothing, SendStatus,
                    RecordFeedback, CollectGarbage, StartRuntime, Fault, RuntimeCrash,
                    PostmasterRestart, streamVars
<1>9. CASE UNCHANGED vars
  BY <1>1, <1>9 DEF vars
<1>. QED BY <1>2, <1>3, <1>4, <1>5, <1>6, <1>7, <1>8, <1>9, EffectRowsPublish
         DEF Next, Source, Runtime
-----------------------------------------------------------------------------
\* Nothing is in transit, logged or published in the initial state.
LEMMA RowInit == ASSUME Init PROVE RowInv
<1>1. EndLaw /\ SegmentRows /\ HeaderRows
  BY DEF Init, EndLaw, Positions, SegmentRows, HeaderRows
<1>2. EffectRows
  <2>1. <<>> \in Seq(Effect) /\ effects = [s \in Sources |-> <<>>]
    BY DEF Init
  <2>2. effects \in [Sources -> Seq(Effect)]
    BY <2>1
  <2>3. \A s \in Sources : Len(effects[s]) = 0
    BY <2>1
  <2>. QED BY <2>2, <2>3 DEF EffectRows
<1>. QED BY <1>1, <1>2 DEF RowInv

\* Every step keeps the origin of the rows.
LEMMA RowStep ==
    ASSUME IngressAssumption, SessionInv, TxnsInv, RowInv, [Next]_vars
    PROVE  RowInv'
<1>1. EndLaw /\ SegmentRows /\ HeaderRows /\ EffectRows
  BY DEF RowInv
<1>2. EndLaw' /\ SegmentRows' /\ HeaderRows' /\ EffectRows'
  BY <1>1, EndLawStep, SegmentRowsStep, HeaderRowsStep, EffectRowsStep
<1>. QED BY <1>2 DEF RowInv

\* The invariants of the session, the headers and the rows hold together.
LEMMA RowInvariant == Spec => [](SessionInv /\ TxnsInv /\ RowInv)
<1>1. Init => SessionInv /\ TxnsInv /\ RowInv
  BY SessionInit, TxnsInit, RowInit, IngressAssumption
<1>2. SessionInv /\ TxnsInv /\ RowInv /\ [Next]_vars => (SessionInv /\ TxnsInv /\ RowInv)'
  BY SessionStep, TxnsStep, RowStep, IngressAssumption
<1>. QED BY <1>1, <1>2, PTL DEF Spec

\* A transaction commits at most once.
LEMMA CommitUnique ==
    ASSUME WalOK, EndLaw, NEW i, NEW x, IsCommit(i, x)
    PROVE  Committed(x) /\ CommitLsns(x) = {i} /\ CommitLsn(x) = i
<1>1. i \in CommitLsns(x) /\ i \in Positions /\ Positions \subseteq Nat
  BY DEF CommitLsns, IsCommit, Positions, WalOK
<1>2. ASSUME NEW j \in CommitLsns(x) PROVE j = i
  <2>1. j \in Positions /\ wal[j].op = "commit" /\ wal[j].xid = x
    BY DEF CommitLsns
  <2>2. i \in Positions /\ wal[i].op = "commit" /\ wal[i].xid = x
    BY DEF IsCommit
  <2>3. ~(j > i) /\ ~(i > j)
    BY <2>1, <2>2 DEF EndLaw
  <2>. QED BY <1>1, <2>1, <2>3
<1>3. CommitLsns(x) = {i}
  BY <1>1, <1>2
<1>. QED BY <1>1, <1>3 DEF Committed, CommitLsn

\* Without subtransactions nothing is rolled back on its own.
LEMMA NoRollbacks ==
    ASSUME WalOK, Subs = {}, NEW x, NEW sub, NEW p
    PROVE  ~RolledBackBy(x, sub, p)
<1>1. SUFFICES ASSUME NEW i \in Positions, wal[i] = [op |-> "rollback", xid |-> x, sub |-> sub]
               PROVE  FALSE
  BY DEF RolledBackBy
<1>2. wal[i] \in WalRecord /\ wal[i].op = "rollback"
  BY <1>1 DEF WalOK, Positions
<1>. QED BY <1>2 DEF WalRecord

\* Every row of a source stream is a change to that source by a transaction that
\* committed in the source database, after the activation of the Scan: whatever
\* was streamed, aborted, replayed, retired by a restart or collected before.
RowsCommitted ==
    \A s \in Sources : \A i \in EffectLsns(s) :
        /\ wal[i].op = "change" /\ wal[i].source = s
        /\ Committed(wal[i].xid) /\ Wants(s, CommitLsn(wal[i].xid))

\* The invariant makes every published row a change of a committed
\* transaction that its source wants.
LEMMA RowsOfCommits ==
    ASSUME SessionInv, RowInv PROVE RowsCommitted
<1>0. WalOK /\ EndLaw /\ EffectRows
  BY DEF SessionInv, RowInv
<1>1. SUFFICES ASSUME NEW s \in Sources, NEW k \in DOMAIN effects[s]
               PROVE  LET i == effects[s][k].lsn IN
                      /\ wal[i].op = "change" /\ wal[i].source = s
                      /\ Committed(wal[i].xid) /\ Wants(s, CommitLsn(wal[i].xid))
  BY DEF RowsCommitted, EffectLsns
<1>. DEFINE e == effects[s][k]
<1>2. k \in 1 .. Len(effects[s])
  BY <1>0, <1>1 DEF EffectRows
<1>3. IsRow(e.lsn, e.xid, s) /\ IsCommit(e.commit, e.xid) /\ Wants(s, e.commit)
  BY <1>0, <1>2 DEF EffectRows
<1>4. wal[e.lsn].op = "change" /\ wal[e.lsn].source = s /\ wal[e.lsn].xid = e.xid
  BY <1>3 DEF IsRow
<1>. HIDE DEF e
<1>5. Committed(e.xid) /\ CommitLsn(e.xid) = e.commit
  BY <1>0, <1>3, CommitUnique
<1>. QED BY <1>3, <1>4, <1>5 DEF e

\* For every value of the constants, crashes and server restarts included.
THEOREM RowsAreCommitted == Spec => []RowsCommitted
<1>1. SessionInv /\ TxnsInv /\ RowInv => RowsCommitted
  BY RowsOfCommits
<1>. QED BY <1>1, RowInvariant, PTL

\* OnlyCommittedRows, of sources that use no subtransactions.
THEOREM OnlyCommittedRowsAppear ==
    ASSUME Subs = {} PROVE Spec => []OnlyCommittedRows
<1>1. ASSUME SessionInv, TxnsInv, RowInv PROVE OnlyCommittedRows
  <2>1. RowsCommitted /\ WalOK
    BY <1>1, RowsOfCommits DEF SessionInv
  <2>2. \A x, sub, p : ~RolledBackBy(x, sub, p)
    BY <2>1, NoRollbacks
  <2>3. SUFFICES ASSUME NEW s \in Sources, NEW i \in EffectLsns(s) PROVE IsWanted(s, i)
    BY DEF OnlyCommittedRows
  <2>4. /\ wal[i].op = "change" /\ wal[i].source = s
        /\ Committed(wal[i].xid) /\ Wants(s, CommitLsn(wal[i].xid))
    BY <2>1, <2>3 DEF RowsCommitted
  <2>5. ~RolledBackBy(wal[i].xid, wal[i].sub, Len(wal) + 1)
    BY <2>2
  <2>. QED BY <2>4, <2>5 DEF IsWanted
<1>. QED BY <1>1, RowInvariant, PTL
=============================================================================
