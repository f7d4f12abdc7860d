----------------------- MODULE IngressDeliveryProofs -----------------------
(***************************************************************************)
(* Proofs about Ingress: whatever was committed arrives, in commit order.  *)
(*                                                                         *)
(* First, from the write-ahead log to the staged headers: without          *)
(* subtransactions and server restarts, whatever the walsender streams,    *)
(* queues or sends again after a crash is staged in WAL order and without  *)
(* a gap, and completely when its commit is.  Then, from the staged        *)
(* headers to the source streams: nothing that is committed is lost on the *)
(* way, and rows arrive in commit order.  The Runtime may crash and refuse *)
(* batches.                                                                *)
(*                                                                         *)
(* The laws take the state they speak of as arguments: w is the log, ts    *)
(* the headers, g the segment, sn the walsender, u whether a Runtime is up *)
(* and p persisted_lsn; in the second part f is published_lsn, act and eff *)
(* the activations and the streams.                                        *)
(***************************************************************************)
EXTENDS IngressProofs

\* No subtransactions, no server restart.
Plain == Subs = {} /\ MaxRestarts = 0

NoRestart ==
    /\ staleEpoch = FALSE /\ restarts = 0
    /\ \A i \in 1 .. Len(wal) : wal[i].op # "recovery"

\* Records of the log.
Writes(w, x) == {i \in 1 .. Len(w) : w[i].op = "change" /\ w[i].xid = x}
CommitAt(w, i, x) == i \in 1 .. Len(w) /\ w[i].op = "commit" /\ w[i].xid = x
AbortAt(w, i, x) == i \in 1 .. Len(w) /\ w[i].op = "abort" /\ w[i].xid = x
\* x has no abort record: it committed, or may still do so.
Live(w, x) == \A i \in 1 .. Len(w) : ~AbortAt(w, i, x)
EndsBefore(w, x, p) == \E i \in 1 .. Len(w) : i < p /\ (CommitAt(w, i, x) \/ AbortAt(w, i, x))
FirstOf(w, i, x) == i \in Writes(w, x) /\ \A j \in Writes(w, x) : i <= j

\* Change i of x is in change_log, or in the frames that are not persisted.
Has(h, i) == \E k \in 1 .. Len(h.log) : h.log[k].lsn = i
Logged(ts, x, i) == \E id \in DOMAIN ts : id.xid = x /\ Has(ts[id], i)
InFrames(g, x, i) ==
    g # NoSegment /\ g.xid = x /\ \E k \in 1 .. Len(g.events) : g.events[k].lsn = i

\* The walsender streams a transaction from its first change, until its end.
SenderLaw(w, sn, u) ==
    LET streamed == DOMAIN sn.streamed IN
    /\ ~u => streamed = {}
    /\ \A x \in Xids :
         /\ x \in streamed => /\ sn.sent[x] < sn.pos /\ ~EndsBefore(w, x, sn.pos)
                              /\ FirstOf(w, sn.streamed[x], x)
         /\ u /\ x \notin streamed /\ ~EndsBefore(w, x, sn.pos) => sn.sent[x] = 0

\* Frames are in WAL order and leave no gap behind what is staged.
SegmentLaw(w, ts, sn, g) ==
    g # NoSegment =>
        LET x == g.xid
            e == g.events
        IN /\ FirstOf(w, g.start, x)
           /\ \A j, k \in 1 .. Len(e) : j < k => e[j].lsn < e[k].lsn
           /\ Live(w, x) => \A k \in 1 .. Len(e) : \A i \in Writes(w, x) :
                i < e[k].lsn => Logged(ts, x, i) \/ \E j \in 1 .. Len(e) : j < k /\ e[j].lsn = i
           /\ g.end.kind = "none" => x \in DOMAIN sn.streamed
           /\ g.end.kind = "commit" =>
                \A i \in Writes(w, x) : Logged(ts, x, i) \/ InFrames(g, x, i)
           /\ g.end.kind = "abort" => AbortAt(w, g.end.lsn, x)

\* What was streamed is staged, or about to be.
StreamedLaw(w, ts, sn, g) ==
    \A x \in DOMAIN sn.streamed : Live(w, x) =>
        \A i \in Writes(w, x) : i <= sn.sent[x] => Logged(ts, x, i) \/ InFrames(g, x, i)

\* A change log holds changes of x in WAL order, without a gap.
InOrder(w, x, h) ==
    /\ \A j, k \in 1 .. Len(h.log) : j < k => h.log[j].lsn < h.log[k].lsn
    /\ \A k \in 1 .. Len(h.log) : \A i \in Writes(w, x) : i < h.log[k].lsn => Has(h, i)

\* A header holds its transaction's changes in order; sealed as committed it
\* holds them all.
HeaderLaw(w, id, h, p) ==
    /\ FirstOf(w, id.start, id.xid)
    /\ Live(w, id.xid) => InOrder(w, id.xid, h)
    /\ h.status = "open" => h.final = 0
    /\ h.status = "committed" =>
         /\ h.final < p /\ h.end = h.final + 1
         /\ \A i \in Writes(w, id.xid) : Has(h, i)
    /\ h.status = "aborted" => h.end = h.final /\ AbortAt(w, h.final, id.xid)
HeadersLaw(w, ts, p) == \A id \in DOMAIN ts : HeaderLaw(w, id, ts[id], p)

\* Every commit the session has decoded is persisted, or being so.
ReceivedLaw(w, sn, g, u, p) ==
    u => \A c \in 1 .. Len(w) :
            w[c].op = "commit" /\ c < sn.pos =>
                \/ c < p
                \/ g # NoSegment /\ g.end = [kind |-> "commit", lsn |-> c]

StageInv ==
    /\ NoRestart /\ SenderLaw(wal, sender, up) /\ SegmentLaw(wal, txns, sender, segment)
    /\ StreamedLaw(wal, txns, sender, segment) /\ HeadersLaw(wal, txns, persisted)
    /\ ReceivedLaw(wal, sender, segment, up, persisted)
-----------------------------------------------------------------------------
\* Records of the log, as the laws and as the module name them.

\* Log v extends w, and ended transactions write nothing more.
Extends(w, v) ==
    /\ Len(w) \in Nat /\ Len(v) \in Nat /\ Len(w) <= Len(v)
    /\ \A i \in 1 .. Len(w) : v[i] = w[i]
    /\ \A i \in 1 .. Len(w) : \A j \in 1 .. Len(v) :
         w[i].op \in {"commit", "abort"} /\ j > i => v[j].xid # w[i].xid

\* Without server restarts EndLaw says so of the log itself.
LEMMA PlainLog ==
    ASSUME WalOK, EndLaw, NoRestart
    PROVE  /\ Extends(wal, wal)
           /\ \A x : Changes(x) = Writes(wal, x)
           /\ \A x, i : IsCommit(i, x) => CommitAt(wal, i, x)
           /\ \A x, i, j : CommitAt(wal, i, x) /\ CommitAt(wal, j, x) => i = j
           /\ \A x, i, j : CommitAt(wal, i, x) => ~AbortAt(wal, j, x)
           /\ \A x, i : CommitAt(wal, i, x) => Live(wal, x)
           /\ \A x, i, j : CommitAt(wal, i, x) /\ j \in Writes(wal, x) => j < i
           /\ \A x, i : CommitAt(wal, i, x) => \E j \in Writes(wal, x) : j < i
           /\ \A x, p : EndsBefore(wal, x, p) => EndedBy(x, p - 1) \/ p \notin Nat
<1>. USE DEF Positions
<1>1. Len(wal) \in Nat
  BY DEF WalOK
<1>2. \A i, j \in 1 .. Len(wal) :
        wal[i].op \in {"commit", "abort"} /\ j > i => wal[j].xid # wal[i].xid
  BY DEF EndLaw, NoRestart
<1>3. Extends(wal, wal)
  BY <1>1, <1>2 DEF Extends
<1>4. \A x : Changes(x) = Writes(wal, x)
  BY DEF Changes, IsChange, Writes
<1>5. \A x, i : IsCommit(i, x) => CommitAt(wal, i, x)
  BY DEF IsCommit, CommitAt
<1>6. \A x, i, j : CommitAt(wal, i, x) /\ CommitAt(wal, j, x) => i = j
  BY <1>1, <1>2 DEF CommitAt
<1>7. \A x, i, j : CommitAt(wal, i, x) => ~AbortAt(wal, j, x)
  BY <1>1, <1>2 DEF CommitAt, AbortAt
<1>8. \A x, i : CommitAt(wal, i, x) => Live(wal, x)
  BY <1>7 DEF Live
<1>9. \A x, i, j : CommitAt(wal, i, x) /\ j \in Writes(wal, x) => j < i
  BY <1>1, <1>2 DEF CommitAt, Writes
<1>10. \A x, i : CommitAt(wal, i, x) => \E j \in Writes(wal, x) : j < i
  BY DEF EndLaw, CommitAt, Writes
<1>11. ASSUME NEW x, NEW p \in Nat, EndsBefore(wal, x, p) PROVE EndedBy(x, p - 1)
  <2>1. PICK i \in 1 .. Len(wal) : i < p /\ (CommitAt(wal, i, x) \/ AbortAt(wal, i, x))
    BY <1>11 DEF EndsBefore
  <2>2. PICK j \in 1 .. Len(wal) : j < i /\ wal[j].op = "change" /\ wal[j].xid = wal[i].xid
    BY <2>1 DEF EndLaw, CommitAt, AbortAt
  <2>3. i <= p - 1 /\ IsEnd(i, x) /\ j \in Changes(x)
    BY <1>1, <2>1, <2>2 DEF CommitAt, AbortAt, IsEnd, Changes, IsChange
  <2>. QED BY <2>2, <2>3 DEF EndedBy
<1>. QED BY <1>3, <1>4, <1>5, <1>6, <1>7, <1>8, <1>9, <1>10, <1>11

\* What an extension of the log leaves as it was.
LEMMA ExtensionFacts ==
    ASSUME NEW w, NEW v, Extends(w, v)
    PROVE  /\ \A x : Writes(w, x) \subseteq Writes(v, x)
           /\ \A x, i : i \in Writes(v, x) /\ i <= Len(w) => i \in Writes(w, x)
           /\ \A x, i : CommitAt(w, i, x) => CommitAt(v, i, x) /\ Writes(v, x) = Writes(w, x)
           /\ \A x, i : AbortAt(w, i, x) => AbortAt(v, i, x)
           /\ \A x : Live(v, x) => Live(w, x)
           /\ \A x, i : FirstOf(w, i, x) => FirstOf(v, i, x)
           /\ \A x : \A p \in Nat : p <= Len(w) + 1 =>
                (EndsBefore(v, x, p) => EndsBefore(w, x, p))
<1>. USE DEF Extends
<1>1. \A x : Writes(w, x) \subseteq Writes(v, x)
  BY DEF Writes
<1>2. \A x, i : i \in Writes(v, x) /\ i <= Len(w) => i \in Writes(w, x)
  BY DEF Writes
<1>3. \A x, i : CommitAt(w, i, x) => CommitAt(v, i, x)
  BY DEF CommitAt
<1>4. ASSUME NEW x, NEW i, CommitAt(w, i, x), NEW j \in Writes(v, x) PROVE j \in Writes(w, x)
  BY <1>2, <1>4 DEF CommitAt, Writes
<1>5. \A x, i : AbortAt(w, i, x) => AbortAt(v, i, x)
  BY DEF AbortAt
<1>6. \A x : Live(v, x) => Live(w, x)
  BY DEF AbortAt, Live
<1>7. ASSUME NEW x, NEW i, FirstOf(w, i, x) PROVE FirstOf(v, i, x)
  <2>1. ASSUME NEW j \in Writes(v, x) PROVE i <= j
    <3>1. i \in 1 .. Len(w)
      BY <1>7 DEF FirstOf, Writes
    <3>2. j \in 1 .. Len(v)
      BY DEF Writes
    <3>. QED BY <1>2, <1>7, <3>1, <3>2 DEF FirstOf
  <2>. QED BY <1>1, <1>7, <2>1 DEF FirstOf
<1>8. ASSUME NEW x, NEW p \in Nat, p <= Len(w) + 1, EndsBefore(v, x, p)
      PROVE  EndsBefore(w, x, p)
  <2>1. PICK i \in 1 .. Len(v) : i < p /\ (CommitAt(v, i, x) \/ AbortAt(v, i, x))
    BY <1>8 DEF EndsBefore
  <2>2. i \in 1 .. Len(w)
    BY <1>8, <2>1
  <2>3. CommitAt(w, i, x) \/ AbortAt(w, i, x)
    BY <2>1, <2>2 DEF CommitAt, AbortAt
  <2>. QED BY <2>1, <2>2, <2>3 DEF EndsBefore
<1>9. ASSUME NEW x, NEW i, CommitAt(w, i, x) PROVE Writes(v, x) = Writes(w, x)
  <2>1. Writes(w, x) \subseteq Writes(v, x)
    BY <1>1
  <2>2. Writes(v, x) \subseteq Writes(w, x)
    BY <1>4, <1>9
  <2>. QED BY <2>1, <2>2
<1>. QED BY <1>1, <1>2, <1>3, <1>5, <1>6, <1>7, <1>8, <1>9
-----------------------------------------------------------------------------
\* The headers keep their logs and what they were sealed with.
SameHeaders(ts, us) ==
    /\ DOMAIN us = DOMAIN ts
    /\ \A id \in DOMAIN ts : /\ us[id].log = ts[id].log /\ us[id].status = ts[id].status
                             /\ us[id].final = ts[id].final /\ us[id].end = ts[id].end

\* Headers that agree up to their cursors have logged the same changes.
LEMMA SameHeadersLogged ==
    ASSUME NEW ts, NEW us, SameHeaders(ts, us)
    PROVE  \A x, i : Logged(us, x, i) <=> Logged(ts, x, i)
BY DEF SameHeaders, Logged, Has

\* The log may grow and publication cursors move: what is staged stays so.
LEMMA StageKept ==
    ASSUME SessionInv, TxnsInv, RowInv, StageInv, NoRestart', Extends(wal, wal'),
           SameHeaders(txns, txns'), UNCHANGED <<sender, segment, up, persisted>>
    PROVE  StageInv'
<1>0. /\ Len(wal) \in Nat /\ sender.pos \in Nat /\ sender.pos <= Len(wal) + 1
      /\ sender.sent \in [Xids -> Nat] /\ Streamed \subseteq Xids
      /\ Streamed = DOMAIN sender.streamed
  BY DEF SessionInv, WalOK, SenderOK, Lsn, Streamed
<1>1. /\ \A x : Writes(wal, x) \subseteq Writes(wal', x)
      /\ \A x, i : i \in Writes(wal', x) /\ i <= Len(wal) => i \in Writes(wal, x)
      /\ \A x, i : CommitAt(wal, i, x) => CommitAt(wal', i, x) /\ Writes(wal', x) = Writes(wal, x)
      /\ \A x, i : AbortAt(wal, i, x) => AbortAt(wal', i, x)
      /\ \A x : Live(wal', x) => Live(wal, x)
      /\ \A x, i : FirstOf(wal, i, x) => FirstOf(wal', i, x)
      /\ \A x : \A p \in Nat : p <= Len(wal) + 1 =>
           (EndsBefore(wal', x, p) => EndsBefore(wal, x, p))
  BY ExtensionFacts
<1>2. SenderLaw(wal', sender, up)
  <2>1. SenderLaw(wal, sender, up)
    BY DEF StageInv
  <2>2. \A x \in Xids : EndsBefore(wal, x, sender.pos) => EndsBefore(wal', x, sender.pos)
    <3>1. SUFFICES ASSUME NEW x \in Xids, EndsBefore(wal, x, sender.pos)
                   PROVE  EndsBefore(wal', x, sender.pos)
      OBVIOUS
    <3>2. PICK i \in 1 .. Len(wal) : i < sender.pos /\ (CommitAt(wal, i, x) \/ AbortAt(wal, i, x))
      BY <3>1 DEF EndsBefore
    <3>. QED BY <1>1, <3>2 DEF EndsBefore, Extends
  <2>. QED BY <1>0, <1>1, <2>1, <2>2 DEF SenderLaw
<1>3. \A x, i : Logged(txns', x, i) <=> Logged(txns, x, i)
  BY SameHeadersLogged
<1>4. SegmentLaw(wal', txns', sender, segment)
  <2>1. SUFFICES ASSUME segment # NoSegment PROVE SegmentLaw(wal', txns', sender, segment)
    BY DEF SegmentLaw
  <2>2. SegmentLaw(wal, txns, sender, segment)
    BY DEF StageInv
  <2>3. /\ \A k \in 1 .. Len(segment.events) : segment.events[k].lsn \in 1 .. Len(wal)
        /\ segment.end.kind = "commit" => CommitAt(wal, segment.end.lsn, segment.xid)
    BY <2>1 DEF RowInv, SegmentRows, IsRow, IsCommit, CommitAt, Positions
  <2>4. \A k \in 1 .. Len(segment.events) : \A i \in Writes(wal', segment.xid) :
          i < segment.events[k].lsn => i \in Writes(wal, segment.xid)
    <3>1. SUFFICES ASSUME NEW k \in 1 .. Len(segment.events), NEW i \in Writes(wal', segment.xid),
                          i < segment.events[k].lsn
                   PROVE  i \in Writes(wal, segment.xid)
      OBVIOUS
    <3>2. i \in Nat /\ segment.events[k].lsn \in 1 .. Len(wal)
      BY <2>3 DEF Writes
    <3>3. i <= Len(wal)
      BY <1>0, <3>1, <3>2
    <3>. QED BY <1>1, <3>3
  <2>. QED BY <1>1, <1>3, <2>1, <2>2, <2>3, <2>4 DEF SegmentLaw
<1>5. StreamedLaw(wal', txns', sender, segment)
  <2>1. SUFFICES ASSUME NEW x \in DOMAIN sender.streamed, Live(wal', x),
                        NEW i \in Writes(wal', x), i <= sender.sent[x]
                 PROVE  Logged(txns', x, i) \/ InFrames(segment, x, i)
    BY DEF StreamedLaw
  <2>2. x \in Xids /\ sender.sent[x] < sender.pos /\ sender.sent[x] \in Nat /\ i \in Nat
    BY <1>0 DEF StageInv, SenderLaw, Writes
  <2>3. i \in Writes(wal, x) /\ Live(wal, x)
    BY <1>0, <1>1, <2>1, <2>2
  <2>. QED BY <1>3, <2>1, <2>3 DEF StageInv, StreamedLaw
<1>6. HeadersLaw(wal', txns', persisted)
  <2>1. SUFFICES ASSUME NEW id \in DOMAIN txns PROVE HeaderLaw(wal', id, txns'[id], persisted)
    BY DEF HeadersLaw, SameHeaders
  <2>. DEFINE h == txns[id]
              g == txns'[id]
  <2>2. HeaderLaw(wal, id, h, persisted)
    BY DEF StageInv, HeadersLaw
  <2>3. /\ \A k \in 1 .. Len(h.log) : h.log[k].lsn \in 1 .. Len(wal)
        /\ h.status = "committed" => CommitAt(wal, h.final, id.xid)
    <3>1. /\ \A k \in 1 .. Len(h.log) : IsRow(h.log[k].lsn, id.xid, h.log[k].source)
          /\ h.status = "committed" => IsCommit(h.final, id.xid)
      BY DEF RowInv, HeaderRows
    <3>. HIDE DEF h
    <3>. QED BY <3>1 DEF IsRow, IsCommit, CommitAt, Positions
  <2>4. /\ g.log = h.log /\ g.status = h.status /\ g.final = h.final /\ g.end = h.end
    BY DEF SameHeaders
  <2>. HIDE DEF h, g
  <2>5. \A k \in 1 .. Len(h.log) : \A i \in Writes(wal', id.xid) :
          i < h.log[k].lsn => i \in Writes(wal, id.xid)
    <3>1. SUFFICES ASSUME NEW k \in 1 .. Len(h.log), NEW i \in Writes(wal', id.xid),
                          i < h.log[k].lsn
                   PROVE  i \in Writes(wal, id.xid)
      OBVIOUS
    <3>2. i \in Nat /\ h.log[k].lsn \in 1 .. Len(wal)
      BY <2>3 DEF Writes
    <3>3. i <= Len(wal)
      BY <1>0, <3>1, <3>2
    <3>. QED BY <1>1, <3>3
  <2>6. \A i : Has(g, i) <=> Has(h, i)
    BY <2>4 DEF Has
  <2>7. HeaderLaw(wal', id, g, persisted)
    BY <1>1, <2>2, <2>3, <2>4, <2>5, <2>6 DEF HeaderLaw, InOrder
  <2>. QED BY <2>7 DEF g
<1>7. ReceivedLaw(wal', sender, segment, up, persisted)
  <2>1. ReceivedLaw(wal, sender, segment, up, persisted)
    BY DEF StageInv
  <2>2. \A c \in 1 .. Len(wal') : c < sender.pos => c \in 1 .. Len(wal) /\ wal'[c] = wal[c]
    BY <1>0 DEF Extends
  <2>. QED BY <2>1, <2>2 DEF ReceivedLaw
<1>. QED BY <1>2, <1>4, <1>5, <1>6, <1>7 DEF StageInv
-----------------------------------------------------------------------------
\* q holds the changes of x between two positions, in WAL order.
IsQueue(q, x, after, before) ==
    /\ q \in Seq(Event) /\ Len(q) \in Nat
    /\ \A k \in 1 .. Len(q) : /\ q[k].lsn \in Writes(wal, x)
                              /\ after < q[k].lsn /\ q[k].lsn < before
    /\ \A j, k \in 1 .. Len(q) : j < k => q[j].lsn < q[k].lsn
    /\ \A i \in Writes(wal, x) : after < i /\ i < before =>
         \E k \in 1 .. Len(q) : q[k].lsn = i

\* Queued, when nothing is rolled back on its own.
LEMMA QueuedPlain ==
    ASSUME Plain, WalOK, EndLaw, NoRestart, NEW x \in Xids, NEW after \in Nat, NEW before \in Nat,
           1 <= before, before <= Len(wal) + 1, NEW streamed \in BOOLEAN
    PROVE  IsQueue(Queued(x, after, before, streamed), x, after, before)
<1>. DEFINE e == Queued(x, after, before, streamed)
<1>1. /\ e \in Seq(Event)
      /\ \A k \in 1 .. Len(e) : e[k].lsn \in Changes(x) /\ after < e[k].lsn /\ e[k].lsn < before
      /\ \A j, k \in 1 .. Len(e) : j < k => e[j].lsn < e[k].lsn
      /\ \A i \in Changes(x) :
           after < i /\ i < before /\ ~RolledBackBy(x, wal[i].sub, before)
             => \E k \in 1 .. Len(e) : e[k].lsn = i
  <2>1. e \in Seq(Event)
    BY QueuedFacts
  <2>2. \A k \in 1 .. Len(e) : e[k].lsn \in Changes(x) /\ after < e[k].lsn /\ e[k].lsn < before
    BY QueuedFacts
  <2>3. \A j, k \in 1 .. Len(e) : j < k => e[j].lsn < e[k].lsn
    BY QueuedFacts
  <2>4. \A i \in Changes(x) :
          after < i /\ i < before /\ ~RolledBackBy(x, wal[i].sub, before)
            => \E k \in 1 .. Len(e) : e[k].lsn = i
    BY QueuedFacts
  <2>. HIDE DEF e
  <2>. QED BY <2>1, <2>2, <2>3, <2>4
<1>2. Changes(x) = Writes(wal, x)
  BY PlainLog
<1>3. \A i : ~RolledBackBy(x, wal[i].sub, before)
  BY NoRollbacks DEF Plain
<1>. HIDE DEF e
<1>4. Len(e) \in Nat
  BY <1>1
<1>5. IsQueue(e, x, after, before)
  BY <1>1, <1>2, <1>3, <1>4 DEF IsQueue
<1>. QED BY <1>5 DEF e

\* What the walsender sends of x at its position: without a gap behind what is
\* staged, and the first of it is the first change of x.
IsSent(q, x) ==
    /\ q \in Seq(Event) /\ Len(q) \in Nat
    /\ \A k \in 1 .. Len(q) : q[k].lsn \in Writes(wal, x) /\ q[k].lsn < sender.pos
    /\ \A j, k \in 1 .. Len(q) : j < k => q[j].lsn < q[k].lsn
    /\ Live(wal, x) => \A i \in Writes(wal, x) : i < sender.pos =>
         Logged(txns, x, i) \/ \E k \in 1 .. Len(q) : q[k].lsn = i
    /\ Live(wal, x) => \A k \in 1 .. Len(q) : \A i \in Writes(wal, x) :
         i < q[k].lsn => Logged(txns, x, i) \/ \E j \in 1 .. Len(q) : j < k /\ q[j].lsn = i
    /\ x \in Streamed => FirstOf(wal, sender.streamed[x], x)
    /\ x \notin Streamed => \A i \in Writes(wal, x) : i < sender.pos =>
         \E k \in 1 .. Len(q) : q[k].lsn = i

\* What the walsender queues for a transaction that has not ended is exactly
\* what it has written and not been sent.
LEMMA SentFacts ==
    ASSUME Plain, SessionInv, RowInv, StageInv, up, segment = NoSegment, NEW x \in Xids,
           ~EndsBefore(wal, x, sender.pos), NEW streaming \in BOOLEAN
    PROVE  IsSent(Queued(x, sender.sent[x], sender.pos, streaming), x)
<1>. DEFINE q == Queued(x, sender.sent[x], sender.pos, streaming)
<1>1. /\ Len(wal) \in Nat /\ sender.pos \in Nat /\ sender.sent[x] \in Nat
      /\ 1 <= sender.pos /\ sender.pos <= Len(wal) + 1 /\ WalOK
      /\ Streamed = DOMAIN sender.streamed
  BY DEF SessionInv, WalOK, SenderOK, SessionOK, Lsn, Baseline, Streamed
<1>2. Changes(x) = Writes(wal, x) /\ \A i \in Writes(wal, x) : i \in Nat /\ i >= 1
  <2>1. Changes(x) = Writes(wal, x)
    BY <1>1, PlainLog DEF RowInv, StageInv
  <2>2. \A i \in Writes(wal, x) : i \in Nat /\ i >= 1
    BY <1>1 DEF Writes
  <2>. QED BY <2>1, <2>2
<1>3. /\ q \in Seq(Event) /\ Len(q) \in Nat
      /\ \A k \in 1 .. Len(q) : /\ q[k].lsn \in Writes(wal, x)
                                /\ sender.sent[x] < q[k].lsn /\ q[k].lsn < sender.pos
      /\ \A j, k \in 1 .. Len(q) : j < k => q[j].lsn < q[k].lsn
      /\ \A i \in Writes(wal, x) : sender.sent[x] < i /\ i < sender.pos =>
           \E k \in 1 .. Len(q) : q[k].lsn = i
  <2>1. EndLaw /\ NoRestart
    BY DEF RowInv, StageInv
  <2>2. IsQueue(q, x, sender.sent[x], sender.pos)
    BY <1>1, <2>1, QueuedPlain
  <2>. HIDE DEF q
  <2>. QED BY <2>2 DEF IsQueue
<1>. HIDE DEF q
<1>4. /\ x \in Streamed => FirstOf(wal, sender.streamed[x], x)
      /\ x \notin Streamed => sender.sent[x] = 0
  BY <1>1 DEF StageInv, SenderLaw
<1>5. ASSUME Live(wal, x), NEW i \in Writes(wal, x), i < sender.pos
      PROVE  Logged(txns, x, i) \/ \E k \in 1 .. Len(q) : q[k].lsn = i
  <2>1. CASE sender.sent[x] < i
    BY <1>3, <1>5, <2>1
  <2>2. CASE ~(sender.sent[x] < i)
    <3>1. i <= sender.sent[x] /\ x \in DOMAIN sender.streamed
      BY <1>1, <1>2, <1>4, <2>2
    <3>2. ~InFrames(segment, x, i)
      BY DEF InFrames
    <3>. QED BY <1>5, <3>1, <3>2 DEF StageInv, StreamedLaw
  <2>. QED BY <2>1, <2>2
<1>6. ASSUME Live(wal, x), NEW k \in 1 .. Len(q), NEW i \in Writes(wal, x), i < q[k].lsn
      PROVE  Logged(txns, x, i) \/ \E j \in 1 .. Len(q) : j < k /\ q[j].lsn = i
  <2>1. q[k].lsn \in Nat /\ q[k].lsn < sender.pos /\ i \in Nat
    BY <1>2, <1>3
  <2>2. i < sender.pos
    BY <1>1, <1>6, <2>1
  <2>3. CASE Logged(txns, x, i)
    BY <2>3
  <2>4. ASSUME NEW j \in 1 .. Len(q), q[j].lsn = i PROVE j < k
    <3>1. CASE j = k
      BY <1>6, <2>1, <2>4, <3>1
    <3>2. CASE k < j
      <4>1. q[k].lsn < q[j].lsn
        BY <1>3, <3>2
      <4>. QED BY <1>6, <2>1, <2>4, <4>1
    <3>. QED BY <1>3, <3>1, <3>2
  <2>. QED BY <1>5, <1>6, <2>2, <2>4
<1>7. x \notin Streamed => \A i \in Writes(wal, x) : i < sender.pos =>
        \E k \in 1 .. Len(q) : q[k].lsn = i
  BY <1>2, <1>3, <1>4
<1>8. IsSent(q, x)
  BY <1>1, <1>3, <1>4, <1>5, <1>6, <1>7 DEF IsSent
<1>. QED BY <1>8 DEF q

\* A segment of a transaction in progress.
LEMMA StageStream ==
    ASSUME Plain, SessionInv, TxnsInv, RowInv, StageInv, NoRestart',
           NEW x \in Xids, StreamSegment(x)
    PROVE  StageInv'
<1>. DEFINE pos == sender.pos
            q == Queued(x, sender.sent[x], pos, TRUE)
            start == IF x \in Streamed THEN sender.streamed[x] ELSE q[1].lsn
<1>1. /\ up /\ up' = up /\ segment = NoSegment /\ q # <<>>
      /\ pos \in Nat /\ ~EndedBy(x, pos - 1)
      /\ segment' = [xid |-> x, start |-> start, events |-> q,
                     streaming |-> TRUE, end |-> NoBoundary]
      /\ sender'.pos = pos
      /\ DOMAIN sender'.streamed = Streamed \cup {x}
      /\ \A y \in Streamed \cup {x} :
           sender'.streamed[y] = IF y = x THEN start ELSE sender.streamed[y]
      /\ sender'.sent = [sender.sent EXCEPT ![x] = pos - 1]
      /\ UNCHANGED <<wal, txns, persisted>>
  BY StreamFacts, Zenon
<1>2. ~EndsBefore(wal, x, pos)
  BY <1>1, PlainLog DEF RowInv, StageInv, SessionInv
<1>3. /\ q \in Seq(Event) /\ Len(q) \in Nat
      /\ \A k \in 1 .. Len(q) : q[k].lsn \in Writes(wal, x) /\ q[k].lsn < pos
      /\ \A j, k \in 1 .. Len(q) : j < k => q[j].lsn < q[k].lsn
      /\ Live(wal, x) => \A i \in Writes(wal, x) : i < pos =>
           Logged(txns, x, i) \/ \E k \in 1 .. Len(q) : q[k].lsn = i
      /\ Live(wal, x) => \A k \in 1 .. Len(q) : \A i \in Writes(wal, x) :
           i < q[k].lsn => Logged(txns, x, i) \/ \E j \in 1 .. Len(q) : j < k /\ q[j].lsn = i
      /\ x \in Streamed => FirstOf(wal, sender.streamed[x], x)
      /\ x \notin Streamed => \A i \in Writes(wal, x) : i < pos =>
           \E k \in 1 .. Len(q) : q[k].lsn = i
  <2>1. IsSent(q, x)
    BY <1>1, <1>2, SentFacts
  <2>. HIDE DEF q
  <2>. QED BY <2>1 DEF IsSent
<1>. HIDE DEF q
<1>4. /\ sender.sent \in [Xids -> Nat] /\ Streamed = DOMAIN sender.streamed /\ pos >= 1
      /\ Streamed \subseteq Xids
  BY <1>1 DEF SessionInv, SenderOK, SessionOK, ScalarsOK, Lsn, Streamed, Baseline
<1>5. FirstOf(wal, start, x)
  <2>1. CASE x \in Streamed
    BY <1>3, <2>1
  <2>2. CASE x \notin Streamed
    <3>1. 1 \in 1 .. Len(q) /\ start = q[1].lsn
      BY <1>1, <1>3, <2>2
    <3>2. q[1].lsn \in Writes(wal, x) /\ q[1].lsn < pos /\ q[1].lsn \in Nat
      BY <1>3, <3>1 DEF Writes
    <3>3. ASSUME NEW i \in Writes(wal, x) PROVE q[1].lsn <= i
      <4>1. i \in Nat
        BY DEF Writes
      <4>2. CASE i < pos
        <5>1. PICK k \in 1 .. Len(q) : q[k].lsn = i
          BY <1>3, <2>2, <4>2
        <5>2. k = 1 \/ q[1].lsn < q[k].lsn
          BY <1>3, <3>1
        <5>. QED BY <3>2, <4>1, <5>1, <5>2
      <4>. QED BY <1>1, <3>2, <4>1, <4>2
    <3>. QED BY <3>1, <3>2, <3>3 DEF FirstOf
  <2>. QED BY <2>1, <2>2
<1>. HIDE DEF start
<1>6. /\ segment' # NoSegment /\ segment'.xid = x /\ segment'.start = start
      /\ segment'.events = q /\ segment'.end.kind = "none"
  BY <1>1 DEF NoSegment, NoBoundary
<1>7. SenderLaw(wal, sender', up)
  <2>1. SenderLaw(wal, sender, up)
    BY DEF StageInv
  <2>2. \A y \in Xids : sender'.sent[y] = IF y = x THEN pos - 1 ELSE sender.sent[y]
    BY <1>1, <1>4
  <2>3. ASSUME NEW y \in Xids
        PROVE  /\ y \in DOMAIN sender'.streamed =>
                    /\ sender'.sent[y] < pos /\ ~EndsBefore(wal, y, pos)
                    /\ FirstOf(wal, sender'.streamed[y], y)
               /\ y \notin DOMAIN sender'.streamed /\ ~EndsBefore(wal, y, pos)
                    => sender'.sent[y] = 0
    <3>1. CASE y = x
      BY <1>1, <1>2, <1>4, <1>5, <2>2, <3>1
    <3>2. CASE y # x
      BY <1>1, <1>4, <2>1, <2>2, <3>2 DEF SenderLaw
    <3>. QED BY <3>1, <3>2
  <2>. QED BY <1>1, <2>3 DEF SenderLaw
<1>8. SegmentLaw(wal, txns, sender', segment')
  <2>. DEFINE e == segment'.events
  <2>1. e = q /\ segment'.xid = x
    BY <1>6
  <2>2. Live(wal, x) => \A k \in 1 .. Len(e) : \A i \in Writes(wal, x) :
          i < e[k].lsn => Logged(txns, x, i) \/ \E j \in 1 .. Len(e) : j < k /\ e[j].lsn = i
    <3>. HIDE DEF e
    <3>. QED BY <1>3, <2>1
  <2>3. \A j, k \in 1 .. Len(e) : j < k => e[j].lsn < e[k].lsn
    BY <1>3, <2>1, Zenon
  <2>4. x \in DOMAIN sender'.streamed
    BY <1>1
  <2>. QED BY <1>5, <1>6, <2>2, <2>3, <2>4 DEF SegmentLaw
<1>9. StreamedLaw(wal, txns, sender', segment')
  <2>1. SUFFICES ASSUME NEW y \in DOMAIN sender'.streamed, Live(wal, y),
                        NEW i \in Writes(wal, y), i <= sender'.sent[y]
                 PROVE  Logged(txns, y, i) \/ InFrames(segment', y, i)
    BY DEF StreamedLaw
  <2>2. CASE y = x
    <3>1. i < pos
      <4>1. sender'.sent[x] = pos - 1 /\ i \in Nat
        BY <1>1, <1>4 DEF Writes
      <4>. QED BY <1>1, <2>1, <2>2, <4>1
    <3>. QED BY <1>3, <1>6, <2>1, <2>2, <3>1 DEF InFrames
  <2>3. CASE y # x
    <3>1. y \in DOMAIN sender.streamed /\ sender'.sent[y] = sender.sent[y]
      BY <1>1, <1>4, <2>3
    <3>2. ~InFrames(segment, y, i)
      BY <1>1 DEF InFrames
    <3>. QED BY <2>1, <3>1, <3>2 DEF StageInv, StreamedLaw
  <2>. QED BY <2>2, <2>3
<1>10. ReceivedLaw(wal, sender', segment', up, persisted)
  BY <1>1 DEF StageInv, ReceivedLaw
<1>11. HeadersLaw(wal, txns, persisted)
  BY DEF StageInv
<1>. QED BY <1>1, <1>7, <1>8, <1>9, <1>10, <1>11 DEF StageInv
\* The walsender forgets a transaction only at its end.
LEMMA DecodeStreamed ==
    ASSUME SessionInv, Decode, NEW y \in Streamed, y \notin DOMAIN sender'.streamed
    PROVE  \/ wal[sender.pos].op = "recovery"
           \/ wal[sender.pos].op \in {"commit", "abort"} /\ y = wal[sender.pos].xid
<1>. DEFINE r == wal[sender.pos]
            streamed == CASE r.op \in {"commit", "abort"} -> Without(sender.streamed, r.xid)
                          [] r.op = "recovery" -> <<>>
                          [] OTHER -> sender.streamed
<1>1. sender' = [sender EXCEPT !.pos = sender.pos + 1, !.streamed = streamed]
  BY DEF Decode
<1>2. sender'.streamed = streamed
  <2>. HIDE DEF streamed
  <2>. QED BY <1>1 DEF SessionInv, SenderOK
<1>3. y \in DOMAIN streamed \/ r.op = "recovery" \/ (r.op \in {"commit", "abort"} /\ y = r.xid)
  BY DEF Without, Streamed
<1>. QED BY <1>2, <1>3

\* A decoded record.
LEMMA StageDecode ==
    ASSUME Plain, SessionInv, TxnsInv, RowInv, StageInv, NoRestart', Decode
    PROVE  StageInv'
<1>. DEFINE pos == sender.pos
            r == wal[pos]
            x == r.xid
            streaming == x \in Streamed
            q == Queued(x, sender.sent[x], pos, streaming)
            start == IF streaming THEN sender.streamed[x] ELSE Min(Changes(x))
<1>1. /\ up /\ up' = up /\ segment = NoSegment
      /\ pos \in Positions /\ r \in WalRecord
      /\ sender'.pos = pos + 1 /\ sender'.sent = sender.sent
      /\ DOMAIN sender'.streamed \subseteq Streamed
      /\ \A y \in DOMAIN sender'.streamed : sender'.streamed[y] = sender.streamed[y]
      /\ r.op \in {"commit", "abort"} => x \notin DOMAIN sender'.streamed
      /\ UNCHANGED <<wal, txns, persisted>>
      /\ \/ /\ segment' = NoSegment
            /\ r.op = "commit" => ~streaming /\ q = <<>>
         \/ /\ r.op = "commit" /\ x \in Xids
            /\ segment' = [xid |-> x, start |-> start, events |-> q, streaming |-> streaming,
                           end |-> [kind |-> "commit", lsn |-> pos]]
         \/ /\ r.op \in {"abort", "rollback"} /\ x \in Streamed
            /\ segment' = [xid |-> x, start |-> sender.streamed[x],
                           events |-> <<>>, streaming |-> TRUE, end |-> segment'.end]
            /\ segment'.end =
                 IF r.op = "abort" THEN [kind |-> "abort", lsn |-> pos]
                 ELSE [kind |-> "rollback", sub |-> r.sub]
  BY DecodeFacts, Zenon
<1>2. \A y \in Streamed : y \in DOMAIN sender'.streamed \/ (r.op \in {"commit", "abort"} /\ y = x)
  <2>1. r.op # "recovery"
    BY <1>1 DEF StageInv, NoRestart, Positions
  <2>. QED BY <2>1, DecodeStreamed
<1>3. r.op # "rollback"
  <2>1. r.op = "rollback" => r.sub \in Subs
    BY <1>1 DEF WalRecord
  <2>. QED BY <2>1 DEF Plain
<1>. HIDE DEF q, start, streaming, r
<1>4. /\ Len(wal) \in Nat /\ pos \in Nat /\ pos \in 1 .. Len(wal) /\ WalOK /\ EndLaw /\ NoRestart
      /\ sender.sent \in [Xids -> Nat] /\ Streamed = DOMAIN sender.streamed
      /\ Streamed \subseteq Xids
  BY <1>1 DEF SessionInv, WalOK, SenderOK, Positions, Streamed, RowInv, StageInv
<1>5. /\ r.op = "commit" => CommitAt(wal, pos, x)
      /\ r.op = "abort" => AbortAt(wal, pos, x)
      /\ \A y : CommitAt(wal, pos, y) => r.op = "commit" /\ y = x
  BY <1>4 DEF CommitAt, AbortAt, r
<1>6. \A y : EndsBefore(wal, y, pos + 1) <=>
              EndsBefore(wal, y, pos) \/ (r.op \in {"commit", "abort"} /\ y = x)
  <2>1. \A i \in 1 .. Len(wal) : i < pos + 1 <=> i < pos \/ i = pos
    BY <1>4
  <2>. QED BY <1>4, <2>1 DEF EndsBefore, CommitAt, AbortAt, r
<1>7. ASSUME r.op = "commit", x \in Xids
      PROVE  /\ IsSent(q, x) /\ Live(wal, x) /\ FirstOf(wal, Min(Changes(x)), x)
             /\ \A i \in Writes(wal, x) : i < pos
             /\ \E i \in Writes(wal, x) : i < pos
             /\ ~streaming => \A i \in Writes(wal, x) : \E k \in 1 .. Len(q) : q[k].lsn = i
  <2>1. CommitAt(wal, pos, x)
    BY <1>5, <1>7
  <2>2. /\ Live(wal, x) /\ Changes(x) = Writes(wal, x)
        /\ \A i \in Writes(wal, x) : i < pos
        /\ \E i \in Writes(wal, x) : i < pos
    BY <1>4, <2>1, PlainLog
  <2>3. ~EndsBefore(wal, x, pos)
    <3>1. SUFFICES ASSUME NEW i \in 1 .. Len(wal), i < pos, CommitAt(wal, i, x) \/ AbortAt(wal, i, x)
                   PROVE  FALSE
      BY DEF EndsBefore
    <3>. QED BY <1>4, <2>1, <3>1, PlainLog
  <2>4. IsSent(q, x)
    <3>1. streaming \in BOOLEAN
      BY DEF streaming
    <3>. HIDE DEF pos
    <3>2. ~EndsBefore(wal, x, sender.pos) /\ up /\ segment = NoSegment
      BY <1>1, <2>3 DEF pos
    <3>3. IsSent(Queued(x, sender.sent[x], sender.pos, streaming), x)
      BY <1>7, <3>1, <3>2, SentFacts
    <3>. QED BY <3>3 DEF q, pos
  <2>5. FirstOf(wal, Min(Changes(x)), x)
    <3>1. Changes(x) \in SUBSET Nat /\ Changes(x) # {}
      BY <2>2 DEF Writes
    <3>2. Min(Changes(x)) \in Changes(x) /\ \A y \in Changes(x) : Min(Changes(x)) <= y
      BY <3>1, MinOfNats
    <3>. QED BY <2>2, <3>2 DEF FirstOf
  <2>6. ~streaming => \A i \in Writes(wal, x) : \E k \in 1 .. Len(q) : q[k].lsn = i
    BY <2>2, <2>4 DEF IsSent, streaming
  <2>. QED BY <2>2, <2>4, <2>5, <2>6
<1>8. SenderLaw(wal, sender', up)
  <2>1. SenderLaw(wal, sender, up)
    BY DEF StageInv
  <2>2. ASSUME NEW y \in Xids
        PROVE  /\ y \in DOMAIN sender'.streamed =>
                    /\ sender'.sent[y] < pos + 1 /\ ~EndsBefore(wal, y, pos + 1)
                    /\ FirstOf(wal, sender'.streamed[y], y)
               /\ y \notin DOMAIN sender'.streamed /\ ~EndsBefore(wal, y, pos + 1)
                    => sender'.sent[y] = 0
    <3>1. CASE y \in DOMAIN sender'.streamed
      <4>1. y \in DOMAIN sender.streamed /\ sender'.streamed[y] = sender.streamed[y]
        BY <1>1, <1>4, <3>1
      <4>2. sender.sent[y] < pos /\ ~EndsBefore(wal, y, pos) /\ FirstOf(wal, sender.streamed[y], y)
        BY <2>1, <4>1 DEF SenderLaw
      <4>3. sender.sent[y] \in Nat
        BY <1>4
      <4>. QED BY <1>1, <1>4, <1>6, <3>1, <4>1, <4>2, <4>3
    <3>2. CASE y \notin DOMAIN sender'.streamed /\ ~EndsBefore(wal, y, pos + 1)
      <4>1. ~EndsBefore(wal, y, pos) /\ y \notin DOMAIN sender.streamed
        BY <1>2, <1>4, <1>6, <3>2
      <4>. QED BY <1>1, <2>1, <3>2, <4>1 DEF SenderLaw
    <3>. QED BY <3>1, <3>2
  <2>. QED BY <1>1, <2>2 DEF SenderLaw
<1>9. SegmentLaw(wal, txns, sender', segment')
  <2>1. CASE segment' = NoSegment
    BY <2>1 DEF SegmentLaw
  <2>2. CASE /\ r.op = "commit" /\ x \in Xids
             /\ segment' = [xid |-> x, start |-> start, events |-> q, streaming |-> streaming,
                            end |-> [kind |-> "commit", lsn |-> pos]]
    <3>. DEFINE e == segment'.events
    <3>1. /\ e = q /\ segment'.xid = x /\ segment'.start = start
          /\ segment'.end.kind = "commit"
      BY <2>2
    <3>2. FirstOf(wal, start, x)
      BY <1>7, <2>2 DEF IsSent, start, streaming
    <3>. HIDE DEF e
    <3>3. /\ \A k \in 1 .. Len(e) : \A i \in Writes(wal, x) :
               i < e[k].lsn => Logged(txns, x, i) \/ \E j \in 1 .. Len(e) : j < k /\ e[j].lsn = i
          /\ \A j, k \in 1 .. Len(e) : j < k => e[j].lsn < e[k].lsn
      BY <1>7, <2>2, <3>1 DEF IsSent
    <3>4. \A i \in Writes(wal, x) : Logged(txns, x, i) \/ \E k \in 1 .. Len(e) : e[k].lsn = i
      BY <1>7, <2>2, <3>1 DEF IsSent
    <3>5. \A i \in Writes(wal, x) : Logged(txns, x, i) \/ InFrames(segment', x, i)
      <4>1. segment' # NoSegment
        BY <2>2 DEF NoSegment
      <4>. QED BY <3>1, <3>4, <4>1 DEF InFrames, e
    <3>. QED BY <3>1, <3>2, <3>3, <3>5 DEF SegmentLaw, e
  <2>3. CASE /\ r.op = "abort" /\ x \in Streamed
             /\ segment' = [xid |-> x, start |-> sender.streamed[x],
                            events |-> <<>>, streaming |-> TRUE, end |-> segment'.end]
             /\ segment'.end = [kind |-> "abort", lsn |-> pos]
    <3>1. /\ segment'.events = <<>> /\ segment'.xid = x /\ segment'.start = sender.streamed[x]
          /\ segment'.end.kind = "abort" /\ segment'.end.lsn = pos
      BY <2>3
    <3>2. FirstOf(wal, sender.streamed[x], x)
      BY <1>4, <2>3 DEF StageInv, SenderLaw
    <3>3. AbortAt(wal, pos, x)
      BY <1>5, <2>3
    <3>. QED BY <3>1, <3>2, <3>3 DEF SegmentLaw
  <2>. QED BY <1>1, <1>3, <2>1, <2>2, <2>3
<1>10. StreamedLaw(wal, txns, sender', segment')
  <2>1. SUFFICES ASSUME NEW y \in DOMAIN sender'.streamed, Live(wal, y),
                        NEW i \in Writes(wal, y), i <= sender'.sent[y]
                 PROVE  Logged(txns, y, i)
    BY DEF StreamedLaw
  <2>2. y \in DOMAIN sender.streamed /\ ~InFrames(segment, y, i)
    BY <1>1, <1>4 DEF InFrames
  <2>. QED BY <1>1, <2>1, <2>2 DEF StageInv, StreamedLaw
<1>11. ReceivedLaw(wal, sender', segment', up, persisted)
  <2>1. SUFFICES ASSUME NEW c \in 1 .. Len(wal), wal[c].op = "commit", c < pos + 1
                 PROVE  \/ c < persisted
                        \/ segment' # NoSegment /\ segment'.end = [kind |-> "commit", lsn |-> c]
    BY <1>1 DEF ReceivedLaw
  <2>2. CASE c < pos
    BY <1>1, <2>1, <2>2 DEF StageInv, ReceivedLaw
  <2>3. CASE c = pos
    <3>1. r.op = "commit" /\ x \in Xids
      BY <1>1, <2>1, <2>3 DEF WalRecord, r
    <3>2. segment' # NoSegment
      <4>1. SUFFICES ASSUME ~streaming, q = <<>> PROVE FALSE
        BY <1>1, <3>1 DEF NoSegment
      <4>. QED BY <1>7, <3>1, <4>1
    <3>. QED BY <1>1, <2>3, <3>1, <3>2
  <2>. QED BY <1>4, <2>1, <2>2, <2>3
<1>. QED BY <1>1, <1>8, <1>9, <1>10, <1>11 DEF StageInv

\* What is fresh of a batch that is not refused is its tail.
LEMMA FreshSuffix ==
    ASSUME NEW h, NEW b, NEW E, b.events \in Seq(E), ~NotAPrefix(h, b)
    PROVE  LET c == Cardinality(Fresh(h, b))
               m == Len(b.events)
           IN /\ c \in Nat /\ m \in Nat /\ c <= m
              /\ \A k \in 1 .. m : k \in Fresh(h, b) <=> k > m - c
<1>. DEFINE F == Fresh(h, b)
            c == Cardinality(F)
            m == Len(b.events)
<1>1. c \in Nat /\ c <= m /\ (F # {} => c # 0)
  BY FreshFacts
<1>2. m \in Nat /\ DOMAIN b.events = 1 .. m
  OBVIOUS
<1>3. F \subseteq 1 .. m
  BY <1>2 DEF Fresh
<1>4. \A k \in F : \A j \in (1 .. m) \ F : ~(k < j)
  BY <1>2 DEF NotAPrefix
<1>5. F = {} => c = 0
  BY FS_EmptySet
<1>. HIDE DEF F, m
<1>6. \A k \in 1 .. m : k \in F <=> k > m - c
  <2>1. CASE F = {}
    <3>. HIDE DEF c
    <3>. QED BY <1>1, <1>2, <1>5, <2>1
  <2>2. CASE F # {}
    <3>1. F \in SUBSET Nat
      BY <1>2, <1>3
    <3>2. PICK k0 \in F : \A k \in F : k0 <= k
      BY <2>2, <3>1, MinOfNats
    <3>3. k0 \in 1 .. m
      BY <1>3
    <3>4. F = k0 .. m
      <4>1. \A k \in F : k \in k0 .. m
        BY <1>2, <1>3, <3>2, <3>3
      <4>2. ASSUME NEW k \in k0 .. m, k \notin F PROVE FALSE
        <5>1. k \in (1 .. m) \ F /\ k0 < k
          BY <1>2, <3>2, <3>3, <4>2
        <5>. QED BY <1>4, <5>1
      <4>. QED BY <4>1, <4>2
    <3>5. Cardinality(k0 .. m) = m - k0 + 1
      <4>1. k0 \in Int /\ m \in Int /\ ~(k0 > m)
        BY <1>2, <3>3
      <4>. QED BY <4>1, FS_Interval
    <3>6. c = m - k0 + 1
      BY <3>4, <3>5
    <3>. HIDE DEF c
    <3>. QED BY <1>2, <3>3, <3>4, <3>6
  <2>. QED BY <2>1, <2>2
<1>. QED BY <1>1, <1>2, <1>6 DEF F, m

\* be are the events of a batch of x, of which the last c are new, h its header
\* before and a after admission.
Admits(w, x, h, a, be, c, m) ==
    LET n == Len(h.log) IN
    /\ n \in Nat /\ c \in Nat /\ m \in Nat /\ c <= m /\ Len(a.log) = n + c
    /\ \A k \in 1 .. n : a.log[k] = h.log[k]
    /\ \A k \in 1 .. c : a.log[n + k] = be[m - c + k]
    /\ \A k \in 1 .. m : ~Has(h, be[k].lsn) <=> k > m - c
    /\ \A k \in 1 .. n : h.log[k].lsn \in Writes(w, x)
    /\ \A k \in 1 .. m : be[k].lsn \in Writes(w, x)
    /\ \A j, k \in 1 .. m : j < k => be[j].lsn < be[k].lsn

\* a has what h has and what the batch brings, and what is new lies behind it.
LEMMA AdmitOrder ==
    ASSUME NEW w, NEW x, NEW h, NEW a, NEW be, NEW c, NEW m, Admits(w, x, h, a, be, c, m)
    PROVE  /\ \A i : Has(a, i) <=> Has(h, i) \/ \E k \in 1 .. m : be[k].lsn = i
           /\ /\ InOrder(w, x, h)
              /\ \A k \in 1 .. m : \A i \in Writes(w, x) :
                   i < be[k].lsn => Has(h, i) \/ \E j \in 1 .. m : be[j].lsn = i
              => InOrder(w, x, a)
<1>. DEFINE n == Len(h.log)
<1>1. /\ n \in Nat /\ c \in Nat /\ m \in Nat /\ c <= m /\ Len(a.log) = n + c
      /\ \A k \in 1 .. n : a.log[k] = h.log[k]
      /\ \A k \in 1 .. c : a.log[n + k] = be[m - c + k]
      /\ \A k \in 1 .. m : ~Has(h, be[k].lsn) <=> k > m - c
      /\ \A k \in 1 .. n : h.log[k].lsn \in Writes(w, x)
      /\ \A k \in 1 .. m : be[k].lsn \in Writes(w, x)
      /\ \A j, k \in 1 .. m : j < k => be[j].lsn < be[k].lsn
  BY DEF Admits
<1>2. \A i : Has(h, i) <=> \E k \in 1 .. n : h.log[k].lsn = i
  BY DEF Has
<1>3. \A i : Has(a, i) <=> \E k \in 1 .. n + c : a.log[k].lsn = i
  BY <1>1 DEF Has
<1>. HIDE DEF n
<1>5. \A k \in 1 .. n + c : k \in 1 .. n \/ (k - n \in 1 .. c /\ k = n + (k - n))
  BY <1>1
<1>6. \A k \in 1 .. c : /\ m - c + k \in 1 .. m /\ m - c + k > m - c
                        /\ a.log[n + k] = be[m - c + k]
                        /\ n + k \in 1 .. n + c
  BY <1>1
<1>7. \A k \in 1 .. n : k \in 1 .. n + c /\ a.log[k] = h.log[k]
  BY <1>1
<1>8. ASSUME NEW k \in 1 .. m, k > m - c
      PROVE  \E j \in 1 .. n + c : a.log[j] = be[k]
  <2>. DEFINE l == k - (m - c)
  <2>1. l \in 1 .. c /\ m - c + l = k
    BY <1>1, <1>8
  <2>. HIDE DEF l
  <2>2. n + l \in 1 .. n + c /\ a.log[n + l] = be[k]
    BY <1>6, <2>1
  <2>. QED BY <2>2
<1>9. ASSUME NEW i PROVE Has(a, i) <=> Has(h, i) \/ \E k \in 1 .. m : be[k].lsn = i
  <2>1. ASSUME Has(a, i) PROVE Has(h, i) \/ \E k \in 1 .. m : be[k].lsn = i
    <3>1. PICK k \in 1 .. n + c : a.log[k].lsn = i
      BY <1>3, <2>1
    <3>2. CASE k \in 1 .. n
      BY <1>2, <1>7, <3>1, <3>2
    <3>3. CASE k - n \in 1 .. c /\ k = n + (k - n)
      BY <1>6, <3>1, <3>3
    <3>. QED BY <1>5, <3>2, <3>3
  <2>2. ASSUME Has(h, i) PROVE Has(a, i)
    BY <1>2, <1>3, <1>7, <2>2
  <2>3. ASSUME NEW k \in 1 .. m, be[k].lsn = i PROVE Has(a, i)
    <3>1. CASE k > m - c
      BY <1>3, <1>8, <2>3, <3>1
    <3>2. CASE ~(k > m - c)
      BY <1>1, <2>2, <2>3, <3>2
    <3>. QED BY <3>1, <3>2
  <2>. QED BY <2>1, <2>2, <2>3
<1>11. ASSUME \A j, k \in 1 .. n : j < k => h.log[j].lsn < h.log[k].lsn,
              \A k \in 1 .. n : \A i \in Writes(w, x) : i < h.log[k].lsn => Has(h, i),
              \A k \in 1 .. m : \A i \in Writes(w, x) :
                 i < be[k].lsn => Has(h, i) \/ \E j \in 1 .. m : be[j].lsn = i
       PROVE  /\ \A j, k \in 1 .. n + c : j < k => a.log[j].lsn < a.log[k].lsn
              /\ \A k \in 1 .. n + c : \A i \in Writes(w, x) : i < a.log[k].lsn => Has(a, i)
  <2>1. ASSUME NEW j \in 1 .. n + c, NEW k \in 1 .. n + c, j < k
        PROVE  a.log[j].lsn < a.log[k].lsn
    <3>1. CASE k \in 1 .. n
      <4>1. j \in 1 .. n
        BY <1>1, <2>1, <3>1
      <4>. QED BY <1>7, <1>11, <2>1, <3>1, <4>1
    <3>2. CASE k - n \in 1 .. c /\ k = n + (k - n)
      <4>0. PICK l \in 1 .. m : l = m - c + (k - n)
        BY <1>1, <1>6, <3>2
      <4>1. a.log[k] = be[l] /\ ~Has(h, be[l].lsn)
        BY <1>1, <1>6, <3>2, <4>0
      <4>2. be[l].lsn \in Writes(w, x) /\ be[l].lsn \in Nat
        BY <1>1 DEF Writes
      <4>3. CASE j \in 1 .. n
        <5>1. h.log[j].lsn \in Nat /\ a.log[j] = h.log[j] /\ Has(h, h.log[j].lsn)
          BY <1>1, <1>2, <1>7, <4>3 DEF Writes
        <5>2. ~(be[l].lsn < h.log[j].lsn) /\ be[l].lsn # h.log[j].lsn
          BY <1>11, <4>1, <4>2, <4>3, <5>1
        <5>. QED BY <4>1, <4>2, <5>1, <5>2
      <4>4. CASE j - n \in 1 .. c /\ j = n + (j - n)
        <5>1. PICK q \in 1 .. m : q = m - c + (j - n)
          BY <1>6, <4>4
        <5>2. a.log[j] = be[q]
          BY <1>6, <4>4, <5>1
        <5>3. q < l
          BY <1>1, <2>1, <4>0, <5>1
        <5>. QED BY <1>1, <4>1, <5>2, <5>3
      <4>. QED BY <1>5, <4>3, <4>4
    <3>. QED BY <1>5, <3>1, <3>2
  <2>2. ASSUME NEW k \in 1 .. n + c, NEW i \in Writes(w, x), i < a.log[k].lsn
        PROVE  Has(a, i)
    <3>1. CASE k \in 1 .. n
      BY <1>7, <1>9, <1>11, <2>2, <3>1
    <3>2. CASE k - n \in 1 .. c /\ k = n + (k - n)
      <4>1. PICK l \in 1 .. m : l = m - c + (k - n)
        BY <1>6, <3>2
      <4>2. a.log[k] = be[l]
        BY <1>6, <3>2, <4>1
      <4>. QED BY <1>9, <1>11, <2>2, <4>2
    <3>. QED BY <1>5, <3>1, <3>2
  <2>. QED BY <2>1, <2>2
<1>12. Len(h.log) = n /\ Len(a.log) = n + c
  BY <1>1 DEF n
<1>. QED BY <1>9, <1>11, <1>12 DEF InOrder
-----------------------------------------------------------------------------
\* A batch takes m rows off the segment; c of them are new to the header h of
\* its transaction, which becomes f.
IsIngested(h, f, c, m) ==
    LET id == [xid |-> segment.xid, start |-> segment.start]
        e == segment.events
        n == Len(h.log)
        ends == ReachesEnd /\ h.status = "open"
    IN /\ segment \in Segment /\ id \in Id(Len(wal))
       /\ h = IF id \in DOMAIN txns THEN txns[id] ELSE NewHeader
       /\ txns' = [i \in DOMAIN txns \cup {id} |-> IF i = id THEN f ELSE txns[i]]
       /\ HeaderOK(h, Len(wal)) /\ HeaderOK(f, Len(wal))
       /\ n \in Nat /\ c \in Nat /\ m \in Nat /\ c <= m /\ m <= Len(e) /\ m = TakenRows
       /\ Len(f.log) = n + c /\ (c # 0 => h.status = "open")
       /\ \A k \in 1 .. n : f.log[k] = h.log[k]
       /\ \A k \in 1 .. c : f.log[n + k] = e[m - c + k]
       /\ \A k \in 1 .. m : ~Has(h, e[k].lsn) <=> k > m - c
       /\ h.tasks \subseteq f.tasks
       /\ \A t \in f.tasks \ h.tasks :
            /\ t.batch = h.batches + 1 /\ t.next > n /\ t.last = Len(f.log)
            /\ \A k \in n + 1 .. Len(f.log) : f.log[k].source = t.source => t.next <= k
       /\ \A k \in n + 1 .. Len(f.log) :
            \E t \in f.tasks : t.source = f.log[k].source /\ t.batch = h.batches + 1
       /\ ends /\ segment.end.kind = "commit" =>
            /\ f.status = "committed" /\ f.final = segment.end.lsn
            /\ f.end = segment.end.lsn + 1
       /\ ends /\ segment.end.kind = "abort" =>
            f.status = "aborted" /\ f.final = segment.end.lsn /\ f.end = segment.end.lsn
       /\ ~(ends /\ segment.end.kind \in {"commit", "abort"}) =>
            f.status = h.status /\ f.final = h.final /\ f.end = h.end

\* Where a header ends, once it is sealed.
LEMMA FinalizedEnd ==
    ASSUME NEW n \in Nat, NEW h \in Header(n), NEW batch
    PROVE  LET f == Finalized(h, batch) IN
           /\ h.status = "open" /\ batch.end.kind = "commit" => f.end = batch.end.lsn + 1
           /\ h.status = "open" /\ batch.end.kind = "abort" => f.end = batch.end.lsn
           /\ ~(h.status = "open" /\ batch.end.kind \in {"commit", "abort"}) => f.end = h.end
BY DEF Finalized, Header

\* write_batch leaves a header that has admitted the fresh rows of the batch
\* and, at the end of a transaction, finalized it.
LEMMA Ingested ==
    ASSUME SessionInv, TxnsInv, IngressAssumption, IngestBatch
    PROVE  \E h, f : \E c, m \in Nat : IsIngested(h, f, c, m)
<1>. DEFINE b == NextBatch
            h == ClaimedHeader(b)
            a == Admitted(h, b)
            f == Finalized(a, b)
            n == Len(wal)
            fresh == Fresh(h, b)
            c == Cardinality(fresh)
            m == TakenRows
            e == segment.events
            l == Len(h.log)
<1>1. /\ segment \in Segment /\ b.events \in Seq(EventAt(n))
      /\ HeaderId(b) \in Id(n) /\ HeaderOK(h, n) /\ HeaderOK(a, n) /\ HeaderOK(f, n)
      /\ fresh = {} \/ (h.status = "open" /\ ~OverStagingLimit(h, b))
      /\ a.status = h.status /\ f.log = a.log /\ f.tasks = a.tasks
      /\ ~NotAPrefix(h, b)
      /\ txns' = PutHeader(HeaderId(b), f)
      /\ \/ b.end = NoBoundary
         \/ b.end \in [kind : {"commit", "abort"}, lsn : 1 .. n]
         \/ b.end \in [kind : {"rollback"}, sub : Subs]
  BY IngestFacts, Zenon DEF TxnsInv
<1>2. /\ b.xid = segment.xid /\ b.start = segment.start
      /\ Len(b.events) = m /\ m \in Nat /\ m <= Len(e)
      /\ \A k \in 1 .. m : b.events[k] = e[k]
      /\ b.end = IF ReachesEnd THEN segment.end ELSE NoBoundary
  BY <1>1, BatchFacts
<1>3. n \in Nat
  BY DEF SessionInv, WalOK
<1>4. /\ a.final = h.final /\ a.end = h.end
      /\ Len(a.log) = l + c
      /\ \A k \in 1 .. l : a.log[k] = h.log[k]
      /\ \A k \in 1 .. c : a.log[l + k] = b.events[Len(b.events) - c + k]
      /\ h.tasks \subseteq a.tasks
      /\ \A t \in a.tasks \ h.tasks :
           /\ t.batch = h.batches + 1 /\ t.next > l /\ t.last = Len(a.log)
           /\ \A k \in l + 1 .. Len(a.log) : a.log[k].source = t.source => t.next <= k
      /\ \A k \in l + 1 .. Len(a.log) :
           \E t \in a.tasks : t.source = a.log[k].source /\ t.batch = h.batches + 1
  <2>. HIDE DEF b, h, n
  <2>1. /\ a.final = h.final /\ a.end = h.end
        /\ Len(a.log) = l + c
        /\ \A k \in 1 .. l : a.log[k] = h.log[k]
        /\ h.tasks \subseteq a.tasks
    BY <1>1, <1>3, AdmittedFacts
  <2>2. \A k \in 1 .. c : a.log[l + k] = b.events[Len(b.events) - c + k]
    BY <1>1, <1>3, AdmittedFacts
  <2>3. \A t \in a.tasks \ h.tasks :
          /\ t.batch = h.batches + 1 /\ t.next > l /\ t.last = Len(a.log)
          /\ \A k \in l + 1 .. Len(a.log) : a.log[k].source = t.source => t.next <= k
    BY <1>1, <1>3, AdmittedFacts
  <2>4. \A k \in l + 1 .. Len(a.log) :
          \E t \in a.tasks : t.source = a.log[k].source /\ t.batch = h.batches + 1
    BY <1>1, <1>3, AdmittedFacts
  <2>. QED BY <2>1, <2>2, <2>3, <2>4
<1>5. /\ a.status = "open" /\ b.end.kind = "commit" => f.status = "committed" /\ f.final = b.end.lsn
      /\ a.status = "open" /\ b.end.kind = "abort" => f.status = "aborted" /\ f.final = b.end.lsn
      /\ ~(a.status = "open" /\ b.end.kind \in {"commit", "abort"}) =>
           f.status = a.status /\ f.final = a.final
  <2>. HIDE DEF a, b, h, n
  <2>. QED BY <1>1, <1>3, FinalizedFacts
<1>6. /\ a.status = "open" /\ b.end.kind = "commit" => f.end = b.end.lsn + 1
      /\ a.status = "open" /\ b.end.kind = "abort" => f.end = b.end.lsn
      /\ ~(a.status = "open" /\ b.end.kind \in {"commit", "abort"}) => f.end = a.end
  BY <1>1, <1>3, FinalizedEnd, Zenon DEF HeaderOK
<1>7. /\ c \in Nat /\ c <= Len(b.events)
      /\ \A k \in 1 .. Len(b.events) : k \in fresh <=> k > Len(b.events) - c
  BY <1>1, FreshSuffix, Zenon
<1>8. fresh = {} => c = 0
  BY FS_EmptySet
<1>9. \A k \in 1 .. m : k \in fresh <=> ~Has(h, b.events[k].lsn)
  <2>1. DOMAIN b.events = 1 .. Len(b.events)
    BY <1>1
  <2>2. DOMAIN h.log = 1 .. Len(h.log)
    <3>1. h.log \in Seq(EventAt(n))
      BY <1>1 DEF HeaderOK, Header
    <3>. HIDE DEF h
    <3>. QED BY <3>1
  <2>. HIDE DEF h
  <2>. QED BY <1>2, <2>1, <2>2 DEF Fresh, LoggedLsns, Has
<1>10. HeaderId(b) = [xid |-> segment.xid, start |-> segment.start]
  BY <1>2 DEF HeaderId
<1>11. l \in Nat
  <2>1. h.log \in Seq(EventAt(n))
    BY <1>1 DEF HeaderOK, Header
  <2>. HIDE DEF h
  <2>. QED BY <2>1
<1>12. h = IF HeaderId(b) \in DOMAIN txns THEN txns[HeaderId(b)] ELSE NewHeader
  BY DEF ClaimedHeader
<1>. HIDE DEF b, h, a, f, n, fresh, c, m, e, l
<1>13. IsIngested(h, f, c, m)
  <2>. DEFINE id == [xid |-> segment.xid, start |-> segment.start]
              ends == ReachesEnd /\ h.status = "open"
  <2>1. /\ segment \in Segment /\ id \in Id(n)
        /\ h = IF id \in DOMAIN txns THEN txns[id] ELSE NewHeader
        /\ txns' = [i \in DOMAIN txns \cup {id} |-> IF i = id THEN f ELSE txns[i]]
        /\ HeaderOK(h, n) /\ HeaderOK(f, n)
    BY <1>1, <1>10, <1>12 DEF PutHeader
  <2>2. /\ l \in Nat /\ c \in Nat /\ m \in Nat /\ c <= m /\ m <= Len(e)
        /\ Len(f.log) = l + c /\ (c # 0 => h.status = "open")
        /\ \A k \in 1 .. l : f.log[k] = h.log[k]
        /\ h.tasks \subseteq f.tasks
    BY <1>1, <1>2, <1>4, <1>7, <1>8, <1>11
  <2>3. \A k \in 1 .. c : f.log[l + k] = e[m - c + k]
    <3>1. SUFFICES ASSUME NEW k \in 1 .. c PROVE f.log[l + k] = e[m - c + k]
      OBVIOUS
    <3>2. m - c + k \in 1 .. m
      BY <2>2
    <3>. QED BY <1>1, <1>2, <1>4, <3>2
  <2>4. \A k \in 1 .. m : ~Has(h, e[k].lsn) <=> k > m - c
    BY <1>2, <1>7, <1>9
  <2>5. /\ \A t \in f.tasks \ h.tasks :
             /\ t.batch = h.batches + 1 /\ t.next > l /\ t.last = Len(f.log)
             /\ \A k \in l + 1 .. Len(f.log) : f.log[k].source = t.source => t.next <= k
        /\ \A k \in l + 1 .. Len(f.log) :
             \E t \in f.tasks : t.source = f.log[k].source /\ t.batch = h.batches + 1
    <3>1. f.log = a.log /\ f.tasks = a.tasks
      BY <1>1
    <3>. QED BY <1>4, <3>1
  <2>6. /\ ends /\ segment.end.kind = "commit" =>
             /\ f.status = "committed" /\ f.final = segment.end.lsn
             /\ f.end = segment.end.lsn + 1
        /\ ends /\ segment.end.kind = "abort" =>
             f.status = "aborted" /\ f.final = segment.end.lsn /\ f.end = segment.end.lsn
        /\ ~(ends /\ segment.end.kind \in {"commit", "abort"}) =>
             f.status = h.status /\ f.final = h.final /\ f.end = h.end
    <3>1. CASE ReachesEnd
      <4>1. b.end = segment.end
        BY <1>2, <3>1
      <4>. QED BY <1>1, <1>4, <1>5, <1>6, <3>1, <4>1
    <3>2. CASE ~ReachesEnd
      <4>1. b.end.kind = "none"
        BY <1>2, <3>2 DEF NoBoundary
      <4>. QED BY <1>1, <1>4, <1>5, <1>6, <3>2, <4>1
    <3>. QED BY <3>1, <3>2
  <2>. QED BY <2>1, <2>2, <2>3, <2>4, <2>5, <2>6 DEF IsIngested, n, e, l, m
<1>14. c \in Nat /\ m \in Nat
  BY <1>2, <1>7
<1>. QED BY <1>13, <1>14

\* What a batch takes off the segment, and how it moves durable progress.
LEMMA IngestProgress ==
    ASSUME SessionInv, IngressAssumption, IngestBatch
    PROVE  /\ up /\ segment # NoSegment /\ segment \in Segment
           /\ segment' = RestOfSegment
           /\ UNCHANGED <<wal, sender, up, published, effects, activation>>
           /\ persisted \in Nat /\ persisted' \in Nat /\ persisted' >= persisted
           /\ ReachesEnd => TakenRows = Len(segment.events)
           /\ ReachesEnd \/ (TakenRows = Len(segment.events) /\ segment.end = NoBoundary)
                <=> RestOfSegment = NoSegment
           /\ \/ persisted' = persisted /\ ~(ReachesEnd /\ segment.end.kind = "commit")
              \/ /\ ReachesEnd /\ segment.end.kind = "commit"
                 /\ persisted <= segment.end.lsn /\ persisted' = segment.end.lsn + 1
<1>1. /\ up /\ segment # NoSegment
      /\ persisted' = PersistedAfter(NextBatch) /\ segment' = RestOfSegment
      /\ UNCHANGED <<wal, sender, up, published, effects, activation>>
  BY DEF IngestBatch, streamVars
<1>2. segment \in Segment /\ segment.end \in Boundary /\ segment.events \in Seq(Event)
  BY <1>1 DEF SessionInv, SegmentOK, Segment
<1>3. persisted \in Nat /\ persisted' >= persisted
  BY SessionIngest DEF SessionInv, ScalarsOK, Lsn, WalOK
<1>4. \/ persisted' = persisted /\ ~(ReachesEnd /\ segment.end.kind = "commit")
      \/ /\ ReachesEnd /\ segment.end.kind = "commit"
         /\ persisted <= segment.end.lsn /\ persisted' = segment.end.lsn + 1
         /\ persisted' \in Nat
  <2>1. NextBatch.end = IF ReachesEnd THEN segment.end ELSE NoBoundary
    BY <1>2, BatchFacts
  <2>2. CASE NextBatch.end.kind = "commit"
    <3>1. ReachesEnd /\ NextBatch.end = segment.end
      BY <2>1, <2>2 DEF NoBoundary
    <3>2. segment.end.lsn \in Positions
      BY <1>2, <2>2, <3>1 DEF Boundary
    <3>3. persisted <= segment.end.lsn
      BY <1>1, <2>2, <3>1 DEF SessionInv, SessionOK
    <3>. QED BY <1>1, <1>3, <2>2, <3>1, <3>2, <3>3 DEF PersistedAfter, Larger, Positions
  <2>3. CASE NextBatch.end.kind # "commit"
    BY <1>1, <2>1, <2>3 DEF PersistedAfter
  <2>. QED BY <2>2, <2>3
<1>5. ReachesEnd => TakenRows = Len(segment.events)
  BY <1>2, BatchFacts
<1>6. ReachesEnd \/ (TakenRows = Len(segment.events) /\ segment.end = NoBoundary)
        <=> RestOfSegment = NoSegment
  <2>. DEFINE rest == SubSeq(segment.events, TakenRows + 1, Len(segment.events))
              l == Len(segment.events)
  <2>1. l \in Nat /\ TakenRows \in Nat /\ TakenRows <= l
    BY <1>2, BatchFacts
  <2>2. Len(rest) = l - TakenRows /\ rest \in Seq(Event)
    BY <1>2, <2>1
  <2>3. rest = <<>> <=> TakenRows = l
    <3>1. rest = <<>> <=> Len(rest) = 0
      <4>. HIDE DEF rest
      <4>. QED BY <2>2
    <3>. HIDE DEF rest, l
    <3>. QED BY <2>1, <2>2, <3>1
  <2>. HIDE DEF rest
  <2>4. [segment EXCEPT !.events = rest] # NoSegment
    <3>1. [segment EXCEPT !.events = rest].xid = segment.xid /\ segment.xid \in Xids
      BY <1>2 DEF Segment
    <3>2. "events" \in DOMAIN [segment EXCEPT !.events = rest]
      BY <1>2 DEF Segment
    <3>3. "events" \notin DOMAIN NoSegment
      BY DEF NoSegment
    <3>. QED BY <3>2, <3>3
  <2>. QED BY <2>3, <2>4 DEF RestOfSegment, rest
<1>. QED BY <1>1, <1>2, <1>3, <1>4, <1>5, <1>6

\* How a batch moves rows from the frames to the change log of its header.
LEMMA IngestLogged ==
    ASSUME SessionInv, TxnsInv, RowInv, StageInv, IngressAssumption, IngestBatch,
           NEW h, NEW f, NEW c \in Nat, NEW m \in Nat, IsIngested(h, f, c, m)
    PROVE  LET x == segment.xid
               id == [xid |-> x, start |-> segment.start]
               e == segment.events
           IN /\ \A i : Logged(txns, x, i) <=> Has(h, i)
              /\ \A i : Has(f, i) <=> Has(h, i) \/ \E k \in 1 .. m : e[k].lsn = i
              /\ \A y, i : Logged(txns, y, i) => Logged(txns', y, i)
              /\ \A k \in 1 .. m : Logged(txns', x, e[k].lsn)
              /\ \A k \in 1 .. Len(f.log) : f.log[k].lsn \in Writes(wal, x)
              /\ Live(wal, x) => InOrder(wal, x, f)
<1>. DEFINE x == segment.xid
            id == [xid |-> x, start |-> segment.start]
            e == segment.events
            n == Len(h.log)
<1>1. segment # NoSegment /\ segment \in Segment /\ WalOK /\ Len(wal) \in Nat
  BY IngestProgress DEF SessionInv, WalOK
<1>2. /\ FirstOf(wal, segment.start, x)
      /\ \A j, k \in 1 .. Len(e) : j < k => e[j].lsn < e[k].lsn
      /\ Live(wal, x) => \A k \in 1 .. Len(e) : \A i \in Writes(wal, x) :
           i < e[k].lsn => Logged(txns, x, i) \/ \E j \in 1 .. Len(e) : j < k /\ e[j].lsn = i
  BY <1>1 DEF StageInv, SegmentLaw
<1>3. /\ h = IF id \in DOMAIN txns THEN txns[id] ELSE NewHeader
      /\ txns' = [i \in DOMAIN txns \cup {id} |-> IF i = id THEN f ELSE txns[i]]
      /\ n \in Nat /\ c <= m /\ m <= Len(e) /\ Len(f.log) = n + c
      /\ \A k \in 1 .. n : f.log[k] = h.log[k]
      /\ \A k \in 1 .. c : f.log[n + k] = e[m - c + k]
      /\ \A k \in 1 .. m : ~Has(h, e[k].lsn) <=> k > m - c
  BY DEF IsIngested
<1>4. /\ \A k \in 1 .. Len(e) : e[k].lsn \in Writes(wal, x)
      /\ \A k \in 1 .. n : h.log[k].lsn \in Writes(wal, x)
  <2>1. \A k \in 1 .. Len(e) : IsRow(e[k].lsn, x, e[k].source)
    BY <1>1 DEF RowInv, SegmentRows
  <2>2. \A k \in 1 .. n : IsRow(h.log[k].lsn, x, h.log[k].source)
    <3>1. CASE id \in DOMAIN txns
      <4>1. h = txns[id] /\ id.xid = x
        BY <1>3, <3>1
      <4>. HIDE DEF id
      <4>. QED BY <3>1, <4>1 DEF RowInv, HeaderRows
    <3>2. CASE id \notin DOMAIN txns
      BY <1>3, <3>2 DEF NewHeader
    <3>. QED BY <3>1, <3>2
  <2>3. \A i, s : IsRow(i, x, s) => i \in Writes(wal, x)
    BY DEF IsRow, Writes, Positions
  <2>. HIDE DEF x, n, e
  <2>. QED BY <2>1, <2>2, <2>3
<1>5. Len(e) \in Nat /\ segment.start \in Nat
  BY <1>1 DEF Segment, Positions
<1>6. ASSUME NEW i PROVE Logged(txns, x, i) <=> Has(h, i)
  <2>1. ASSUME Logged(txns, x, i) PROVE Has(h, i)
    <3>1. PICK z \in DOMAIN txns : z.xid = x /\ Has(txns[z], i)
      BY <2>1 DEF Logged
    <3>2. FirstOf(wal, z.start, x)
      BY <3>1 DEF StageInv, HeadersLaw, HeaderLaw
    <3>3. z.start = segment.start
      BY <1>2, <1>5, <3>2 DEF FirstOf, Writes
    <3>4. z \in Id(Len(wal))
      BY DEF TxnsInv, TxnsOK
    <3>5. z = id
      BY <3>1, <3>3, <3>4 DEF Id
    <3>. QED BY <1>3, <3>1, <3>5
  <2>2. ASSUME Has(h, i) PROVE Logged(txns, x, i)
    <3>1. id \in DOMAIN txns
      BY <1>3, <2>2 DEF NewHeader, Has
    <3>2. id.xid = x
      OBVIOUS
    <3>. QED BY <1>3, <2>2, <3>1, <3>2 DEF Logged
  <2>. QED BY <2>1, <2>2
<1>. HIDE DEF x, e
<1>7. /\ \A i : Has(f, i) <=> Has(h, i) \/ \E k \in 1 .. m : e[k].lsn = i
      /\ /\ InOrder(wal, x, h)
         /\ \A k \in 1 .. m : \A i \in Writes(wal, x) :
              i < e[k].lsn => Has(h, i) \/ \E j \in 1 .. m : e[j].lsn = i
         => InOrder(wal, x, f)
  <2>1. \A k \in 1 .. m : k \in 1 .. Len(e)
    BY <1>3, <1>5
  <2>2. Admits(wal, x, h, f, e, c, m)
    BY <1>2, <1>3, <1>4, <2>1 DEF Admits
  <2>. QED BY <2>2, AdmitOrder
<1>8. ASSUME NEW y, NEW i, Logged(txns, y, i) PROVE Logged(txns', y, i)
  <2>1. PICK z \in DOMAIN txns : z.xid = y /\ Has(txns[z], i)
    BY <1>8 DEF Logged
  <2>2. Has(txns'[z], i) /\ z \in DOMAIN txns'
    <3>1. CASE z = id
      BY <1>3, <1>7, <2>1, <3>1
    <3>2. CASE z # id
      BY <1>3, <2>1, <3>2
    <3>. QED BY <3>1, <3>2
  <2>. QED BY <2>1, <2>2 DEF Logged
<1>9. ASSUME NEW k \in 1 .. m PROVE Logged(txns', x, e[k].lsn)
  <2>1. id.xid = x /\ id \in DOMAIN txns' /\ txns'[id] = f
    BY <1>3
  <2>2. Has(f, e[k].lsn)
    BY <1>7
  <2>. HIDE DEF id
  <2>. QED BY <2>1, <2>2 DEF Logged
<1>10. ASSUME NEW k \in 1 .. Len(f.log) PROVE f.log[k].lsn \in Writes(wal, x)
  <2>1. Has(f, f.log[k].lsn)
    BY DEF Has
  <2>2. CASE Has(h, f.log[k].lsn)
    BY <1>4, <2>2 DEF Has
  <2>3. CASE \E j \in 1 .. m : e[j].lsn = f.log[k].lsn
    <3>1. PICK j \in 1 .. m : e[j].lsn = f.log[k].lsn
      BY <2>3
    <3>2. j \in 1 .. Len(e)
      BY <1>3, <1>5
    <3>. QED BY <1>4, <3>1, <3>2
  <2>. QED BY <1>7, <2>1, <2>2, <2>3
<1>11. ASSUME Live(wal, x) PROVE InOrder(wal, x, f)
  <2>1. InOrder(wal, x, h)
    <3>1. CASE id \in DOMAIN txns
      <4>1. h = txns[id] /\ id.xid = x
        BY <1>3, <3>1
      <4>. HIDE DEF id
      <4>. QED BY <1>11, <3>1, <4>1 DEF StageInv, HeadersLaw, HeaderLaw
    <3>2. CASE id \notin DOMAIN txns
      BY <1>3, <3>2 DEF NewHeader, InOrder
    <3>. QED BY <3>1, <3>2
  <2>2. ASSUME NEW k \in 1 .. m, NEW i \in Writes(wal, x), i < e[k].lsn
        PROVE  Has(h, i) \/ \E j \in 1 .. m : e[j].lsn = i
    <3>1. k \in 1 .. Len(e)
      BY <1>3, <1>5
    <3>2. CASE Logged(txns, x, i)
      BY <1>6, <3>2
    <3>3. ASSUME NEW j \in 1 .. Len(e), j < k, e[j].lsn = i PROVE j \in 1 .. m
      BY <1>3, <1>5, <3>3
    <3>. QED BY <1>2, <1>11, <2>2, <3>1, <3>2, <3>3
  <2>. QED BY <1>7, <2>1, <2>2
<1>. QED BY <1>6, <1>7, <1>8, <1>9, <1>10, <1>11 DEF x, e

\* A batch is persisted.
LEMMA StageIngest ==
    ASSUME Plain, SessionInv, TxnsInv, RowInv, StageInv, NoRestart',
           IngressAssumption, IngestBatch
    PROVE  StageInv'
<1>. DEFINE x == segment.xid
            id == [xid |-> x, start |-> segment.start]
            e == segment.events
<1>0. PICK h, f : \E c, m \in Nat : IsIngested(h, f, c, m)
  BY Ingested
<1>1. PICK c \in Nat, m \in Nat : IsIngested(h, f, c, m)
  BY <1>0
<1>2. /\ \A i : Logged(txns, x, i) <=> Has(h, i)
      /\ \A i : Has(f, i) <=> Has(h, i) \/ \E k \in 1 .. m : e[k].lsn = i
      /\ \A y, i : Logged(txns, y, i) => Logged(txns', y, i)
      /\ \A k \in 1 .. m : Logged(txns', x, e[k].lsn)
      /\ Live(wal, x) => InOrder(wal, x, f)
  BY <1>1, IngestLogged
<1>3. /\ up /\ segment # NoSegment /\ segment \in Segment
      /\ segment' = RestOfSegment
      /\ UNCHANGED <<wal, sender, up>>
      /\ persisted \in Nat /\ persisted' \in Nat /\ persisted' >= persisted
      /\ ReachesEnd => TakenRows = Len(e)
      /\ ReachesEnd \/ (TakenRows = Len(e) /\ segment.end = NoBoundary)
           <=> RestOfSegment = NoSegment
      /\ \/ persisted' = persisted /\ ~(ReachesEnd /\ segment.end.kind = "commit")
         \/ /\ ReachesEnd /\ segment.end.kind = "commit"
            /\ persisted <= segment.end.lsn /\ persisted' = segment.end.lsn + 1
  BY IngestProgress
<1>4. /\ id \in Id(Len(wal))
      /\ h = IF id \in DOMAIN txns THEN txns[id] ELSE NewHeader
      /\ txns' = [i \in DOMAIN txns \cup {id} |-> IF i = id THEN f ELSE txns[i]]
      /\ m <= Len(e) /\ m = TakenRows
      /\ ReachesEnd /\ h.status = "open" /\ segment.end.kind = "commit" =>
            /\ f.status = "committed" /\ f.final = segment.end.lsn
            /\ f.end = segment.end.lsn + 1
      /\ ReachesEnd /\ h.status = "open" /\ segment.end.kind = "abort" =>
           f.status = "aborted" /\ f.final = segment.end.lsn /\ f.end = segment.end.lsn
      /\ ~(ReachesEnd /\ h.status = "open" /\ segment.end.kind \in {"commit", "abort"}) =>
           f.status = h.status /\ f.final = h.final /\ f.end = h.end
  BY <1>1 DEF IsIngested
<1>5. /\ FirstOf(wal, segment.start, x)
      /\ \A j, k \in 1 .. Len(e) : j < k => e[j].lsn < e[k].lsn
      /\ Live(wal, x) => \A k \in 1 .. Len(e) : \A i \in Writes(wal, x) :
           i < e[k].lsn => Logged(txns, x, i) \/ \E j \in 1 .. Len(e) : j < k /\ e[j].lsn = i
      /\ segment.end.kind = "none" => x \in DOMAIN sender.streamed
      /\ segment.end.kind = "commit" =>
           \A i \in Writes(wal, x) : Logged(txns, x, i) \/ InFrames(segment, x, i)
      /\ segment.end.kind = "abort" => AbortAt(wal, segment.end.lsn, x)
  BY <1>3 DEF StageInv, SegmentLaw
<1>6. Len(e) \in Nat /\ id.xid = x /\ id.start = segment.start
      /\ (segment.end.kind = "commit" => segment.end.lsn \in Nat)
  BY <1>3 DEF Segment, Boundary, Positions
<1>7. RestOfSegment # NoSegment =>
        /\ RestOfSegment.xid = x /\ RestOfSegment.start = segment.start
        /\ RestOfSegment.end = segment.end
        /\ Len(RestOfSegment.events) = Len(e) - m
        /\ \A k \in 1 .. Len(RestOfSegment.events) : RestOfSegment.events[k] = e[m + k]
  BY <1>3, <1>4, RestFacts
<1>. DEFINE rest == RestOfSegment
            re == rest.events
<1>. HIDE DEF x, id, e, rest
<1>8. ASSUME NEW y, NEW i, InFrames(segment, y, i)
      PROVE  Logged(txns', y, i) \/ InFrames(rest, y, i)
  <2>1. y = x /\ \E k \in 1 .. Len(e) : e[k].lsn = i
    BY <1>8 DEF InFrames, x, e
  <2>2. PICK k \in 1 .. Len(e) : e[k].lsn = i
    BY <2>1
  <2>3. CASE k <= m
    <3>1. k \in 1 .. m
      BY <1>6, <2>3
    <3>. QED BY <1>2, <2>1, <2>2, <3>1
  <2>4. CASE ~(k <= m)
    <3>1. rest # NoSegment
      BY <1>3, <1>4, <1>6, <2>4 DEF rest
    <3>2. PICK l \in 1 .. Len(e) - m : k = m + l
      <4>1. k - m \in 1 .. Len(e) - m /\ k = m + (k - m)
        BY <1>6, <2>4
      <4>. QED BY <4>1
    <3>3. l \in 1 .. Len(re) /\ re[l].lsn = i /\ rest.xid = y
      BY <1>7, <2>1, <2>2, <3>1, <3>2 DEF rest
    <3>. QED BY <3>1, <3>3 DEF InFrames
  <2>. QED BY <2>3, <2>4
<1>9. SegmentLaw(wal, txns', sender, rest)
  <2>1. SUFFICES ASSUME rest # NoSegment PROVE SegmentLaw(wal, txns', sender, rest)
    BY DEF SegmentLaw
  <2>2. /\ rest.xid = x /\ rest.start = segment.start /\ rest.end = segment.end
        /\ Len(re) = Len(e) - m /\ \A k \in 1 .. Len(re) : re[k] = e[m + k]
    BY <1>7, <2>1 DEF rest
  <2>. HIDE DEF re
  <2>3. \A k \in 1 .. Len(re) : m + k \in 1 .. Len(e)
    BY <1>4, <1>6, <2>2
  <2>4. ASSUME NEW j \in 1 .. Len(re), NEW k \in 1 .. Len(re), j < k
        PROVE  re[j].lsn < re[k].lsn
    <3>1. m + j < m + k
      BY <1>6, <2>2, <2>4, <1>4
    <3>. QED BY <1>5, <2>2, <2>3, <3>1
  <2>5. ASSUME Live(wal, x), NEW k \in 1 .. Len(re), NEW i \in Writes(wal, x), i < re[k].lsn
        PROVE  Logged(txns', x, i) \/ \E j \in 1 .. Len(re) : j < k /\ re[j].lsn = i
    <3>1. m + k \in 1 .. Len(e) /\ re[k] = e[m + k]
      BY <2>2, <2>3
    <3>2. Logged(txns, x, i) \/ \E j \in 1 .. Len(e) : j < m + k /\ e[j].lsn = i
      BY <1>5, <2>5, <3>1
    <3>3. CASE Logged(txns, x, i)
      BY <1>2, <3>3
    <3>4. ASSUME NEW j \in 1 .. Len(e), j < m + k, e[j].lsn = i
          PROVE  Logged(txns', x, i) \/ \E l \in 1 .. Len(re) : l < k /\ re[l].lsn = i
      <4>1. CASE j <= m
        <5>1. j \in 1 .. m
          BY <1>6, <4>1
        <5>. QED BY <1>2, <3>4, <5>1
      <4>2. CASE ~(j <= m)
        <5>1. PICK l \in 1 .. Len(re) : j = m + l /\ l < k
          <6>1. j - m \in 1 .. Len(re) /\ j = m + (j - m) /\ j - m < k
            BY <1>4, <1>6, <2>2, <3>4, <4>2
          <6>. QED BY <6>1
        <5>. QED BY <2>2, <3>4, <5>1
      <4>. QED BY <4>1, <4>2
    <3>. QED BY <3>2, <3>3, <3>4
  <2>6. rest.end.kind = "commit" =>
          \A i \in Writes(wal, x) : Logged(txns', x, i) \/ InFrames(rest, x, i)
    BY <1>2, <1>5, <1>8, <2>2
  <2>. QED BY <1>5, <2>2, <2>4, <2>5, <2>6 DEF SegmentLaw, re
<1>10. StreamedLaw(wal, txns', sender, rest)
  <2>1. StreamedLaw(wal, txns, sender, segment)
    BY DEF StageInv
  <2>. QED BY <1>2, <1>8, <2>1 DEF StreamedLaw
<1>11. HeaderLaw(wal, id, f, persisted')
  <2>. DEFINE p == persisted
  <2>0. p = persisted
    OBVIOUS
  <2>. HIDE DEF p
  <2>1. id \in DOMAIN txns => HeaderLaw(wal, id, h, p)
    BY <1>4, <2>0 DEF StageInv, HeadersLaw
  <2>2. id \notin DOMAIN txns => h.status = "open" /\ h.final = 0
    BY <1>4 DEF NewHeader
  <2>3. \A i : Has(h, i) => Has(f, i)
    BY <1>2
  <2>4. f.status = "open" => f.final = 0
    <3>1. f.status = "open" => h.status = "open" /\ f.final = h.final
      BY <1>4
    <3>. QED BY <2>1, <2>2, <3>1 DEF HeaderLaw
  <2>5. ASSUME f.status = "committed"
        PROVE  /\ f.final < persisted' /\ f.end = f.final + 1
               /\ \A i \in Writes(wal, x) : Has(f, i)
    <3>1. CASE ReachesEnd /\ h.status = "open" /\ segment.end.kind = "commit"
      <4>1. f.final = segment.end.lsn /\ f.end = segment.end.lsn + 1
            /\ persisted' = segment.end.lsn + 1 /\ segment.end.lsn \in Nat
        BY <1>3, <1>4, <1>6, <3>1
      <4>2. m = Len(e)
        BY <1>3, <1>4, <3>1 DEF e
      <4>3. ASSUME NEW i \in Writes(wal, x) PROVE Has(f, i)
        <5>1. CASE Logged(txns, x, i)
          BY <1>2, <5>1
        <5>2. CASE InFrames(segment, x, i)
          BY <1>2, <4>2, <5>2 DEF InFrames, e
        <5>. QED BY <1>5, <3>1, <5>1, <5>2
      <4>. QED BY <4>1, <4>3
    <3>2. CASE ~(ReachesEnd /\ h.status = "open" /\ segment.end.kind = "commit")
      <4>1. h.status = "committed" /\ f.final = h.final /\ f.end = h.end
        BY <1>4, <2>5, <3>2
      <4>2. /\ h.final < p /\ h.end = h.final + 1
            /\ \A i \in Writes(wal, x) : Has(h, i)
        BY <1>6, <2>1, <2>2, <4>1 DEF HeaderLaw
      <4>3. h.final \in Nat
        BY <1>1 DEF IsIngested, HeaderOK, Header
      <4>. QED BY <1>3, <2>0, <2>3, <4>1, <4>2, <4>3
    <3>. QED BY <3>1, <3>2
  <2>6. ASSUME f.status = "aborted" PROVE f.end = f.final /\ AbortAt(wal, f.final, x)
    <3>1. CASE ReachesEnd /\ h.status = "open" /\ segment.end.kind = "abort"
      BY <1>4, <1>5, <3>1
    <3>2. CASE ~(ReachesEnd /\ h.status = "open" /\ segment.end.kind = "abort")
      <4>1. h.status = "aborted" /\ f.final = h.final /\ f.end = h.end
        BY <1>4, <2>6, <3>2
      <4>. QED BY <1>6, <2>1, <2>2, <4>1 DEF HeaderLaw
    <3>. QED BY <3>1, <3>2
  <2>. QED BY <1>2, <1>5, <1>6, <2>4, <2>5, <2>6 DEF HeaderLaw
<1>12. HeadersLaw(wal, txns', persisted')
  <2>1. SUFFICES ASSUME NEW z \in DOMAIN txns'
                 PROVE  HeaderLaw(wal, z, txns'[z], persisted')
    BY DEF HeadersLaw
  <2>2. CASE z = id
    BY <1>4, <1>11, <2>2
  <2>3. CASE z # id
    <3>1. z \in DOMAIN txns /\ txns'[z] = txns[z]
      BY <1>4, <2>1, <2>3
    <3>2. HeaderLaw(wal, z, txns[z], persisted)
      BY <3>1 DEF StageInv, HeadersLaw
    <3>3. txns[z].final \in Nat
      BY <3>1 DEF TxnsInv, TxnsOK, HeaderOK, Header
    <3>. QED BY <1>3, <3>1, <3>2, <3>3 DEF HeaderLaw
  <2>. QED BY <2>2, <2>3
<1>13. ReceivedLaw(wal, sender, rest, up, persisted')
  <2>1. SUFFICES ASSUME NEW y \in 1 .. Len(wal), wal[y].op = "commit", y < sender.pos
                 PROVE  \/ y < persisted'
                        \/ rest # NoSegment /\ rest.end = [kind |-> "commit", lsn |-> y]
    BY DEF ReceivedLaw
  <2>2. y \in Nat
    OBVIOUS
  <2>3. CASE y < persisted
    BY <1>3, <2>2, <2>3
  <2>4. CASE segment.end = [kind |-> "commit", lsn |-> y]
    <3>1. segment.end.kind = "commit" /\ segment.end.lsn = y /\ segment.end # NoBoundary
      BY <2>4 DEF NoBoundary
    <3>2. CASE ReachesEnd
      BY <1>3, <2>2, <3>1, <3>2
    <3>3. CASE ~ReachesEnd
      <4>1. rest # NoSegment
        BY <1>3, <3>1, <3>3 DEF rest
      <4>. QED BY <1>7, <2>4, <4>1 DEF rest
    <3>. QED BY <3>2, <3>3
  <2>. QED BY <1>3, <2>1, <2>3, <2>4 DEF StageInv, ReceivedLaw
<1>14. SenderLaw(wal, sender, up)
  BY DEF StageInv
<1>. QED BY <1>3, <1>9, <1>10, <1>12, <1>13, <1>14 DEF StageInv, rest
-----------------------------------------------------------------------------
\* Without a bound to spend on server restarts the log only ever grows by the
\* records of transactions.
LEMMA PlainStep ==
    ASSUME Plain, IngressAssumption, SessionInv, RowInv, NoRestart, [Next]_vars
    PROVE  NoRestart' /\ Extends(wal, wal')
<1>0. WalOK /\ EndLaw /\ Len(wal) \in Nat
  BY DEF SessionInv, RowInv, WalOK
<1>1. ~PostmasterRestart
  BY DEF PostmasterRestart, Plain, NoRestart
<1>2. UNCHANGED restarts
  BY <1>1 DEF Next, Source, Walsender, Runtime, Fault, WriteChange, WriteRollback, WriteEnd,
     WriteRecord, RegisterSource, DropSource, DrainStream, Decode, SlotConfirms, StreamSegment,
     PublishSource, AdvanceFrontier, IngestBatch, IngestRefused, IngestNothing, SendStatus,
     RecordFeedback, CollectGarbage, StartRuntime, RuntimeCrash, faultVars, vars
<1>3. staleEpoch' = FALSE
  BY <1>1 DEF Next, Source, Walsender, Runtime, Fault, WriteChange, WriteRollback, WriteEnd,
     WriteRecord, RegisterSource, DropSource, DrainStream, Decode, SlotConfirms, StreamSegment,
     PublishSource, AdvanceFrontier, IngestBatch, IngestRefused, IngestNothing, SendStatus,
     RecordFeedback, CollectGarbage, StartRuntime, RuntimeCrash, vars, NoRestart
<1>4. wal' = wal \/ \E r \in WalRecord : r.op # "recovery" /\ wal' = Append(wal, r)
  <2>1. ASSUME NEW x \in Xids, NEW sub \in Subs \cup {Top}, NEW s \in Sources, WriteChange(x, sub, s)
        PROVE  \E r \in WalRecord : r.op # "recovery" /\ wal' = Append(wal, r)
    BY <2>1 DEF WriteChange, WriteRecord, WalRecord
  <2>2. ASSUME NEW x \in Xids, NEW op \in Ends, WriteEnd(x, op)
        PROVE  \E r \in WalRecord : r.op # "recovery" /\ wal' = Append(wal, r)
    <3>1. op \in {"commit", "abort"}
      BY DEF IngressAssumption
    <3>. QED BY <2>2, <3>1 DEF WriteEnd, WriteRecord, WalRecord
  <2>3. ASSUME NEW x \in Xids, NEW sub \in Subs, WriteRollback(x, sub)
        PROVE  FALSE
    BY <2>3 DEF Plain
  <2>4. CASE Source
    BY <2>1, <2>2, <2>3, <2>4 DEF Source, RegisterSource, DropSource, DrainStream
  <2>5. CASE ~Source
    BY <1>1, <2>5 DEF Next, Walsender, Runtime, Fault, Decode, SlotConfirms, StreamSegment,
     PublishSource, AdvanceFrontier, IngestBatch, IngestRefused, IngestNothing, SendStatus,
     RecordFeedback, CollectGarbage, StartRuntime, RuntimeCrash, vars
  <2>. QED BY <2>4, <2>5
<1>5. NoRestart'
  <2>1. \A i \in 1 .. Len(wal') : wal'[i].op # "recovery"
    <3>1. CASE wal' = wal
      BY <3>1 DEF NoRestart
    <3>2. CASE \E r \in WalRecord : r.op # "recovery" /\ wal' = Append(wal, r)
      <4>1. PICK r \in WalRecord : r.op # "recovery" /\ wal' = Append(wal, r)
        BY <3>2
      <4>2. /\ Len(wal') = Len(wal) + 1 /\ wal'[Len(wal) + 1] = r
            /\ \A i \in Positions : wal'[i] = wal[i]
        BY <1>0, <4>1, WalGrows
      <4>3. \A i \in 1 .. Len(wal') : i \in Positions \/ i = Len(wal) + 1
        BY <1>0, <4>2 DEF Positions
      <4>. QED BY <4>1, <4>2, <4>3 DEF NoRestart, Positions
    <3>. QED BY <1>4, <3>1, <3>2
  <2>. QED BY <1>2, <1>3, <2>1 DEF NoRestart
<1>6. Extends(wal, wal')
  <2>1. EndLaw'
    BY <1>0, EndLawStep
  <2>2. /\ Positions \subseteq Positions' /\ \A i \in Positions : wal'[i] = wal[i]
        /\ Len(wal) \in Nat /\ Len(wal') \in Nat /\ Len(wal) <= Len(wal')
    BY <1>0, <1>4, RecordsStay
  <2>3. ASSUME NEW i \in 1 .. Len(wal), NEW j \in 1 .. Len(wal'),
               wal[i].op \in {"commit", "abort"}, j > i
        PROVE  wal'[j].xid # wal[i].xid
    <3>1. i \in Positions' /\ j \in Positions' /\ wal'[i] = wal[i]
      BY <2>2 DEF Positions
    <3>2. \A k \in Positions' : wal'[k].op \in {"commit", "abort"} =>
            \A l \in Positions' : l > k => wal'[l].op = "recovery" \/ wal'[l].xid # wal'[k].xid
      BY <2>1 DEF EndLaw
    <3>3. wal'[j].op # "recovery"
      BY <1>5 DEF NoRestart
    <3>. QED BY <2>3, <3>1, <3>2, <3>3
  <2>. QED BY <2>2, <2>3 DEF Extends, Positions
<1>. QED BY <1>5, <1>6

\* Garbage collection takes no header of a transaction that is on the wire.
LEMMA StageGarbage ==
    ASSUME Plain, SessionInv, TxnsInv, RowInv, StageInv, NoRestart', CollectGarbage
    PROVE  StageInv'
<1>1. /\ up /\ UNCHANGED <<wal, sender, segment, up, persisted>>
      /\ \E old \in SUBSET Garbage(replaySafe') :
           txns' = [id \in DOMAIN txns \ old |-> txns[id]]
  BY DEF CollectGarbage, senderVars, loopVars
<1>2. /\ WalOK /\ EndLaw /\ NoRestart /\ SegmentOK /\ SessionOK /\ SenderOK /\ ScalarsOK
      /\ SegmentRows
  BY DEF SessionInv, RowInv, StageInv
<1>3. /\ \A id \in DOMAIN txns' : id \in DOMAIN txns /\ txns'[id] = txns[id]
      /\ \A id \in DOMAIN txns : id \in DOMAIN txns' \/ txns[id].status # "open"
  BY <1>1 DEF Garbage
<1>4. /\ sender.pos \in Nat /\ persisted \in Nat /\ persisted <= sender.pos
  BY <1>1, <1>2 DEF SenderOK, ScalarsOK, SessionOK, Lsn, WalOK
<1>5. ASSUME NEW x, Live(wal, x),
             x \in DOMAIN sender.streamed \/ (segment # NoSegment /\ segment.xid = x),
             NEW i, Logged(txns, x, i)
      PROVE  Logged(txns', x, i)
  <2>1. PICK id \in DOMAIN txns : id.xid = x /\ Has(txns[id], i)
    BY <1>5 DEF Logged
  <2>2. HeaderLaw(wal, id, txns[id], persisted) /\ HeaderOK(txns[id], Len(wal))
    BY DEF StageInv, HeadersLaw, TxnsInv, TxnsOK
  <2>3. CASE id \in DOMAIN txns'
    BY <1>3, <2>1, <2>3 DEF Logged
  <2>4. CASE txns[id].status = "committed"
    <3>. DEFINE c == txns[id].final
    <3>1. CommitAt(wal, c, x) /\ c < persisted /\ c \in Nat
      <4>1. IsCommit(c, x)
        BY <2>1, <2>4 DEF RowInv, HeaderRows
      <4>. QED BY <1>2, <2>2, <2>4, <4>1, PlainLog DEF HeaderLaw, HeaderOK, Header
    <3>. HIDE DEF c
    <3>2. CASE x \in DOMAIN sender.streamed
      <4>1. ~EndsBefore(wal, x, sender.pos)
        BY <1>2, <3>2 DEF StageInv, SenderLaw, SenderOK, Streamed
      <4>2. c \in 1 .. Len(wal) /\ c < sender.pos
        BY <1>4, <3>1 DEF CommitAt
      <4>. QED BY <3>1, <4>1, <4>2 DEF EndsBefore
    <3>3. CASE segment # NoSegment /\ segment.xid = x /\ x \notin DOMAIN sender.streamed
      <4>1. segment.end \in Boundary
        BY <1>2, <3>3 DEF SegmentOK, Segment
      <4>2. segment.end.kind # "rollback"
        BY <4>1 DEF Boundary, Plain
      <4>3. segment.end.kind # "none"
        BY <3>3 DEF StageInv, SegmentLaw
      <4>4. segment.end.kind # "abort"
        BY <1>5, <3>3 DEF StageInv, SegmentLaw, Live, AbortAt
      <4>5. segment.end.kind = "commit"
        BY <4>1, <4>2, <4>3, <4>4 DEF Boundary
      <4>6. IsCommit(segment.end.lsn, x) /\ persisted <= segment.end.lsn
        BY <1>2, <3>3, <4>5 DEF SegmentRows, SessionOK
      <4>7. CommitAt(wal, segment.end.lsn, x) /\ c = segment.end.lsn
        BY <1>2, <3>1, <4>6, PlainLog
      <4>. QED BY <1>4, <3>1, <4>6, <4>7
    <3>. QED BY <1>5, <3>2, <3>3
  <2>5. CASE txns[id].status = "aborted"
    BY <1>5, <2>1, <2>2, <2>5 DEF HeaderLaw, Live, AbortAt
  <2>. QED BY <1>3, <2>2, <2>3, <2>4, <2>5 DEF HeaderOK, Header
<1>6. SegmentLaw(wal, txns', sender, segment)
  <2>1. SUFFICES ASSUME segment # NoSegment PROVE SegmentLaw(wal, txns', sender, segment)
    BY DEF SegmentLaw
  <2>2. SegmentLaw(wal, txns, sender, segment)
    BY DEF StageInv
  <2>3. segment.end.kind = "commit" => Live(wal, segment.xid)
    <3>1. segment.end.kind = "commit" => IsCommit(segment.end.lsn, segment.xid)
      BY <1>2, <2>1 DEF SegmentRows
    <3>. QED BY <1>2, <3>1, PlainLog
  <2>. QED BY <1>5, <2>1, <2>2, <2>3 DEF SegmentLaw
<1>7. StreamedLaw(wal, txns', sender, segment)
  <2>1. StreamedLaw(wal, txns, sender, segment)
    BY DEF StageInv
  <2>. QED BY <1>5, <2>1 DEF StreamedLaw
<1>8. HeadersLaw(wal, txns', persisted)
  BY <1>3 DEF StageInv, HeadersLaw
<1>. QED BY <1>1, <1>6, <1>7, <1>8 DEF StageInv

\* The session ends, and what was on the wire with it.
LEMMA StageEnds ==
    ASSUME SessionInv, StageInv, NoRestart', RuntimeEnds, UNCHANGED <<wal, txns, persisted>>
    PROVE  StageInv'
<1>1. up' = FALSE /\ segment' = NoSegment /\ DOMAIN sender'.streamed = {}
  BY DEF RuntimeEnds, Disconnected
<1>2. SenderLaw(wal, sender', FALSE)
  BY <1>1 DEF SenderLaw
<1>3. SegmentLaw(wal, txns, sender', NoSegment) /\ StreamedLaw(wal, txns, sender', NoSegment)
      /\ ReceivedLaw(wal, sender', NoSegment, FALSE, persisted)
  BY <1>1 DEF SegmentLaw, StreamedLaw, ReceivedLaw
<1>. QED BY <1>1, <1>2, <1>3 DEF StageInv

\* A session starts from durable progress, and has received nothing.
LEMMA StageStart ==
    ASSUME SessionInv, StageInv, NoRestart', StartRuntime
    PROVE  StageInv'
<1>1. /\ UNCHANGED <<wal, txns, persisted>> /\ up' = TRUE /\ segment' = NoSegment
      /\ sender' = [Disconnected EXCEPT !.start = Larger(persisted, slot),
                                        !.pos = Larger(persisted, slot)]
  BY DEF StartRuntime, StageInv, NoRestart, replayVars
<1>2. DOMAIN sender'.streamed = {} /\ sender'.sent = [x \in Xids |-> 0]
      /\ sender'.pos = Larger(persisted, slot)
  BY <1>1 DEF Disconnected
<1>3. persisted \in Nat /\ slot \in Nat /\ FlushOK
  BY DEF SessionInv, ScalarsOK, Lsn, WalOK
<1>4. SenderLaw(wal, sender', TRUE)
  BY <1>2 DEF SenderLaw
<1>5. SegmentLaw(wal, txns, sender', NoSegment) /\ StreamedLaw(wal, txns, sender', NoSegment)
  BY <1>2 DEF SegmentLaw, StreamedLaw
<1>6. ReceivedLaw(wal, sender', NoSegment, TRUE, persisted)
  <2>1. ASSUME NEW c \in 1 .. Len(wal), c < sender'.pos PROVE c < persisted
    <3>1. c < Larger(persisted, slot) /\ c \in Nat /\ c >= 1
      BY <1>2, <2>1
    <3>. QED BY <1>3, <3>1 DEF Larger, FlushOK, Baseline
  <2>. QED BY <2>1 DEF ReceivedLaw
<1>. QED BY <1>1, <1>4, <1>5, <1>6 DEF StageInv

\* Nothing is sent, staged or received in the initial state.
LEMMA StageInit == ASSUME Init PROVE StageInv
<1>1. Len(wal) = 0
  BY DEF Init
<1>. QED BY <1>1 DEF Init, Disconnected, StageInv, NoRestart, SenderLaw, SegmentLaw, StreamedLaw,
            HeadersLaw, ReceivedLaw

\* One step per action that touches the log, the session or the headers.
LEMMA StageStep ==
    ASSUME Plain, IngressAssumption, SessionInv, TxnsInv, RowInv, StageInv, [Next]_vars
    PROVE  StageInv'
<1>1. NoRestart' /\ Extends(wal, wal')
  BY PlainStep DEF StageInv
<1>2. SameHeaders(txns, txns)
  BY DEF SameHeaders
<1>3. ASSUME UNCHANGED <<sender, segment, up, persisted, txns>> PROVE StageInv'
  BY <1>1, <1>2, <1>3, StageKept
<1>4. CASE Source
  <2>1. UNCHANGED <<sender, segment, up>>
    BY <1>4 DEF Source, WriteChange, WriteRollback, WriteEnd, WriteRecord, RegisterSource,
                DropSource, DrainStream, senderVars, loopVars
  <2>. QED BY <1>3, <1>4, <2>1, SourceRecords
<1>5. CASE PublishSource
  <2>1. SameHeaders(txns, txns')
    BY <1>5, PublishHeaders DEF SameHeaders, TxnsInv
  <2>2. UNCHANGED <<sender, segment, up, persisted>>
    BY <1>5 DEF PublishSource, senderVars, replayVars
  <2>. QED BY <1>1, <2>1, <2>2, StageKept
<1>6. CASE SlotConfirms \/ AdvanceFrontier \/ IngestNothing \/ SendStatus \/ RecordFeedback
  BY <1>3, <1>6 DEF SlotConfirms, AdvanceFrontier, IngestNothing, SendStatus, RecordFeedback,
                    senderVars, loopVars, replayVars
<1>7. CASE IngestRefused \/ RuntimeCrash
  BY <1>1, <1>7, StageEnds DEF IngestRefused, RuntimeCrash, RuntimeEnds, replayVars
<1>8. CASE PostmasterRestart
  BY <1>8 DEF PostmasterRestart, Plain, StageInv, NoRestart
<1>9. CASE UNCHANGED vars
  BY <1>3, <1>9 DEF vars, senderVars
<1>10. ASSUME NEW x \in Xids, StreamSegment(x) PROVE StageInv'
  BY <1>1, <1>10, StageStream
<1>. QED BY <1>1, <1>4, <1>5, <1>6, <1>7, <1>8, <1>9, <1>10, StageDecode, StageIngest,
            StageGarbage, StageStart
         DEF Next, Walsender, Runtime, Fault

-----------------------------------------------------------------------------
\* From the staged headers to the source streams.

\* What is persisted and not yet published is staged.
DoneLaw(w, ts, p, f) ==
    \A c \in 1 .. Len(w) :
        w[c].op = "commit" /\ c < p /\ c > f =>
            \E id \in DOMAIN ts : /\ id.xid = w[c].xid /\ ts[id].status = "committed"
                                  /\ ts[id].final = c

\* Task t covers entry k of the log.
Covers(t, h, k) == /\ t.source = h.log[k].source /\ t.next # 0
                   /\ t.next <= k /\ k <= t.last
Covered(h, k) == \E t \in h.tasks : Covers(t, h, k)

\* Tasks of later batches lie behind those of earlier ones, and an open header
\* has a task for each of its entries.
TaskLaw(h) ==
    /\ \A t, u \in h.tasks : t.batch < u.batch /\ u.next # 0 => t.last < u.next
    /\ h.status = "open" => \A k \in 1 .. Len(h.log) : Covered(h, k)

Awaits(act, s, c) == act[s] # 0 /\ act[s] < c
InStream(eff, s, i) == \E k \in 1 .. Len(eff[s]) : eff[s][k].lsn = i

\* An entry of a committed header that a Scan waits for is in its stream, or
\* has a task that will take it there.
DeliveredLaw(h, eff, act) ==
    h.status = "committed" =>
        \A k \in 1 .. Len(h.log) :
            Awaits(act, h.log[k].source, h.final) =>
                InStream(eff, h.log[k].source, h.log[k].lsn) \/ Covered(h, k)

\* The promise of published_lsn, for every commit up to it.
FrontierLaw(w, f, eff, act) ==
    /\ f <= Len(w)
    /\ \A s \in Sources : \A c \in 1 .. Len(w) :
         w[c].op = "commit" /\ c <= f /\ Awaits(act, s, c) =>
             \A i \in Writes(w, w[c].xid) : w[i].source = s => InStream(eff, s, i)

Precedes(e, commit, lsn) == e.commit < commit \/ (e.commit = commit /\ e.lsn < lsn)

\* A stream is in commit order, and precedes what is still to be appended.
StreamLaw(eff, p) ==
    \A s \in Sources :
        /\ \A j, k \in 1 .. Len(eff[s]) :
             j < k => Precedes(eff[s][j], eff[s][k].commit, eff[s][k].lsn)
        /\ \A k \in 1 .. Len(eff[s]) : eff[s][k].commit < p
QueueLaw(h, eff) ==
    h.status = "committed" =>
        \A t \in h.tasks : t.next # 0 =>
            \A k \in 1 .. Len(eff[t.source]) :
                Precedes(eff[t.source][k], h.final, h.log[t.next].lsn)

DeliverInv ==
    /\ DoneLaw(wal, txns, persisted, published)
    /\ \A id \in DOMAIN txns : /\ TaskLaw(txns[id])
                               /\ DeliveredLaw(txns[id], effects, activation)
                               /\ QueueLaw(txns[id], effects)
    /\ FrontierLaw(wal, published, effects, activation) /\ StreamLaw(effects, persisted)
-----------------------------------------------------------------------------
\* What the invariants of the other modules say of commits and headers.
LEMMA PlainHeaders ==
    ASSUME SessionInv, TxnsInv, RowInv, StageInv
    PROVE  /\ Len(wal) \in Nat /\ persisted \in Nat /\ persisted <= Len(wal) + 1
           /\ published \in Nat /\ published <= persisted
           /\ \A id \in DOMAIN txns :
                /\ HeaderOK(txns[id], Len(wal)) /\ id \in Id(Len(wal))
                /\ HeaderLaw(wal, id, txns[id], persisted) /\ txns[id].final \in Nat
                /\ Len(txns[id].log) \in Nat
                /\ txns[id].status \in {"open", "committed", "aborted"}
                /\ txns[id].status = "committed" =>
                     CommitAt(wal, txns[id].final, id.xid) /\ InOrder(wal, id.xid, txns[id])
                /\ \A k \in 1 .. Len(txns[id].log) :
                     LET i == txns[id].log[k].lsn IN
                     i \in Writes(wal, id.xid) /\ wal[i].source = txns[id].log[k].source
           /\ \A i, j \in DOMAIN txns : i.xid = j.xid => i = j
<1>1. /\ WalOK /\ EndLaw /\ NoRestart /\ HeaderRows /\ TxnsOK /\ PublishedOK
      /\ HeadersLaw(wal, txns, persisted) /\ persisted \in Lsn
  BY DEF SessionInv, ScalarsOK, TxnsInv, RowInv, StageInv
<1>2. Len(wal) \in Nat /\ persisted \in Nat /\ persisted <= Len(wal) + 1
  BY <1>1 DEF WalOK, Lsn
<1>3. published \in Nat /\ published <= persisted
  BY <1>1 DEF PublishedOK
<1>4. ASSUME NEW id \in DOMAIN txns
      PROVE  /\ HeaderOK(txns[id], Len(wal)) /\ id \in Id(Len(wal))
             /\ HeaderLaw(wal, id, txns[id], persisted) /\ txns[id].final \in Nat
             /\ Len(txns[id].log) \in Nat
             /\ txns[id].status \in {"open", "committed", "aborted"}
             /\ txns[id].status = "committed" =>
                  CommitAt(wal, txns[id].final, id.xid) /\ InOrder(wal, id.xid, txns[id])
             /\ \A k \in 1 .. Len(txns[id].log) :
                  LET i == txns[id].log[k].lsn IN
                  i \in Writes(wal, id.xid) /\ wal[i].source = txns[id].log[k].source
  <2>1. /\ HeaderOK(txns[id], Len(wal)) /\ id \in Id(Len(wal))
        /\ HeaderLaw(wal, id, txns[id], persisted)
    BY <1>1 DEF TxnsOK, HeadersLaw
  <2>. DEFINE h == txns[id]
  <2>2. h \in Header(Len(wal))
    BY <2>1 DEF HeaderOK
  <2>3. h.status = "committed" => IsCommit(h.final, id.xid)
    BY <1>1 DEF HeaderRows
  <2>4. \A k \in 1 .. Len(h.log) : IsRow(h.log[k].lsn, id.xid, h.log[k].source)
    BY <1>1 DEF HeaderRows
  <2>. HIDE DEF h
  <2>5. h.final \in Nat /\ Len(h.log) \in Nat /\ h.status \in {"open", "committed", "aborted"}
    BY <1>2, <2>2 DEF Header
  <2>6. h.status = "committed" => CommitAt(wal, h.final, id.xid) /\ Live(wal, id.xid)
    BY <1>1, <2>3, PlainLog
  <2>7. h.status = "committed" => InOrder(wal, id.xid, h)
    BY <2>1, <2>6 DEF HeaderLaw, h
  <2>8. \A k \in 1 .. Len(h.log) :
          h.log[k].lsn \in Writes(wal, id.xid) /\ wal[h.log[k].lsn].source = h.log[k].source
    BY <2>4 DEF IsRow, Writes, Positions
  <2>. QED BY <2>1, <2>5, <2>6, <2>7, <2>8 DEF h
<1>5. ASSUME NEW i \in DOMAIN txns, NEW j \in DOMAIN txns, i.xid = j.xid PROVE i = j
  <2>1. i \in Id(Len(wal)) /\ j \in Id(Len(wal))
    BY <1>4
  <2>2. FirstOf(wal, i.start, i.xid) /\ FirstOf(wal, j.start, i.xid)
    BY <1>4, <1>5 DEF HeaderLaw
  <2>3. i.start = j.start
    BY <2>1, <2>2 DEF FirstOf, Id
  <2>. QED BY <1>5, <2>1, <2>3 DEF Id
<1>. QED BY <1>2, <1>3, <1>4, <1>5

\* The log grows: what the laws say of it was said of its old records.
LEMMA DeliverLog ==
    ASSUME SessionInv, TxnsInv, RowInv, StageInv, DeliverInv, Extends(wal, wal'),
           UNCHANGED <<txns, persisted, published, effects, activation>>
    PROVE  DeliverInv'
<1>1. Len(wal) \in Nat /\ persisted \in Nat /\ persisted <= Len(wal) + 1
  BY PlainHeaders
<1>2. /\ Len(wal') \in Nat /\ Len(wal) <= Len(wal')
      /\ \A i \in 1 .. Len(wal) : wal'[i] = wal[i]
  BY DEF Extends
<1>3. DoneLaw(wal', txns, persisted, published)
  BY <1>1, <1>2 DEF DeliverInv, DoneLaw
<1>4. FrontierLaw(wal', published, effects, activation)
  <2>1. FrontierLaw(wal, published, effects, activation) /\ published \in Nat
    BY PlainHeaders DEF DeliverInv
  <2>2. published <= Len(wal')
    BY <1>1, <1>2, <2>1 DEF FrontierLaw
  <2>3. ASSUME NEW s \in Sources, NEW c \in 1 .. Len(wal'), wal'[c].op = "commit",
               c <= published, Awaits(activation, s, c),
               NEW i \in Writes(wal', wal'[c].xid), wal'[i].source = s
        PROVE  InStream(effects, s, i)
    <3>1. c \in 1 .. Len(wal) /\ wal'[c] = wal[c]
      BY <1>1, <1>2, <2>1, <2>3 DEF FrontierLaw
    <3>2. CommitAt(wal, c, wal[c].xid)
      BY <2>3, <3>1 DEF CommitAt
    <3>3. i \in Writes(wal, wal[c].xid)
      BY <2>3, <3>1, <3>2, ExtensionFacts
    <3>4. wal'[i] = wal[i]
      BY <1>2, <3>3 DEF Writes
    <3>. QED BY <2>1, <2>3, <3>1, <3>3, <3>4 DEF FrontierLaw
  <2>. QED BY <2>2, <2>3 DEF FrontierLaw
<1>. QED BY <1>3, <1>4 DEF DeliverInv

\* A Scan is registered at the end of the log, or the last one is dropped: what
\* its stream promised before is void, and nothing that committed is awaited.
LEMMA DeliverSources ==
    ASSUME SessionInv, TxnsInv, RowInv, StageInv, DeliverInv, SessionInv',
           UNCHANGED <<wal, txns, persisted, published>>,
           \A s \in Sources : \/ activation'[s] = activation[s] /\ effects'[s] = effects[s]
                              \/ /\ activation'[s] = 0 \/ activation'[s] > Len(wal)
                                 /\ effects'[s] = effects[s] \/ effects'[s] = <<>>
    PROVE  DeliverInv'
<1>1. /\ Len(wal) \in Nat
      /\ DoneLaw(wal, txns, persisted, published)
      /\ FrontierLaw(wal, published, effects, activation) /\ StreamLaw(effects, persisted)
  BY PlainHeaders DEF DeliverInv
<1>2. \A s \in Sources : \A c \in 1 .. Len(wal) : Awaits(activation', s, c) =>
        effects'[s] = effects[s] /\ Awaits(activation, s, c)
  <2>1. SUFFICES ASSUME NEW s \in Sources, NEW c \in 1 .. Len(wal), Awaits(activation', s, c)
                 PROVE  effects'[s] = effects[s] /\ Awaits(activation, s, c)
    OBVIOUS
  <2>2. CASE activation'[s] = activation[s] /\ effects'[s] = effects[s]
    BY <2>1, <2>2 DEF Awaits
  <2>3. CASE activation'[s] = 0
    BY <2>1, <2>3 DEF Awaits
  <2>4. CASE activation'[s] > Len(wal)
    <3>1. activation'[s] < c
      BY <2>1 DEF Awaits
    <3>2. activation'[s] \in Nat
      BY <1>1 DEF SessionInv, ScalarsOK, WalOK, Lsn
    <3>. QED BY <1>1, <2>4, <3>1, <3>2
  <2>. QED BY <2>1, <2>2, <2>3, <2>4
<1>3. \A s \in Sources : effects'[s] = effects[s] \/ effects'[s] = <<>>
  OBVIOUS
<1>4. FrontierLaw(wal, published, effects', activation')
  BY <1>1, <1>2 DEF FrontierLaw, InStream
<1>5. StreamLaw(effects', persisted)
  <2>1. SUFFICES ASSUME NEW s \in Sources
                 PROVE  /\ \A j, k \in 1 .. Len(effects'[s]) : j < k =>
                             Precedes(effects'[s][j], effects'[s][k].commit, effects'[s][k].lsn)
                        /\ \A k \in 1 .. Len(effects'[s]) : effects'[s][k].commit < persisted
    BY DEF StreamLaw
  <2>2. CASE effects'[s] = effects[s]
    BY <1>1, <2>2 DEF StreamLaw
  <2>3. CASE effects'[s] = <<>>
    BY <2>3
  <2>. QED BY <1>3, <2>2, <2>3
<1>6. ASSUME NEW id \in DOMAIN txns
      PROVE  /\ TaskLaw(txns[id]) /\ DeliveredLaw(txns[id], effects', activation')
             /\ QueueLaw(txns[id], effects')
  <2>. DEFINE h == txns[id]
  <2>1. /\ TaskLaw(h) /\ DeliveredLaw(h, effects, activation) /\ QueueLaw(h, effects)
    BY DEF DeliverInv
  <2>2. /\ h.status = "committed" => h.final \in 1 .. Len(wal)
        /\ \A k \in 1 .. Len(h.log) : h.log[k].source \in Sources
        /\ \A t \in h.tasks : t.source \in Sources
    <3>1. h.status = "committed" => h.final \in 1 .. Len(wal)
      BY PlainHeaders DEF CommitAt
    <3>2. h \in Header(Len(wal))
      BY PlainHeaders DEF HeaderOK
    <3>. HIDE DEF h
    <3>3. h.log \in Seq(EventAt(Len(wal))) /\ h.tasks \in SUBSET Task
      BY <3>2 DEF Header
    <3>4. \A k \in 1 .. Len(h.log) : h.log[k] \in EventAt(Len(wal))
      BY <3>3, ElementOfSeq
    <3>. QED BY <3>1, <3>3, <3>4 DEF EventAt, Task, h
  <2>. HIDE DEF h
  <2>3. DeliveredLaw(h, effects', activation')
    BY <1>2, <2>1, <2>2 DEF DeliveredLaw, InStream
  <2>4. QueueLaw(h, effects')
    <3>1. SUFFICES ASSUME h.status = "committed", NEW t \in h.tasks, t.next # 0,
                          NEW k \in 1 .. Len(effects'[t.source])
                   PROVE  Precedes(effects'[t.source][k], h.final, h.log[t.next].lsn)
      BY DEF QueueLaw
    <3>2. effects'[t.source] = effects[t.source]
      BY <1>3, <2>2, <3>1
    <3>. QED BY <2>1, <3>1, <3>2 DEF QueueLaw
  <2>. QED BY <2>1, <2>3, <2>4 DEF h
<1>. QED BY <1>1, <1>4, <1>5, <1>6 DEF DeliverInv

\* What is collected is published: no commit behind the frontier loses its header.
LEMMA DeliverGarbage ==
    ASSUME SessionInv, TxnsInv, RowInv, StageInv, DeliverInv, CollectGarbage
    PROVE  DeliverInv'
<1>1. /\ UNCHANGED <<wal, persisted, published, effects, activation>>
      /\ \E old \in SUBSET Garbage(replaySafe') :
           txns' = [id \in DOMAIN txns \ old |-> txns[id]]
  BY DEF CollectGarbage, streamVars
<1>2. /\ \A id \in DOMAIN txns' : id \in DOMAIN txns /\ txns'[id] = txns[id]
      /\ \A id \in DOMAIN txns : id \in DOMAIN txns' \/ published >= txns[id].final
  BY <1>1 DEF Garbage
<1>3. DoneLaw(wal, txns', persisted, published)
  <2>1. SUFFICES ASSUME NEW c \in 1 .. Len(wal), wal[c].op = "commit", c < persisted, c > published
                 PROVE  \E id \in DOMAIN txns' : /\ id.xid = wal[c].xid
                                                 /\ txns'[id].status = "committed"
                                                 /\ txns'[id].final = c
    BY DEF DoneLaw
  <2>2. PICK id \in DOMAIN txns : /\ id.xid = wal[c].xid /\ txns[id].status = "committed"
                                  /\ txns[id].final = c
    BY <2>1 DEF DeliverInv, DoneLaw
  <2>3. id \in DOMAIN txns'
    BY <1>2, <2>1, <2>2, PlainHeaders
  <2>. QED BY <1>2, <2>2, <2>3
<1>. QED BY <1>1, <1>2, <1>3 DEF DeliverInv

\* The frontier moves to the next sealed header, of which nothing is pending.
LEMMA DeliverFrontier ==
    ASSUME SessionInv, TxnsInv, RowInv, StageInv, DeliverInv, AdvanceFrontier
    PROVE  DeliverInv'
<1>1. /\ UNCHANGED <<wal, txns, persisted, effects, activation>>
      /\ DoneLaw(wal, txns, persisted, published)
      /\ FrontierLaw(wal, published, effects, activation)
  BY DEF AdvanceFrontier, streamVars, DeliverInv
<1>2. CASE published' = published
  BY <1>1, <1>2 DEF DeliverInv
<1>3. CASE published' # published
  <2>1. PICK id \in DOMAIN txns :
           /\ published' = txns[id].final /\ txns[id].final > published
           /\ FrontierMovesTo(txns[id])
           /\ \A i \in DOMAIN txns : txns[i].final > published => txns[i].final >= published'
    BY <1>3, FrontierMoves
  <2>. DEFINE h == txns[id]
              p == published
              q == published'
  <2>2. /\ HeaderOK(h, Len(wal)) /\ HeaderLaw(wal, id, h, persisted) /\ h.final \in Nat
        /\ h.status \in {"open", "committed", "aborted"} /\ persisted \in Nat /\ p \in Nat
        /\ Len(wal) \in Nat /\ p <= Len(wal)
        /\ h.status = "committed" => CommitAt(wal, h.final, id.xid)
        /\ \A k \in 1 .. Len(h.log) : /\ h.log[k].lsn \in Writes(wal, id.xid)
                                      /\ wal[h.log[k].lsn].source = h.log[k].source
    BY <1>1, PlainHeaders DEF FrontierLaw
  <2>3. /\ q = h.final /\ q > p /\ q <= persisted /\ h.pending = 0
        /\ \A i \in DOMAIN txns : txns[i].final > p => txns[i].final >= q
    BY <2>1 DEF FrontierMovesTo
  <2>4. DeliveredLaw(h, effects, activation)
    BY DEF DeliverInv
  <2>. HIDE DEF h, p, q
  <2>5. h.status # "open"
    BY <2>2, <2>3 DEF HeaderLaw
  <2>6. q \in 1 .. Len(wal) /\ (h.status = "committed" => q < persisted)
        /\ (h.status = "aborted" => wal[q].op # "commit")
    BY <2>2, <2>3, <2>5 DEF HeaderLaw, CommitAt, AbortAt
  <2>7. DoneLaw(wal, txns, persisted, q)
    BY <1>1, <2>2, <2>3 DEF DoneLaw, p
  <2>8. ASSUME NEW s \in Sources, NEW c \in 1 .. Len(wal), wal[c].op = "commit", c <= q, c > p,
               Awaits(activation, s, c), NEW i \in Writes(wal, wal[c].xid), wal[i].source = s
        PROVE  InStream(effects, s, i)
    <3>1. c < persisted
      BY <2>2, <2>3, <2>5, <2>6, <2>8
    <3>2. PICK z \in DOMAIN txns : /\ z.xid = wal[c].xid /\ txns[z].status = "committed"
                                   /\ txns[z].final = c
      BY <1>1, <2>8, <3>1 DEF DoneLaw, p
    <3>3. c = q
      BY <2>3, <2>6, <2>8, <3>2
    <3>4. h.status = "committed" /\ id.xid = wal[c].xid
      BY <2>2, <2>3, <2>5, <2>6, <2>8, <3>3 DEF CommitAt
    <3>5. PICK k \in 1 .. Len(h.log) : h.log[k].lsn = i
      BY <2>2, <2>8, <3>4 DEF HeaderLaw, Has
    <3>6. h.log[k].source = s
      BY <2>2, <2>8, <3>5
    <3>7. ~Covered(h, k)
      <4>1. h.tasks \in SUBSET Task /\ TasksOK(h) /\ PendingOK(h)
        BY <2>2 DEF HeaderOK, Header
      <4>2. IsFiniteSet(Unfinished(h))
        BY <4>1, FS_Subset DEF TasksOK, Unfinished
      <4>3. Cardinality(Unfinished(h)) = 0
        BY <2>3, <3>4, <4>1 DEF PendingOK
      <4>4. Unfinished(h) = {}
        BY <4>2, <4>3, FS_EmptySet
      <4>. QED BY <4>4 DEF Covered, Covers, Unfinished
    <3>. QED BY <2>3, <2>4, <2>8, <3>3, <3>4, <3>5, <3>6, <3>7 DEF DeliveredLaw
  <2>9. FrontierLaw(wal, q, effects, activation)
    BY <1>1, <2>2, <2>6, <2>8 DEF FrontierLaw, p
  <2>. QED BY <1>1, <2>7, <2>9 DEF DeliverInv, q
<1>. QED BY <1>2, <1>3
-----------------------------------------------------------------------------
\* The tasks of a batch lie behind those of the batches before it, and cover the
\* rows it adds.
LEMMA IngestTasks ==
    ASSUME NEW h, NEW f, NEW c \in Nat, NEW m \in Nat, IsIngested(h, f, c, m), TaskLaw(h),
           Len(wal) \in Nat
    PROVE  TaskLaw(f) /\ (h.status = "open" => \A k \in 1 .. Len(f.log) : Covered(f, k))
<1>. DEFINE n == Len(h.log)
<1>1. /\ HeaderOK(h, Len(wal)) /\ HeaderOK(f, Len(wal))
      /\ n \in Nat /\ Len(f.log) = n + c
      /\ \A k \in 1 .. n : f.log[k] = h.log[k]
      /\ h.tasks \subseteq f.tasks
      /\ \A t \in f.tasks \ h.tasks :
           /\ t.batch = h.batches + 1 /\ t.next > n /\ t.last = Len(f.log)
           /\ \A k \in n + 1 .. Len(f.log) : f.log[k].source = t.source => t.next <= k
      /\ \A k \in n + 1 .. Len(f.log) :
           \E t \in f.tasks : t.source = f.log[k].source /\ t.batch = h.batches + 1
      /\ f.status = "open" => h.status = "open"
  BY DEF IsIngested
<1>2. /\ h.batches \in Nat /\ h.tasks \in SUBSET Task /\ f.tasks \in SUBSET Task
      /\ \A t \in h.tasks : t.batch <= h.batches /\ t.last <= n
  BY <1>1 DEF HeaderOK, Header, TasksOK
<1>. HIDE DEF n
<1>3. ASSUME NEW t \in f.tasks, NEW u \in f.tasks, t.batch < u.batch, u.next # 0
      PROVE  t.last < u.next
  <2>1. t \in Task /\ u \in Task
    BY <1>2
  <2>2. CASE t \in h.tasks /\ u \in h.tasks
    BY <1>3, <2>2 DEF TaskLaw
  <2>3. CASE t \in h.tasks /\ u \notin h.tasks
    BY <1>1, <1>2, <2>1, <2>3 DEF Task
  <2>4. CASE t \notin h.tasks
    <3>1. t.batch = h.batches + 1
      BY <1>1, <2>4
    <3>2. u.batch <= h.batches + 1
      <4>1. CASE u \in h.tasks
        <5>1. u.batch <= h.batches /\ u.batch \in Nat
          BY <1>2, <2>1, <4>1 DEF Task
        <5>. QED BY <1>2, <5>1
      <4>2. CASE u \notin h.tasks
        BY <1>1, <1>2, <4>2
      <4>. QED BY <4>1, <4>2
    <3>. QED BY <1>2, <1>3, <2>1, <3>1, <3>2 DEF Task
  <2>. QED BY <2>2, <2>3, <2>4
<1>4. ASSUME h.status = "open", NEW k \in 1 .. Len(f.log) PROVE Covered(f, k)
  <2>1. CASE k \in 1 .. n
    <3>1. PICK t \in h.tasks : Covers(t, h, k)
      BY <1>4, <2>1 DEF TaskLaw, Covered, n
    <3>2. Covers(t, f, k) /\ t \in f.tasks
      BY <1>1, <2>1, <3>1 DEF Covers
    <3>. QED BY <3>2 DEF Covered
  <2>2. CASE k \in n + 1 .. Len(f.log)
    <3>1. PICK t \in f.tasks : t.source = f.log[k].source /\ t.batch = h.batches + 1
      BY <1>1, <2>2
    <3>2. t \notin h.tasks
      BY <1>2, <3>1
    <3>3. t.next > n /\ t.next <= k /\ t.last = Len(f.log)
      BY <1>1, <2>2, <3>1, <3>2
    <3>4. t.next # 0 /\ k <= t.last
      BY <1>1, <1>2, <2>2, <3>3 DEF Task
    <3>. QED BY <3>1, <3>3, <3>4 DEF Covered, Covers
  <2>. QED BY <1>1, <2>1, <2>2
<1>. QED BY <1>1, <1>3, <1>4 DEF TaskLaw

\* A batch is persisted: a transaction it seals as committed follows, in commit
\* order, everything that is in the streams.
LEMMA DeliverIngest ==
    ASSUME Plain, SessionInv, TxnsInv, RowInv, StageInv, DeliverInv, TxnsInv', RowInv',
           IngressAssumption, IngestBatch
    PROVE  DeliverInv'
<1>. DEFINE x == segment.xid
            id == [xid |-> x, start |-> segment.start]
            p == persisted
            q == persisted'
<1>1. PICK h, f : \E c, m \in Nat : IsIngested(h, f, c, m)
  BY Ingested DEF SessionInv
<1>2. PICK c \in Nat, m \in Nat : IsIngested(h, f, c, m)
  BY <1>1
<1>3. /\ up /\ segment # NoSegment /\ segment \in Segment
      /\ UNCHANGED <<wal, published, effects, activation>>
      /\ p \in Nat /\ q \in Nat /\ q >= p
      /\ \/ q = p /\ ~(ReachesEnd /\ segment.end.kind = "commit")
         \/ /\ ReachesEnd /\ segment.end.kind = "commit"
            /\ p <= segment.end.lsn /\ q = segment.end.lsn + 1
  BY IngestProgress
<1>4. /\ h = IF id \in DOMAIN txns THEN txns[id] ELSE NewHeader
      /\ txns' = [i \in DOMAIN txns \cup {id} |-> IF i = id THEN f ELSE txns[i]]
      /\ HeaderOK(h, Len(wal)) /\ HeaderOK(f, Len(wal))
      /\ h.tasks \subseteq f.tasks /\ Len(f.log) = Len(h.log) + c /\ (c # 0 => h.status = "open")
      /\ \A k \in 1 .. Len(h.log) : f.log[k] = h.log[k]
      /\ Len(h.log) \in Nat
      /\ ReachesEnd /\ h.status = "open" /\ segment.end.kind = "commit" =>
           f.status = "committed" /\ f.final = segment.end.lsn
      /\ ReachesEnd /\ h.status = "open" /\ segment.end.kind = "abort" => f.status = "aborted"
      /\ ~(ReachesEnd /\ h.status = "open" /\ segment.end.kind \in {"commit", "abort"}) =>
           f.status = h.status /\ f.final = h.final
  BY <1>2 DEF IsIngested
<1>5. /\ WalOK /\ EndLaw /\ NoRestart /\ Len(wal) \in Nat
      /\ segment.end.kind = "commit" =>
           /\ IsCommit(segment.end.lsn, x) /\ CommitAt(wal, segment.end.lsn, x)
           /\ segment.end.lsn \in Nat /\ segment.end.lsn < sender.pos /\ sender.pos \in Nat
  <2>1. WalOK /\ EndLaw /\ NoRestart /\ Len(wal) \in Nat /\ sender.pos \in Nat
    BY DEF SessionInv, WalOK, SenderOK, Lsn, RowInv, StageInv
  <2>2. segment.end.kind = "commit" =>
          IsCommit(segment.end.lsn, x) /\ segment.end.lsn < sender.pos
    BY <1>3 DEF RowInv, SegmentRows, SessionInv, SessionOK
  <2>3. segment.end.kind = "commit" => CommitAt(wal, segment.end.lsn, x)
    BY <2>1, <2>2, PlainLog
  <2>. QED BY <2>1, <2>2, <2>3 DEF CommitAt
<1>6. id.xid = x
  OBVIOUS
<1>7. /\ id \in DOMAIN txns => /\ HeaderLaw(wal, id, h, p) /\ h.final \in Nat
                               /\ h.status \in {"open", "committed", "aborted"}
                               /\ (h.status = "committed" => CommitAt(wal, h.final, x))
                               /\ TaskLaw(h) /\ DeliveredLaw(h, effects, activation)
                               /\ QueueLaw(h, effects)
      /\ id \notin DOMAIN txns => h.status = "open" /\ h.tasks = {} /\ Len(h.log) = 0
  <2>1. CASE id \in DOMAIN txns
    <3>1. h = txns[id]
      BY <1>4, <2>1
    <3>. HIDE DEF id
    <3>. QED BY <1>6, <2>1, <3>1, PlainHeaders DEF DeliverInv
  <2>2. CASE id \notin DOMAIN txns
    BY <1>4, <2>2 DEF NewHeader
  <2>. QED BY <2>1, <2>2
<1>. HIDE DEF id, x, p, q
<1>8. TaskLaw(h)
  BY <1>7 DEF TaskLaw
<1>9. TaskLaw(f) /\ (h.status = "open" => \A k \in 1 .. Len(f.log) : Covered(f, k))
  BY <1>2, <1>5, <1>8, IngestTasks
<1>10. ASSUME ReachesEnd, segment.end.kind = "commit"
       PROVE  h.status = "open" /\ f.status = "committed" /\ f.final = segment.end.lsn
  <2>1. ~(id \in DOMAIN txns /\ h.status = "committed")
    <3>1. SUFFICES ASSUME id \in DOMAIN txns, h.status = "committed" PROVE FALSE
      OBVIOUS
    <3>2. h.final < p /\ h.final \in Nat /\ CommitAt(wal, h.final, x)
      BY <1>7, <3>1 DEF HeaderLaw
    <3>3. h.final = segment.end.lsn
      BY <1>5, <1>10, <3>2, PlainLog
    <3>. QED BY <1>3, <1>5, <1>10, <3>2, <3>3
  <2>2. ~(id \in DOMAIN txns /\ h.status = "aborted")
    <3>1. SUFFICES ASSUME id \in DOMAIN txns, h.status = "aborted" PROVE FALSE
      OBVIOUS
    <3>2. AbortAt(wal, h.final, x)
      BY <1>6, <1>7, <3>1 DEF HeaderLaw
    <3>. QED BY <1>5, <1>10, <3>2, PlainLog
  <2>3. h.status = "open"
    BY <1>7, <2>1, <2>2
  <2>. QED BY <1>4, <1>10, <2>3
<1>11. DoneLaw(wal, txns', q, published)
  <2>1. SUFFICES ASSUME NEW i \in 1 .. Len(wal), wal[i].op = "commit", i < q, i > published
                 PROVE  \E z \in DOMAIN txns' : /\ z.xid = wal[i].xid
                                                /\ txns'[z].status = "committed"
                                                /\ txns'[z].final = i
    BY DEF DoneLaw
  <2>2. CASE i < p
    <3>1. PICK z \in DOMAIN txns : /\ z.xid = wal[i].xid /\ txns[z].status = "committed"
                                   /\ txns[z].final = i
      BY <2>1, <2>2 DEF DeliverInv, DoneLaw, p
    <3>2. CASE z = id
      <4>1. h.status = "committed" /\ h.final = i
        BY <1>4, <3>1, <3>2
      <4>2. f.status = "committed" /\ f.final = i
        BY <1>4, <4>1
      <4>. QED BY <1>4, <3>1, <3>2, <4>2
    <3>3. CASE z # id
      BY <1>4, <3>1, <3>3
    <3>. QED BY <3>2, <3>3
  <2>3. CASE ~(i < p)
    <3>1. ReachesEnd /\ segment.end.kind = "commit" /\ q = segment.end.lsn + 1
      BY <1>3, <2>1, <2>3
    <3>2. i <= segment.end.lsn /\ i < sender.pos
      BY <1>5, <2>1, <3>1
    <3>3. i = segment.end.lsn
      <4>1. i < persisted \/ segment.end = [kind |-> "commit", lsn |-> i]
        BY <1>3, <2>1, <3>2 DEF StageInv, ReceivedLaw
      <4>. QED BY <2>3, <4>1 DEF p
    <3>4. wal[i].xid = x
      BY <1>5, <3>1, <3>3 DEF CommitAt
    <3>5. f.status = "committed" /\ f.final = i
      BY <1>10, <3>1, <3>3
    <3>. QED BY <1>4, <1>6, <3>4, <3>5
  <2>. QED BY <2>2, <2>3
<1>12. StreamLaw(effects, p)
  BY DEF DeliverInv, p
<1>13. \A s \in Sources : \A k \in 1 .. Len(effects[s]) : effects[s][k].commit \in Nat
  <2>1. \A s \in Sources : \A k \in 1 .. Len(effects[s]) :
          IsCommit(effects[s][k].commit, effects[s][k].xid)
    BY DEF RowInv, EffectRows
  <2>2. \A i, y : IsCommit(i, y) => i \in Nat
    BY <1>5 DEF IsCommit, Positions
  <2>. QED BY <2>1, <2>2
<1>14. StreamLaw(effects, q)
  BY <1>3, <1>12, <1>13 DEF StreamLaw
<1>15. DeliveredLaw(f, effects, activation)
  <2>1. CASE h.status = "open"
    BY <1>9, <2>1 DEF DeliveredLaw
  <2>2. CASE h.status # "open"
    <3>1. c = 0 /\ f.status = h.status /\ f.final = h.final /\ id \in DOMAIN txns
      BY <1>4, <1>7, <2>2
    <3>2. Len(f.log) = Len(h.log)
      BY <1>4, <3>1
    <3>3. \A k \in 1 .. Len(f.log) : f.log[k] = h.log[k] /\ (Covered(h, k) => Covered(f, k))
      BY <1>4, <3>2 DEF Covered, Covers
    <3>4. DeliveredLaw(h, effects, activation)
      BY <1>7, <3>1
    <3>. QED BY <3>1, <3>2, <3>3, <3>4 DEF DeliveredLaw
  <2>. QED BY <2>1, <2>2
<1>16. QueueLaw(f, effects)
  <2>1. SUFFICES ASSUME f.status = "committed", NEW t \in f.tasks, t.next # 0,
                        NEW k \in 1 .. Len(effects[t.source])
                 PROVE  Precedes(effects[t.source][k], f.final, f.log[t.next].lsn)
    BY DEF QueueLaw
  <2>2. f.tasks \in SUBSET Task
    BY <1>4 DEF HeaderOK, Header
  <2>3. t.source \in Sources /\ t \in Task
    BY <2>1, <2>2 DEF Task
  <2>4. CASE h.status = "open"
    <3>1. ReachesEnd /\ segment.end.kind = "commit"
      BY <1>4, <2>1, <2>4
    <3>2. effects[t.source][k].commit < p /\ effects[t.source][k].commit \in Nat
      BY <1>12, <1>13, <2>1, <2>3 DEF StreamLaw
    <3>3. p <= f.final /\ f.final \in Nat
      BY <1>3, <1>5, <1>10, <3>1
    <3>. QED BY <1>3, <3>2, <3>3 DEF Precedes
  <2>5. CASE h.status # "open"
    <3>1. c = 0 /\ f.status = h.status /\ f.final = h.final /\ id \in DOMAIN txns
      BY <1>4, <1>7, <2>5
    <3>2. Len(f.log) = Len(h.log)
      BY <1>4, <3>1
    <3>3. t \in h.tasks
      <4>1. t \in f.tasks \ h.tasks => t.next > Len(h.log) /\ t.last = Len(f.log)
        BY <1>2 DEF IsIngested
      <4>2. t.next <= t.last
        BY <1>4, <2>1 DEF HeaderOK, TasksOK
      <4>. QED BY <1>4, <2>1, <2>3, <3>2, <4>1, <4>2 DEF Task
    <3>4. t.next \in 1 .. Len(h.log)
      <4>1. t.next <= t.last /\ t.last <= Len(h.log)
        BY <1>4, <3>3 DEF HeaderOK, TasksOK
      <4>. QED BY <1>4, <2>1, <2>3, <4>1 DEF Task
    <3>5. QueueLaw(h, effects)
      BY <1>7, <3>1
    <3>. QED BY <1>4, <2>1, <3>1, <3>3, <3>4, <3>5 DEF QueueLaw
  <2>. QED BY <2>4, <2>5
<1>17. ASSUME NEW z \in DOMAIN txns'
       PROVE  /\ TaskLaw(txns'[z]) /\ DeliveredLaw(txns'[z], effects, activation)
              /\ QueueLaw(txns'[z], effects)
  <2>1. CASE z = id
    BY <1>4, <1>9, <1>15, <1>16, <2>1
  <2>2. CASE z # id
    <3>1. z \in DOMAIN txns /\ txns'[z] = txns[z]
      BY <1>4, <1>17, <2>2
    <3>. QED BY <3>1 DEF DeliverInv
  <2>. QED BY <2>1, <2>2
<1>18. FrontierLaw(wal, published, effects, activation)
  BY DEF DeliverInv
<1>. QED BY <1>3, <1>11, <1>14, <1>17, <1>18 DEF DeliverInv, q
-----------------------------------------------------------------------------
\* A publication step takes chunk c, positions in the log of header h, from task
\* t, and leaves the cursor at next.
IsChunk(h, t, c, next) ==
    /\ Len(c) \in Nat /\ next \in Nat
    /\ \A k \in 1 .. Len(c) : c[k] \in t.next .. t.last /\ c[k] \in 1 .. Len(h.log)
    /\ \A j, k \in 1 .. Len(c) : j < k => c[j] < c[k]
    /\ next # 0 => /\ next \in t.next .. t.last /\ next \in 1 .. Len(h.log)
                   /\ \A k \in 1 .. Len(c) : c[k] < next
    /\ \A i \in t.next .. t.last :
         h.log[i].source = t.source =>
            (\E k \in 1 .. Len(c) : c[k] = i) \/ (next # 0 /\ next <= i)

\* The rows of chunk c of h are appended to the stream of s.
IsAppended(eff, new, s, h, c) ==
    /\ \A q \in Sources : q # s => new[q] = eff[q]
    /\ Len(eff[s]) \in Nat /\ Len(new[s]) = Len(eff[s]) + Len(c)
    /\ \A k \in 1 .. Len(eff[s]) : new[s][k] = eff[s][k]
    /\ \A k \in 1 .. Len(c) : /\ new[s][Len(eff[s]) + k].commit = h.final
                              /\ new[s][Len(eff[s]) + k].lsn = h.log[c[k]].lsn

\* Without subtransactions the chunk takes what is next of the task's source.
LEMMA ChunkIs ==
    ASSUME Plain, SessionInv, TxnsOK, IngressAssumption, NEW w \in Candidates
    PROVE  IsChunk(txns[w.id], w.task, ChunkOf(w), NextInputSeq(w))
<1>. DEFINE h == txns[w.id]
            t == w.task
            rows == LiveRows(w)
            c == ChunkOf(w)
            next == NextInputSeq(w)
<1>1. /\ HeaderOK(h, Len(wal)) /\ t \in Task /\ t.next # 0 /\ t.last <= Len(h.log)
  BY CandidateFacts
<1>2. rows \in Seq(Nat)
  BY LiveRowsFacts
<1>3. /\ \A k \in 1 .. Len(rows) : rows[k] \in t.next .. t.last /\ rows[k] \in 1 .. Len(h.log)
      /\ \A j, k \in 1 .. Len(rows) : j < k => rows[j] < rows[k]
  BY LiveRowsFacts
<1>4. \A i \in t.next .. t.last :
        h.log[i].source = t.source /\ h.log[i].sub \notin h.aborted
          => \E k \in 1 .. Len(rows) : rows[k] = i
  BY LiveRowsFacts
<1>5. h.aborted = {}
  BY <1>1 DEF HeaderOK, Header, Plain
<1>6. /\ Len(c) \in Nat /\ Len(c) <= Len(rows)
      /\ \A k \in 1 .. Len(c) : c[k] = rows[k]
      /\ Len(rows) <= ChunkRows => Len(c) = Len(rows)
      /\ Len(rows) > ChunkRows => Len(c) = ChunkRows
  BY ChunkFacts
<1>7. next = IF Len(rows) > ChunkRows THEN rows[ChunkRows + 1] ELSE 0
  BY DEF NextInputSeq
<1>8. ChunkRows \in Nat /\ next \in Nat
  BY NextInputFacts DEF IngressAssumption
<1>. DEFINE l == Len(rows)
<1>9. l \in Nat
  BY <1>2
<1>. HIDE DEF h, t, c, next, rows
<1>10. \A k \in 1 .. Len(c) : k \in 1 .. l
  BY <1>6, <1>9
<1>11. /\ \A k \in 1 .. Len(c) : c[k] \in t.next .. t.last /\ c[k] \in 1 .. Len(h.log)
       /\ \A j, k \in 1 .. Len(c) : j < k => c[j] < c[k]
  BY <1>3, <1>6, <1>10
<1>12. ASSUME next # 0
       PROVE  /\ next \in t.next .. t.last /\ next \in 1 .. Len(h.log)
              /\ \A k \in 1 .. Len(c) : c[k] < next
  <2>1. l > ChunkRows /\ next = rows[ChunkRows + 1] /\ ChunkRows + 1 \in 1 .. l
    BY <1>7, <1>8, <1>9, <1>12
  <2>2. Len(c) = ChunkRows
    BY <1>6, <2>1
  <2>. QED BY <1>3, <1>6, <1>8, <1>10, <2>1, <2>2
<1>13. ASSUME NEW i \in t.next .. t.last, h.log[i].source = t.source
       PROVE  (\E k \in 1 .. Len(c) : c[k] = i) \/ (next # 0 /\ next <= i)
  <2>1. PICK k \in 1 .. l : rows[k] = i
    BY <1>4, <1>5, <1>13
  <2>2. CASE k <= Len(c)
    <3>1. k \in 1 .. Len(c)
      BY <1>6, <2>2
    <3>. QED BY <1>6, <2>1, <3>1
  <2>3. CASE ~(k <= Len(c))
    <3>1. l > ChunkRows /\ Len(c) = ChunkRows
      BY <1>6, <1>8, <1>9, <2>3
    <3>2. ChunkRows + 1 \in 1 .. l /\ next = rows[ChunkRows + 1] /\ ChunkRows + 1 <= k
      BY <1>6, <1>7, <1>8, <1>9, <2>3, <3>1
    <3>3. next <= rows[k]
      <4>1. CASE k = ChunkRows + 1
        BY <1>3, <1>8, <2>1, <3>2, <4>1
      <4>2. CASE ChunkRows + 1 < k
        <5>1. next < rows[k] /\ rows[k] \in Nat
          BY <1>3, <3>2, <4>2
        <5>. QED BY <1>8, <5>1
      <4>. QED BY <1>8, <3>2, <4>1, <4>2
    <3>4. next # 0
      BY <1>1, <1>3, <3>2 DEF t, Task
    <3>. QED BY <2>1, <3>3, <3>4
  <2>. QED BY <2>2, <2>3
<1>14. IsChunk(h, t, c, next)
  BY <1>6, <1>8, <1>11, <1>12, <1>13 DEF IsChunk
<1>. QED BY <1>14 DEF h, t, c, next

\* How a publication step changes the header of candidate w and the streams.
IsPublished(w, a, c, next) ==
    LET h == txns[w.id]
        t == w.task
    IN /\ txns' = PutHeader(w.id, a)
       /\ a.status = h.status /\ a.final = h.final /\ a.log = h.log
       /\ a.tasks = (h.tasks \ {t}) \cup {[t EXCEPT !.next = next]}
       /\ \/ next = 0 /\ ~Wants(t.source, h.final) /\ effects' = effects
          \/ /\ Wants(t.source, h.final)
             /\ IsChunk(h, t, c, next) /\ IsAppended(effects, effects', t.source, h, c)

\* publish_source either changes nothing or publishes one chunk of one task:
\* the cursor moves, and the chunk is appended where the source wants it.
LEMMA Published ==
    ASSUME Plain, SessionInv, TxnsInv, RowInv, IngressAssumption, PublishSource
    PROVE  \/ UNCHANGED <<txns, effects>>
           \/ \E w \in Candidates : \E a, c, next : IsPublished(w, a, c, next)
<1>0. TxnsOK /\ EffectRows /\ Len(wal) \in Nat
  BY DEF TxnsInv, RowInv, SessionInv, WalOK
<1>1. SUFFICES ASSUME NEW w \in Candidates, NEW next \in Nat, next <= w.task.last,
                      txns' = PutHeader(w.id, CursorAt(txns[w.id], w.task, next)),
                      \/ ~Wants(w.task.source, txns[w.id].final) /\ next = 0 /\ effects' = effects
                      \/ /\ Wants(w.task.source, txns[w.id].final) /\ next = NextInputSeq(w)
                         /\ effects' = [effects EXCEPT ![w.task.source] = effects[w.task.source] \o
                              [k \in DOMAIN ChunkOf(w) |->
                                 [xid |-> w.id.xid, lsn |-> txns[w.id].log[ChunkOf(w)[k]].lsn,
                                  commit |-> txns[w.id].final]]]
               PROVE  \E a, c : IsPublished(w, a, c, next)
  BY <1>0, PublishFacts
<1>. DEFINE h == txns[w.id]
            t == w.task
            s == t.source
            c == ChunkOf(w)
            a == CursorAt(h, t, next)
            rows == [k \in DOMAIN c |-> [xid |-> w.id.xid, lsn |-> h.log[c[k]].lsn,
                                         commit |-> h.final]]
<1>2. /\ HeaderOK(h, Len(wal)) /\ h.status = "committed" /\ t \in h.tasks /\ t \in Task
      /\ t.next # 0 /\ w.id.xid \in Xids /\ h.final \in Nat /\ s \in Sources
  <2>1. /\ w.id \in Id(Len(wal)) /\ HeaderOK(h, Len(wal)) /\ h.status = "committed"
        /\ t \in h.tasks /\ t \in Task /\ t.next # 0
    BY <1>0, CandidateFacts
  <2>. QED BY <1>0, <2>1, SMTT(30) DEF Id, Task, HeaderOK, Header
<1>3. /\ c \in Seq(Nat) /\ \A k \in 1 .. Len(c) : c[k] \in 1 .. Len(h.log)
      /\ IsChunk(h, t, c, NextInputSeq(w)) /\ Len(c) \in Nat
  BY <1>0, ChunkFacts, ChunkIs DEF IsChunk
<1>4. /\ txns' = PutHeader(w.id, a)
      /\ \/ ~Wants(s, h.final) /\ next = 0 /\ effects' = effects
         \/ /\ Wants(s, h.final) /\ next = NextInputSeq(w)
            /\ effects' = [effects EXCEPT ![s] = effects[s] \o rows]
  BY <1>1
<1>. HIDE DEF h, s, c
<1>5. /\ a.status = h.status /\ a.final = h.final /\ a.log = h.log
      /\ a.tasks = (h.tasks \ {t}) \cup {[t EXCEPT !.next = next]}
  <2>1. a = CursorAt(h, t, next) /\ next <= t.last
    BY <1>1
  <2>. HIDE DEF a, t
  <2>. QED BY <1>0, <1>2, <2>1, AdvancedFacts
<1>. HIDE DEF a
<1>6. ASSUME effects' = [effects EXCEPT ![s] = effects[s] \o rows]
      PROVE  IsAppended(effects, effects', s, h, c)
  <2>1. /\ rows = [k \in 1 .. Len(c) |-> rows[k]]
        /\ \A k \in 1 .. Len(c) : rows[k].commit = h.final /\ rows[k].lsn = h.log[c[k]].lsn
    <3>1. DOMAIN c = 1 .. Len(c)
      BY <1>3
    <3>. QED BY <3>1
  <2>2. effects[s] \in Seq(Effect) /\ effects \in [Sources -> Seq(Effect)]
    BY <1>0, <1>2 DEF EffectRows
  <2>. DEFINE old == effects[s]
              S == Effect \cup {rows[k] : k \in 1 .. Len(c)}
  <2>. HIDE DEF rows
  <2>3. old \in Seq(S) /\ rows \in Seq(S) /\ Len(rows) = Len(c)
    <3>1. Effect \subseteq S /\ \A k \in 1 .. Len(c) : rows[k] \in S
      OBVIOUS
    <3>. HIDE DEF S
    <3>2. old \in Seq(S)
      BY <2>2, <3>1, SeqGrows
    <3>3. rows \in Seq(S) /\ Len(rows) = Len(c)
      BY <1>3, <2>1, <3>1, FunctionIsSeq
    <3>. QED BY <3>2, <3>3
  <2>. HIDE DEF old, S
  <2>4. /\ Len(old \o rows) = Len(old) + Len(rows)
        /\ \A k \in 1 .. Len(old) + Len(rows) :
             (old \o rows)[k] = IF k <= Len(old) THEN old[k] ELSE rows[k - Len(old)]
    BY <2>3, ConcatProperties
  <2>5. Len(old) \in Nat
    BY <2>3
  <2>6. effects'[s] = old \o rows /\ \A q \in Sources : q # s => effects'[q] = effects[q]
    BY <1>2, <1>6, <2>2 DEF old
  <2>7. \A k \in 1 .. Len(old) : effects'[s][k] = old[k]
    BY <1>3, <2>3, <2>4, <2>5, <2>6
  <2>8. \A k \in 1 .. Len(c) : effects'[s][Len(old) + k] = rows[k]
    <3>1. SUFFICES ASSUME NEW k \in 1 .. Len(c) PROVE effects'[s][Len(old) + k] = rows[k]
      OBVIOUS
    <3>2. Len(old) + k \in 1 .. Len(old) + Len(rows) /\ ~(Len(old) + k <= Len(old))
          /\ (Len(old) + k) - Len(old) = k
      BY <1>3, <2>3, <2>5
    <3>. QED BY <2>4, <2>6, <3>2
  <2>. QED BY <2>1, <2>3, <2>4, <2>5, <2>6, <2>7, <2>8, ZenonT(30) DEF IsAppended, old
<1>. HIDE DEF rows
<1>7. IsPublished(w, a, c, next)
  BY <1>3, <1>4, <1>5, <1>6 DEF IsPublished, h, s
<1>. QED BY <1>7

\* A chunk is in log order, behind the cursor and before the cursor it leaves.
LEMMA ChunkOrder ==
    ASSUME NEW h, NEW t \in Task, NEW c, NEW next, IsChunk(h, t, c, next),
           Len(h.log) \in Nat, t.next \in 1 .. Len(h.log), t.last <= Len(h.log),
           \A k \in 1 .. Len(h.log) : h.log[k].lsn \in Nat,
           \A j, k \in 1 .. Len(h.log) : j < k => h.log[j].lsn < h.log[k].lsn
    PROVE  /\ \A k \in 1 .. Len(c) : /\ h.log[c[k]].lsn \in Nat
                                     /\ h.log[t.next].lsn <= h.log[c[k]].lsn
           /\ \A j, k \in 1 .. Len(c) : j < k => h.log[c[j]].lsn < h.log[c[k]].lsn
           /\ next # 0 => /\ h.log[next].lsn \in Nat /\ h.log[t.next].lsn <= h.log[next].lsn
                          /\ \A k \in 1 .. Len(c) : h.log[c[k]].lsn < h.log[next].lsn
           /\ \A i \in 1 .. Len(h.log) : i > t.last =>
                \A k \in 1 .. Len(c) : h.log[c[k]].lsn < h.log[i].lsn
<1>1. t.next \in Nat /\ t.last \in Nat
  BY DEF Task
<1>2. ASSUME NEW i \in t.next .. t.last, i \in 1 .. Len(h.log)
      PROVE  h.log[i].lsn \in Nat /\ h.log[t.next].lsn <= h.log[i].lsn
  <2>1. CASE i = t.next
    BY <1>2, <2>1
  <2>2. CASE t.next < i
    <3>1. h.log[t.next].lsn < h.log[i].lsn
      BY <1>2, <2>2
    <3>. QED BY <1>2, <3>1
  <2>. QED BY <1>1, <1>2, <2>1, <2>2
<1>3. \A k \in 1 .. Len(c) : c[k] \in t.next .. t.last /\ c[k] \in 1 .. Len(h.log)
  BY DEF IsChunk
<1>4. \A j, k \in 1 .. Len(c) : j < k => h.log[c[j]].lsn < h.log[c[k]].lsn
  BY <1>3 DEF IsChunk
<1>5. ASSUME next # 0
      PROVE  /\ h.log[next].lsn \in Nat /\ h.log[t.next].lsn <= h.log[next].lsn
             /\ \A k \in 1 .. Len(c) : h.log[c[k]].lsn < h.log[next].lsn
  BY <1>2, <1>3, <1>5 DEF IsChunk
<1>6. ASSUME NEW i \in 1 .. Len(h.log), i > t.last, NEW k \in 1 .. Len(c)
      PROVE  h.log[c[k]].lsn < h.log[i].lsn
  <2>1. c[k] < i /\ c[k] \in 1 .. Len(h.log)
    BY <1>1, <1>3, <1>6
  <2>. QED BY <2>1
<1>. QED BY <1>2, <1>3, <1>4, <1>5, <1>6

\* A chunk whose rows follow the stream keeps it in order.
LEMMA StreamAppended ==
    ASSUME NEW eff, NEW new, NEW p \in Nat, NEW h, NEW t \in Task, NEW c, NEW next,
           IsChunk(h, t, c, next), IsAppended(eff, new, t.source, h, c),
           Len(h.log) \in Nat, t.next \in 1 .. Len(h.log), t.last <= Len(h.log),
           \A k \in 1 .. Len(h.log) : h.log[k].lsn \in Nat,
           \A j, k \in 1 .. Len(h.log) : j < k => h.log[j].lsn < h.log[k].lsn,
           h.final \in Nat, h.final < p,
           \A s \in Sources : \A k \in 1 .. Len(eff[s]) :
              eff[s][k].commit \in Nat /\ eff[s][k].lsn \in Nat,
           StreamLaw(eff, p),
           \A k \in 1 .. Len(eff[t.source]) :
              Precedes(eff[t.source][k], h.final, h.log[t.next].lsn)
    PROVE  StreamLaw(new, p)
<1>. DEFINE s == t.source
            n == Len(eff[s])
            m == Len(c)
<1>0. s \in Sources
  BY DEF Task
<1>1. /\ \A q \in Sources : q # s => new[q] = eff[q]
      /\ n \in Nat /\ m \in Nat /\ Len(new[s]) = n + m
      /\ \A k \in 1 .. n : new[s][k] = eff[s][k]
      /\ \A k \in 1 .. m : /\ new[s][n + k].commit = h.final
                           /\ new[s][n + k].lsn = h.log[c[k]].lsn
  BY DEF IsAppended, IsChunk
<1>2. /\ \A k \in 1 .. m : h.log[c[k]].lsn \in Nat /\ h.log[t.next].lsn <= h.log[c[k]].lsn
      /\ \A j, k \in 1 .. m : j < k => h.log[c[j]].lsn < h.log[c[k]].lsn
  BY ChunkOrder
<1>. HIDE DEF s, n, m
<1>3. ASSUME NEW k \in 1 .. n + m, ~(k <= n) PROVE \E l \in 1 .. m : k = n + l
  <2>1. k - n \in 1 .. m /\ k = n + (k - n)
    BY <1>1, <1>3
  <2>. QED BY <2>1
<1>4. ASSUME NEW j \in 1 .. n + m, NEW k \in 1 .. n + m, j < k
      PROVE  Precedes(new[s][j], new[s][k].commit, new[s][k].lsn)
  <2>1. CASE k <= n
    <3>1. j \in 1 .. n /\ k \in 1 .. n
      BY <1>1, <1>4, <2>1
    <3>2. Precedes(eff[s][j], eff[s][k].commit, eff[s][k].lsn)
      BY <1>0, <1>4, <3>1 DEF StreamLaw, n
    <3>. QED BY <1>1, <3>1, <3>2
  <2>2. CASE ~(k <= n)
    <3>1. PICK l \in 1 .. m : k = n + l
      BY <1>3, <2>2
    <3>2. new[s][k].commit = h.final /\ new[s][k].lsn = h.log[c[l]].lsn
      BY <1>1, <3>1
    <3>3. CASE j <= n
      <4>1. j \in 1 .. n /\ new[s][j] = eff[s][j]
        BY <1>1, <3>3
      <4>2. Precedes(eff[s][j], h.final, h.log[t.next].lsn)
        BY <4>1 DEF s, n
      <4>3. eff[s][j].commit \in Nat /\ eff[s][j].lsn \in Nat
        BY <1>0, <4>1 DEF n
      <4>. QED BY <1>2, <3>2, <4>1, <4>2, <4>3, SMTT(30) DEF Precedes
    <3>4. CASE ~(j <= n)
      <4>1. PICK i \in 1 .. m : j = n + i
        BY <1>3, <3>4
      <4>2. i < l
        BY <1>1, <1>4, <3>1, <4>1
      <4>. QED BY <1>1, <1>2, <3>2, <4>1, <4>2 DEF Precedes
    <3>. QED BY <3>3, <3>4
  <2>. QED BY <2>1, <2>2
<1>5. ASSUME NEW k \in 1 .. n + m PROVE new[s][k].commit < p
  <2>1. CASE k <= n
    <3>1. k \in 1 .. n
      BY <1>1, <2>1
    <3>. QED BY <1>0, <1>1, <3>1 DEF StreamLaw, n
  <2>2. CASE ~(k <= n)
    BY <1>1, <1>3, <2>2
  <2>. QED BY <2>1, <2>2
<1>6. SUFFICES ASSUME NEW q \in Sources
               PROVE  /\ \A j, k \in 1 .. Len(new[q]) :
                           j < k => Precedes(new[q][j], new[q][k].commit, new[q][k].lsn)
                      /\ \A k \in 1 .. Len(new[q]) : new[q][k].commit < p
  BY DEF StreamLaw
<1>7. CASE q = s
  BY <1>1, <1>4, <1>5, <1>7
<1>8. CASE q # s
  <2>1. new[q] = eff[q]
    BY <1>1, <1>8
  <2>. QED BY <2>1 DEF StreamLaw
<1>. QED BY <1>7, <1>8

\* Rows that precede what a task is to append keep it in its place.
LEMMA QueueAppended ==
    ASSUME NEW eff, NEW new, NEW h, NEW t, NEW c, NEW u, NEW final, NEW lsn,
           IsAppended(eff, new, t.source, h, c), u.source \in Sources, Len(c) \in Nat,
           \A k \in 1 .. Len(eff[u.source]) : Precedes(eff[u.source][k], final, lsn),
           u.source = t.source => \A k \in 1 .. Len(c) :
              h.final < final \/ (h.final = final /\ h.log[c[k]].lsn < lsn)
    PROVE  \A k \in 1 .. Len(new[u.source]) : Precedes(new[u.source][k], final, lsn)
<1>. DEFINE s == t.source
            n == Len(eff[s])
            m == Len(c)
<1>1. /\ \A q \in Sources : q # s => new[q] = eff[q]
      /\ n \in Nat /\ m \in Nat /\ Len(new[s]) = n + m
      /\ \A k \in 1 .. n : new[s][k] = eff[s][k]
      /\ \A k \in 1 .. m : /\ new[s][n + k].commit = h.final
                           /\ new[s][n + k].lsn = h.log[c[k]].lsn
  BY DEF IsAppended
<1>2. CASE u.source # s
  <2>1. new[u.source] = eff[u.source]
    BY <1>1, <1>2
  <2>. QED BY <2>1
<1>3. CASE u.source = s
  <2>1. SUFFICES ASSUME NEW k \in 1 .. Len(new[s]) PROVE Precedes(new[s][k], final, lsn)
    BY <1>3
  <2>2. \A j \in 1 .. n : Precedes(eff[s][j], final, lsn)
    BY <1>3
  <2>3. \A j \in 1 .. m : h.final < final \/ (h.final = final /\ h.log[c[j]].lsn < lsn)
    BY <1>3
  <2>. HIDE DEF s, n, m
  <2>4. CASE k <= n
    <3>1. k \in 1 .. n
      BY <1>1, <2>4
    <3>. QED BY <1>1, <2>2, <3>1
  <2>5. CASE ~(k <= n)
    <3>1. PICK l \in 1 .. m : k = n + l
      <4>1. k - n \in 1 .. m /\ k = n + (k - n)
        BY <1>1, <2>1, <2>5
      <4>. QED BY <4>1
    <3>. QED BY <1>1, <2>3, <3>1 DEF Precedes
  <2>. QED BY <2>4, <2>5
<1>. QED BY <1>2, <1>3

\* The header whose task took the chunk: what was covered is in the stream, or
\* still covered.
LEMMA CursorDelivers ==
    ASSUME NEW eff, NEW new, NEW act, NEW h, NEW a, NEW t \in Task, t \in h.tasks, t.next # 0,
           NEW c, NEW next, h.tasks \in SUBSET Task,
           a.status = h.status, a.final = h.final, a.log = h.log,
           a.tasks = (h.tasks \ {t}) \cup {[t EXCEPT !.next = next]},
           Len(h.log) \in Nat,
           \/ next = 0 /\ ~Awaits(act, t.source, h.final) /\ new = eff
           \/ IsChunk(h, t, c, next) /\ IsAppended(eff, new, t.source, h, c),
           TaskLaw(h), DeliveredLaw(h, eff, act), h.status = "committed",
           \A s \in Sources : \A i : InStream(eff, s, i) => InStream(new, s, i),
           \A k \in 1 .. Len(h.log) : h.log[k].source \in Sources
    PROVE  TaskLaw(a) /\ DeliveredLaw(a, new, act)
<1>. DEFINE v == [t EXCEPT !.next = next]
<1>1. /\ v.batch = t.batch /\ v.last = t.last /\ v.source = t.source /\ v.next = next
      /\ a.tasks = (h.tasks \ {t}) \cup {v} /\ t.next \in Nat /\ t.last \in Nat
  BY DEF Task
<1>. HIDE DEF v
<1>2. next # 0 => next \in Nat /\ t.next <= next
  BY DEF IsChunk
<1>3. TaskLaw(a)
  <2>1. SUFFICES ASSUME NEW x \in a.tasks, NEW u \in a.tasks, x.batch < u.batch, u.next # 0
                 PROVE  x.last < u.next
    BY DEF TaskLaw
  <2>2. PICK y \in h.tasks : y.batch = x.batch /\ y.last = x.last /\ y.last \in Nat
    BY <1>1 DEF Task
  <2>3. PICK z \in h.tasks : z.batch = u.batch /\ z.next # 0 /\ (z = u \/ (z = t /\ u = v))
    BY <1>1, <2>1
  <2>4. y.last < z.next
    BY <2>1, <2>2, <2>3 DEF TaskLaw
  <2>5. CASE z = u
    BY <2>2, <2>4, <2>5
  <2>6. CASE z = t /\ u = v
    <3>1. next \in Nat /\ t.next <= next
      BY <1>1, <1>2, <2>1, <2>6
    <3>2. x.last \in Nat /\ x.last < t.next /\ u.next = next
      BY <1>1, <2>2, <2>4, <2>6
    <3>. QED BY <1>1, <3>1, <3>2
  <2>. QED BY <2>3, <2>5, <2>6
<1>4. ASSUME NEW k \in 1 .. Len(h.log), Awaits(act, h.log[k].source, h.final)
      PROVE  InStream(new, h.log[k].source, h.log[k].lsn) \/ Covered(a, k)
  <2>. DEFINE s == h.log[k].source
  <2>1. CASE InStream(eff, s, h.log[k].lsn)
    BY <2>1
  <2>2. ASSUME NEW u \in h.tasks, Covers(u, h, k), u # t PROVE Covered(a, k)
    BY <1>1, <2>2 DEF Covered, Covers
  <2>3. CASE Covers(t, h, k)
    <3>1. t.source = s /\ t.next <= k /\ k <= t.last
      BY <2>3 DEF Covers
    <3>2. IsChunk(h, t, c, next) /\ IsAppended(eff, new, s, h, c)
      BY <1>4, <3>1
    <3>3. k \in t.next .. t.last
      BY <1>1, <3>1
    <3>4. CASE \E l \in 1 .. Len(c) : c[l] = k
      <4>1. PICK l \in 1 .. Len(c) : c[l] = k
        BY <3>4
      <4>. DEFINE n == Len(eff[s])
                  m == Len(c)
      <4>2. n \in Nat /\ m \in Nat /\ Len(new[s]) = n + m
            /\ new[s][n + l].lsn = h.log[k].lsn
        BY <3>2, <4>1 DEF IsAppended, IsChunk
      <4>. HIDE DEF n, m, s
      <4>3. n + l \in 1 .. Len(new[s])
        BY <4>1, <4>2 DEF m
      <4>. QED BY <4>2, <4>3 DEF InStream, s
    <3>5. CASE next # 0 /\ next <= k
      <4>1. Covers(v, a, k)
        BY <1>1, <3>1, <3>5 DEF Covers
      <4>. QED BY <1>1, <4>1 DEF Covered
    <3>. QED BY <3>1, <3>2, <3>3, <3>4, <3>5 DEF IsChunk
  <2>4. InStream(eff, s, h.log[k].lsn) \/ Covered(h, k)
    BY <1>4 DEF DeliveredLaw
  <2>. QED BY <2>1, <2>2, <2>3, <2>4 DEF Covered
<1>5. DeliveredLaw(a, new, act)
  BY <1>4 DEF DeliveredLaw
<1>. QED BY <1>3, <1>5

\* What a publication step appends follows all that is in the stream, and
\* precedes all that waits for it.
LEMMA DeliverPublish ==
    ASSUME Plain, SessionInv, TxnsInv, RowInv, StageInv, DeliverInv,
           IngressAssumption, PublishSource
    PROVE  DeliverInv'
<1>1. UNCHANGED <<wal, persisted, published, activation>>
  BY DEF PublishSource, replayVars
<1>2. CASE UNCHANGED <<txns, effects>>
  BY <1>1, <1>2 DEF DeliverInv
<1>3. ASSUME NEW w \in Candidates, NEW a, NEW c, NEW next, IsPublished(w, a, c, next)
      PROVE  DeliverInv'
  <2>. DEFINE h == txns[w.id]
              t == w.task
              s == t.source
  <2>1. /\ w.id \in DOMAIN txns /\ HeaderOK(h, Len(wal)) /\ w.id \in Id(Len(wal))
        /\ h.status = "committed" /\ t \in h.tasks /\ t \in Task
        /\ t.next # 0 /\ t.next <= t.last /\ t.last <= Len(h.log)
        /\ \A v \in Waiting : v.task.source = s => ~EarlierTask(v, w)
    BY CandidateFacts DEF TxnsInv
  <2>2. /\ Len(h.log) \in Nat /\ h.final \in Nat /\ h.final < persisted /\ persisted \in Nat
        /\ CommitAt(wal, h.final, w.id.xid)
        /\ \A k \in 1 .. Len(h.log) : h.log[k].lsn \in Nat
        /\ \A j, k \in 1 .. Len(h.log) : j < k => h.log[j].lsn < h.log[k].lsn
    <3>1. /\ Len(h.log) \in Nat /\ h.final \in Nat /\ persisted \in Nat
          /\ HeaderLaw(wal, w.id, h, persisted)
          /\ CommitAt(wal, h.final, w.id.xid) /\ InOrder(wal, w.id.xid, h)
      BY <2>1, PlainHeaders
    <3>2. \A k \in 1 .. Len(h.log) : h.log[k].lsn \in Writes(wal, w.id.xid)
      BY <2>1, PlainHeaders
    <3>. QED BY <2>1, <3>1, <3>2 DEF HeaderLaw, InOrder, Writes
  <2>3. /\ h.tasks \in SUBSET Task /\ TasksOK(h)
        /\ \A k \in 1 .. Len(h.log) : h.log[k].source \in Sources
    <3>1. h \in Header(Len(wal)) /\ TasksOK(h)
      BY <2>1 DEF HeaderOK
    <3>. HIDE DEF h
    <3>2. h.log \in Seq(EventAt(Len(wal))) /\ h.tasks \in SUBSET Task
      BY <3>1 DEF Header
    <3>3. \A k \in 1 .. Len(h.log) : h.log[k] \in EventAt(Len(wal))
      BY <3>2, ElementOfSeq
    <3>. QED BY <3>1, <3>2, <3>3 DEF EventAt
  <2>4. /\ t.next \in 1 .. Len(h.log) /\ s \in Sources /\ t.last \in Nat
    BY <2>1, <2>2 DEF Task
  <2>5. /\ TaskLaw(h) /\ DeliveredLaw(h, effects, activation) /\ QueueLaw(h, effects)
        /\ StreamLaw(effects, persisted) /\ FrontierLaw(wal, published, effects, activation)
        /\ DoneLaw(wal, txns, persisted, published)
    BY <2>1 DEF DeliverInv
  <2>6. /\ txns' = [i \in DOMAIN txns \cup {w.id} |-> IF i = w.id THEN a ELSE txns[i]]
        /\ a.status = h.status /\ a.final = h.final /\ a.log = h.log
        /\ a.tasks = (h.tasks \ {t}) \cup {[t EXCEPT !.next = next]}
        /\ \/ next = 0 /\ ~Wants(s, h.final) /\ effects' = effects
           \/ /\ Wants(s, h.final)
              /\ IsChunk(h, t, c, next) /\ IsAppended(effects, effects', s, h, c)
    BY <1>3 DEF IsPublished, PutHeader
  <2>7. \A q \in Sources : \A k \in 1 .. Len(effects[q]) :
          effects[q][k].commit \in Nat /\ effects[q][k].lsn \in Nat
    <3>1. \A q \in Sources : \A k \in 1 .. Len(effects[q]) :
            IsCommit(effects[q][k].commit, effects[q][k].xid)
            /\ IsRow(effects[q][k].lsn, effects[q][k].xid, q)
      BY DEF RowInv, EffectRows
    <3>2. \A i, y, q : /\ IsCommit(i, y) => i \in Nat
                       /\ IsRow(i, y, q) => i \in Nat
      BY PlainHeaders DEF IsCommit, IsRow, Positions
    <3>. QED BY <3>1, <3>2
  <2>. DEFINE new == effects'
  <2>. HIDE DEF h, t, s, new
  <2>8. ASSUME NEW q \in Sources, NEW i, InStream(effects, q, i) PROVE InStream(new, q, i)
    <3>1. PICK k \in 1 .. Len(effects[q]) : effects[q][k].lsn = i
      BY <2>8 DEF InStream
    <3>2. CASE new[q] = effects[q]
      BY <2>8, <3>2 DEF InStream
    <3>3. CASE q = s /\ IsChunk(h, t, c, next) /\ IsAppended(effects, new, s, h, c)
      <4>1. /\ Len(effects[s]) \in Nat /\ Len(c) \in Nat
            /\ Len(new[s]) = Len(effects[s]) + Len(c)
            /\ new[s][k] = effects[s][k]
        BY <3>1, <3>3 DEF IsAppended, IsChunk
      <4>2. k \in 1 .. Len(new[s])
        BY <3>1, <3>3, <4>1
      <4>. QED BY <3>1, <3>3, <4>1, <4>2 DEF InStream
    <3>. QED BY <2>6, <3>2, <3>3 DEF IsAppended, new
  <2>9. TaskLaw(a) /\ DeliveredLaw(a, new, activation)
    <3>1. Wants(s, h.final) <=> Awaits(activation, s, h.final)
      BY DEF Wants, Awaits
    <3>2. \/ next = 0 /\ ~Awaits(activation, t.source, h.final) /\ new = effects
          \/ IsChunk(h, t, c, next) /\ IsAppended(effects, new, t.source, h, c)
      BY <2>6, <3>1 DEF s, new
    <3>. QED BY <2>1, <2>2, <2>3, <2>5, <2>6, <2>8, <3>2, CursorDelivers
  <2>10. StreamLaw(new, persisted)
    <3>1. CASE new = effects
      BY <2>5, <3>1
    <3>2. CASE IsChunk(h, t, c, next) /\ IsAppended(effects, new, t.source, h, c)
      <4>1. \A k \in 1 .. Len(effects[t.source]) :
               Precedes(effects[t.source][k], h.final, h.log[t.next].lsn)
        BY <2>1, <2>5 DEF QueueLaw
      <4>. QED BY <2>1, <2>2, <2>4, <2>5, <2>7, <3>2, <4>1, StreamAppended
    <3>. QED BY <2>6, <3>1, <3>2 DEF s, new
  <2>11. ASSUME NEW z \in DOMAIN txns, txns[z].status = "committed",
                NEW u \in txns[z].tasks, u.next # 0, u.source \in Sources,
                z = w.id => u # t
         PROVE  \A k \in 1 .. Len(new[u.source]) :
                   Precedes(new[u.source][k], txns[z].final, txns[z].log[u.next].lsn)
    <3>. DEFINE g == txns[z]
    <3>1. \A k \in 1 .. Len(effects[u.source]) :
            Precedes(effects[u.source][k], g.final, g.log[u.next].lsn)
      BY <2>11 DEF DeliverInv, QueueLaw
    <3>2. CASE new = effects
      BY <3>1, <3>2
    <3>3. CASE IsChunk(h, t, c, next) /\ IsAppended(effects, new, t.source, h, c)
      <4>1. u.source = t.source => \A k \in 1 .. Len(c) :
               h.final < g.final \/ (h.final = g.final /\ h.log[c[k]].lsn < g.log[u.next].lsn)
        <5>1. SUFFICES ASSUME u.source = t.source, NEW k \in 1 .. Len(c)
                       PROVE  h.final < g.final
                              \/ (h.final = g.final /\ h.log[c[k]].lsn < g.log[u.next].lsn)
          OBVIOUS
        <5>2. ~EarlierTask([id |-> z, task |-> u], w)
          <6>. DEFINE v == [id |-> z, task |-> u]
          <6>1. v \in Waiting
            BY <2>11 DEF Waiting, Tasks
          <6>2. v.task.source = s
            BY <5>1 DEF s
          <6>. QED BY <2>1, <6>1, <6>2
        <5>3. g.final \in Nat /\ CommitAt(wal, g.final, z.xid)
          BY <2>11, PlainHeaders
        <5>4. ~(g.final < h.final)
          BY <5>2 DEF EarlierTask, h
        <5>5. CASE z = w.id
          <6>1. g = h /\ u \in h.tasks /\ u # t
            BY <2>11, <5>5 DEF h
          <6>2. u \in Task
            BY <2>3, <6>1
          <6>3. ~(u.batch < t.batch)
            BY <5>2, <5>5 DEF EarlierTask, t
          <6>4. u.batch # t.batch
            BY <2>1, <2>3, <5>1, <6>1 DEF TasksOK
          <6>5. t.batch < u.batch
            BY <2>1, <6>2, <6>3, <6>4 DEF Task
          <6>6. t.last < u.next
            BY <2>1, <2>5, <2>11, <6>1, <6>5 DEF TaskLaw
          <6>7. u.next \in 1 .. Len(h.log)
            BY <2>2, <2>3, <2>11, <6>1, <6>2 DEF TasksOK, Task
          <6>8. h.log[c[k]].lsn < h.log[u.next].lsn
            <7>1. u.next > t.last
              BY <2>4, <6>2, <6>6 DEF Task
            <7>. QED BY <2>1, <2>2, <2>4, <3>3, <5>1, <6>7, <7>1, ChunkOrder
          <6>. QED BY <6>1, <6>8
        <5>6. CASE z # w.id
          <6>1. g.final # h.final
            <7>1. SUFFICES ASSUME g.final = h.final PROVE FALSE
              OBVIOUS
            <7>2. z.xid = w.id.xid
              BY <2>2, <5>3, <7>1 DEF CommitAt
            <7>. QED BY <2>1, <2>11, <5>6, <7>2, PlainHeaders
          <6>. QED BY <2>2, <5>3, <5>4, <6>1
        <5>. QED BY <5>5, <5>6
      <4>2. Len(c) \in Nat
        BY <3>3 DEF IsChunk
      <4>. HIDE DEF g
      <4>3. \A k \in 1 .. Len(new[u.source]) :
              Precedes(new[u.source][k], g.final, g.log[u.next].lsn)
        BY <2>11, <3>1, <3>3, <4>1, <4>2, QueueAppended
      <4>. QED BY <4>3 DEF g
    <3>. QED BY <2>6, <3>2, <3>3 DEF s, new
  <2>12. QueueLaw(a, new)
    <3>. DEFINE v == [t EXCEPT !.next = next]
    <3>1. SUFFICES ASSUME NEW u \in a.tasks, u.next # 0, NEW k \in 1 .. Len(new[u.source])
                   PROVE  Precedes(new[u.source][k], a.final, a.log[u.next].lsn)
      BY DEF QueueLaw
    <3>2. v.source = t.source /\ v.next = next
      BY <2>1 DEF Task
    <3>. HIDE DEF v
    <3>3. CASE u \in h.tasks /\ u # t
      <4>1. h = txns[w.id] /\ u.source \in Sources
        BY <2>3, <3>3 DEF h, Task
      <4>. QED BY <2>1, <2>6, <2>11, <3>1, <3>3, <4>1
    <3>4. CASE u = v
      <4>1. /\ IsChunk(h, t, c, next) /\ IsAppended(effects, new, t.source, h, c) /\ next # 0
            /\ u.source = t.source /\ u.next = next /\ t.source \in Sources
        BY <2>4, <2>6, <3>1, <3>2, <3>4 DEF s, new
      <4>2. /\ h.log[next].lsn \in Nat /\ h.log[t.next].lsn <= h.log[next].lsn
            /\ \A l \in 1 .. Len(c) : h.log[c[l]].lsn < h.log[next].lsn
        BY <2>1, <2>2, <2>4, <4>1, ChunkOrder
      <4>3. ASSUME NEW l \in 1 .. Len(effects[t.source])
            PROVE  Precedes(effects[t.source][l], h.final, h.log[next].lsn)
        <5>1. Precedes(effects[t.source][l], h.final, h.log[t.next].lsn)
          BY <2>1, <2>5 DEF QueueLaw
        <5>2. effects[t.source][l].lsn \in Nat /\ h.log[t.next].lsn \in Nat
          BY <2>2, <2>4, <2>7, <4>1
        <5>. QED BY <4>2, <5>1, <5>2 DEF Precedes
      <4>4. Len(c) \in Nat
        BY <4>1 DEF IsChunk
      <4>5. \A l \in 1 .. Len(new[u.source]) : Precedes(new[u.source][l], h.final, h.log[next].lsn)
        BY <4>1, <4>2, <4>3, <4>4, QueueAppended
      <4>. QED BY <2>6, <3>1, <4>1, <4>5
    <3>. QED BY <2>6, <3>1, <3>3, <3>4 DEF v
  <2>13. ASSUME NEW z \in DOMAIN txns'
         PROVE  TaskLaw(txns'[z]) /\ DeliveredLaw(txns'[z], new, activation) /\ QueueLaw(txns'[z], new)
    <3>1. CASE z = w.id
      BY <2>6, <2>9, <2>12, <3>1
    <3>2. CASE z # w.id
      <4>1. z \in DOMAIN txns /\ txns'[z] = txns[z]
        BY <2>6, <2>13, <3>2
      <4>. DEFINE g == txns[z]
      <4>2. TaskLaw(g) /\ DeliveredLaw(g, effects, activation)
        BY <4>1 DEF DeliverInv
      <4>3. g \in Header(Len(wal))
        BY <4>1, PlainHeaders DEF HeaderOK
      <4>4. QueueLaw(g, new)
        <5>1. g.tasks \in SUBSET Task
          BY <4>3 DEF Header
        <5>2. \A u \in g.tasks : u.source \in Sources
          BY <5>1 DEF Task
        <5>. QED BY <2>11, <3>2, <4>1, <5>2 DEF QueueLaw
      <4>5. DeliveredLaw(g, new, activation)
        <5>. HIDE DEF g
        <5>1. g.log \in Seq(EventAt(Len(wal)))
          BY <4>3 DEF Header
        <5>2. \A k \in 1 .. Len(g.log) : g.log[k] \in EventAt(Len(wal))
          BY <5>1, ElementOfSeq
        <5>3. \A k \in 1 .. Len(g.log) : g.log[k].source \in Sources
          BY <5>2 DEF EventAt
        <5>. QED BY <2>8, <4>2, <5>3 DEF DeliveredLaw
      <4>. QED BY <4>1, <4>2, <4>4, <4>5
    <3>. QED BY <3>1, <3>2
  <2>14. DoneLaw(wal, txns', persisted, published)
    <3>1. /\ DOMAIN txns' = DOMAIN txns
          /\ \A z \in DOMAIN txns : txns'[z].status = txns[z].status /\ txns'[z].final = txns[z].final
      BY <2>1, <2>6 DEF h
    <3>. QED BY <2>5, <3>1 DEF DoneLaw
  <2>15. FrontierLaw(wal, published, new, activation)
    BY <2>5, <2>8 DEF FrontierLaw
  <2>. QED BY <1>1, <2>10, <2>13, <2>14, <2>15 DEF DeliverInv, new
<1>. QED BY <1>2, <1>3, Published
-----------------------------------------------------------------------------
\* Nothing has been ended, logged or published in the initial state.
LEMMA DeliverInit == ASSUME Init PROVE DeliverInv
<1>1. Len(wal) = 0 /\ published = 0 /\ DOMAIN txns = {}
  BY DEF Init
<1>2. \A s \in Sources : Len(effects[s]) = 0
  BY DEF Init
<1>. QED BY <1>1, <1>2 DEF DeliverInv, DoneLaw, FrontierLaw, StreamLaw

\* One step per action that touches the log, the headers, the streams or the
\* progress columns.
LEMMA DeliverStep ==
    ASSUME Plain, IngressAssumption, SessionInv, TxnsInv, RowInv, StageInv, DeliverInv,
           SessionInv', TxnsInv', RowInv', [Next]_vars
    PROVE  DeliverInv'
<1>1. Extends(wal, wal')
  BY PlainStep DEF StageInv
<1>2. ASSUME UNCHANGED <<txns, persisted, published, effects, activation>>
      PROVE  DeliverInv'
  BY <1>1, <1>2, DeliverLog
<1>3. ASSUME NEW x \in Xids, NEW s \in Sources, NEW sub, WriteChange(x, sub, s)
      PROVE  DeliverInv'
  BY <1>2, <1>3 DEF WriteChange, WriteRecord, streamVars, replayVars
<1>4. ASSUME NEW x \in Xids, NEW sub, WriteRollback(x, sub) \/ WriteEnd(x, sub)
      PROVE  DeliverInv'
  BY <1>2, <1>4 DEF WriteRollback, WriteEnd, WriteRecord, streamVars, replayVars
<1>5. ASSUME NEW s \in Sources, RegisterSource(s) PROVE DeliverInv'
  <2>1. /\ UNCHANGED <<wal, txns, persisted, published, effects>>
        /\ activation' = [activation EXCEPT ![s] = Len(wal) + 1]
    BY <1>5 DEF RegisterSource, replayVars
  <2>2. activation'[s] > Len(wal) /\ \A q \in Sources : q # s => activation'[q] = activation[q]
    BY <2>1, PlainHeaders DEF SessionInv, ScalarsOK
  <2>. QED BY <2>1, <2>2, DeliverSources
<1>6. ASSUME NEW s \in Sources, DropSource(s) PROVE DeliverInv'
  <2>1. /\ UNCHANGED <<wal, txns, persisted, published>>
        /\ effects' = [effects EXCEPT ![s] = <<>>]
        /\ activation' = [activation EXCEPT ![s] = 0]
    BY <1>6 DEF DropSource, replayVars
  <2>2. /\ activation'[s] = 0 /\ effects'[s] = <<>>
        /\ \A q \in Sources : q # s => activation'[q] = activation[q] /\ effects'[q] = effects[q]
    BY <2>1 DEF SessionInv, ScalarsOK, RowInv, EffectRows
  <2>. QED BY <2>1, <2>2, DeliverSources
<1>7. ASSUME NEW s \in Sources, DrainStream(s) PROVE DeliverInv'
  BY <1>2, <1>7 DEF DrainStream, replayVars
<1>8. CASE Walsender
  BY <1>2, <1>8 DEF Walsender, Decode, SlotConfirms, StreamSegment, streamVars, replayVars
<1>9. CASE IngestRefused \/ IngestNothing \/ SendStatus \/ RecordFeedback \/ RuntimeCrash
  BY <1>2, <1>9 DEF IngestRefused, IngestNothing, SendStatus, RecordFeedback, RuntimeCrash,
                    streamVars, replayVars
<1>10. CASE StartRuntime
  BY <1>2, <1>10 DEF StartRuntime, StageInv, NoRestart, streamVars, replayVars
<1>11. CASE PostmasterRestart
  BY <1>11 DEF PostmasterRestart, Plain, StageInv, NoRestart
<1>12. CASE UNCHANGED vars
  BY <1>2, <1>12 DEF vars
<1>. QED BY <1>3, <1>4, <1>5, <1>6, <1>7, <1>8, <1>9, <1>10, <1>11, <1>12,
            DeliverPublish, DeliverFrontier, DeliverIngest, DeliverGarbage
         DEF Next, Source, Runtime, Fault

\* The invariants of all the parts of ingress together are inductive.
LEMMA DeliverInvariant ==
    ASSUME Plain
    PROVE  Spec => [](SessionInv /\ TxnsInv /\ RowInv /\ StageInv /\ DeliverInv)
<1>. DEFINE IInv == SessionInv /\ TxnsInv /\ RowInv /\ StageInv /\ DeliverInv
<1>1. Init => IInv
  BY SessionInit, TxnsInit, RowInit, StageInit, DeliverInit, IngressAssumption
<1>2. IInv /\ [Next]_vars => IInv'
  <2>1. SUFFICES ASSUME SessionInv, TxnsInv, RowInv, StageInv, DeliverInv, [Next]_vars
                 PROVE  IInv'
    OBVIOUS
  <2>2. SessionInv' /\ TxnsInv' /\ RowInv'
    BY <2>1, SessionStep, TxnsStep, RowStep, IngressAssumption
  <2>3. StageInv'
    BY <2>1, StageStep, IngressAssumption
  <2>4. DeliverInv'
    BY <2>1, <2>2, DeliverStep, IngressAssumption
  <2>. QED BY <2>2, <2>3, <2>4
<1>. QED BY <1>1, <1>2, PTL DEF Spec

\* The commit record of a committed transaction.
LEMMA CommitRecord ==
    ASSUME SessionInv, RowInv, StageInv, NEW x, Committed(x)
    PROVE  CommitAt(wal, CommitLsn(x), x)
<1>1. CommitLsn(x) \in CommitLsns(x)
  BY DEF Committed, CommitLsn
<1>. QED BY <1>1 DEF CommitLsns, CommitAt, Positions

\* CommitOrder: rows reach a source stream in commit order and within a
\* transaction in WAL order, each exactly once, however transactions were
\* streamed, interrupted by crashes and sent again.
THEOREM RowsInCommitOrder ==
    ASSUME Subs = {}, MaxRestarts = 0 PROVE Spec => []CommitOrder
<1>1. ASSUME SessionInv, RowInv, DeliverInv PROVE CommitOrder
  <2>1. StreamLaw(effects, persisted) /\ EffectRows
    BY <1>1 DEF DeliverInv, RowInv
  <2>2. SUFFICES ASSUME NEW s \in Sources, NEW k \in 1 .. Len(effects[s]) - 1
                 PROVE  Precedes(effects[s][k], effects[s][k + 1].commit, effects[s][k + 1].lsn)
    BY DEF CommitOrder, Precedes
  <2>. DEFINE n == Len(effects[s])
  <2>3. n \in Nat
    BY <2>1 DEF EffectRows
  <2>. HIDE DEF n
  <2>4. k \in 1 .. n /\ k + 1 \in 1 .. n /\ k < k + 1
    BY <2>2, <2>3 DEF n
  <2>. QED BY <2>1, <2>4 DEF StreamLaw, n
<1>. QED BY <1>1, DeliverInvariant, PTL DEF Plain

\* PersistedComplete: a transaction that committed before persisted_lsn, where
\* replication resumes, is published or staged completely and still committed.
THEOREM PersistedIsComplete ==
    ASSUME Subs = {}, MaxRestarts = 0 PROVE Spec => []PersistedComplete
<1>1. ASSUME SessionInv, TxnsInv, RowInv, StageInv, DeliverInv PROVE PersistedComplete
  <2>. USE <1>1
  <2>1. SUFFICES ASSUME NEW x \in Xids, Committed(x), CommitLsn(x) < persisted,
                        CommitLsn(x) > published
                 PROVE  \E id \in DOMAIN txns :
                          /\ id.xid = x /\ txns[id].status = "committed"
                          /\ txns[id].final = CommitLsn(x)
                          /\ \A i \in Changes(x) : i \in LoggedLsns(txns[id])
    BY DEF PersistedComplete
  <2>2. CommitAt(wal, CommitLsn(x), x)
    BY <2>1, CommitRecord
  <2>3. PICK id \in DOMAIN txns : /\ id.xid = x /\ txns[id].status = "committed"
                                  /\ txns[id].final = CommitLsn(x)
    BY <2>1, <2>2 DEF DeliverInv, DoneLaw, CommitAt
  <2>4. ASSUME NEW i \in Changes(x) PROVE i \in LoggedLsns(txns[id])
    <3>1. i \in Writes(wal, x)
      BY DEF Changes, IsChange, Positions, Writes
    <3>2. Has(txns[id], i)
      BY <2>3, <3>1 DEF StageInv, HeadersLaw, HeaderLaw
    <3>. DEFINE h == txns[id]
    <3>3. h \in Header(Len(wal))
      BY PlainHeaders DEF HeaderOK
    <3>. HIDE DEF h
    <3>4. DOMAIN h.log = 1 .. Len(h.log)
      BY <3>3 DEF Header
    <3>. QED BY <3>2, <3>4 DEF LoggedLsns, Has, h
  <2>. QED BY <2>3, <2>4
<1>. QED BY <1>1, DeliverInvariant, PTL DEF Plain

\* FrontierComplete: no row that committed at or before published_lsn is missing
\* from the stream of a Scan that waits for it.
THEOREM FrontierIsComplete ==
    ASSUME Subs = {}, MaxRestarts = 0 PROVE Spec => []FrontierComplete
<1>1. ASSUME SessionInv, TxnsInv, RowInv, StageInv, DeliverInv PROVE FrontierComplete
  <2>. USE <1>1
  <2>1. SUFFICES ASSUME NEW s \in Sources, NEW i \in Positions, IsWanted(s, i),
                        CommitLsn(wal[i].xid) <= published
                 PROVE  i \in EffectLsns(s)
    BY DEF FrontierComplete
  <2>. DEFINE x == wal[i].xid
              c == CommitLsn(x)
  <2>2. CommitAt(wal, c, x) /\ Awaits(activation, s, c)
    BY <2>1, CommitRecord DEF IsWanted, Wants, Awaits
  <2>3. i \in Writes(wal, x) /\ wal[i].source = s
    BY <2>1 DEF IsWanted, Writes, Positions
  <2>. HIDE DEF x, c
  <2>4. InStream(effects, s, i)
    BY <2>1, <2>2, <2>3 DEF DeliverInv, FrontierLaw, CommitAt, x, c
  <2>5. DOMAIN effects[s] = 1 .. Len(effects[s])
    BY DEF RowInv, EffectRows
  <2>. QED BY <2>4, <2>5 DEF InStream, EffectLsns
<1>. QED BY <1>1, DeliverInvariant, PTL DEF Plain
=============================================================================
