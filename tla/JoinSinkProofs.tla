--------------------------- MODULE JoinSinkProofs ---------------------------
(***************************************************************************)
(* Proofs about a Join and its Sink: the result relation is exactly what   *)
(* the Join emitted up to the Sink's position, a Sink transaction is       *)
(* bounded, and a frontier that reaches the Sink covers both inputs.       *)
(***************************************************************************)
EXTENDS JoinSink, SinkPageProofs

-----------------------------------------------------------------------------
\* The state.

InputEffect(side) == Weighted(RowsOf(side))
OutputEffect == Weighted(OutRows)
Entry(side) == [row : RowsOf(side), n : Int, m : Int, u : Int]
Slot == {None} \cup Entry("left") \cup Entry("right")

\* A data chunk holds effects, a frontier none.
ChunkOf(effects) == [kind : {"data", "frontier"}, lsn : Nat, rows : Seq(effects)]
LogOK(l, effects) ==
    /\ l \in Seq(ChunkOf(effects))
    /\ \A i \in 1 .. Len(l) : l[i].rows = <<>> <=> l[i].kind = "frontier"

\* What a step can leave behind.
Opening == [phase : {"preflight"}, side : Side, at : Nat]
Passing == [phase : {"frontier"}, side : Side]
Joining == [phase : {"probe", "finalize"}, side : Side, at : Nat, own : Slot, after : Nat,
            m : Int, u : Int, pend : Slot]
Continuations == {None} \cup Opening \cup Passing \cup Joining

EventAt(c) == CursorChunk(c.side).rows[c.at + 1]

\* A continuation belongs to the chunk at the cursor of its side, and a pending
\* candidate has something pending.
AtChunk(c) ==
    /\ c.side \in Side /\ HasChunk(c.side)
    /\ c.phase = "frontier" => CursorChunk(c.side).kind = "frontier"
    /\ c.phase # "frontier" =>
         /\ CursorChunk(c.side).kind = "data" /\ c.at < Len(CursorChunk(c.side).rows)
         /\ c.phase # "preflight" /\ c.pend # None =>
              classify_candidate(c.side, EventAt(c), c.pend) # <<>>
ContOK(c) == c \in Continuations /\ (c # None => AtChunk(c))

Arrangements ==
    {a \in [Side -> Seq(Entry("left")) \cup Seq(Entry("right"))] :
        a["left"] \in Seq(Entry("left")) /\ a["right"] \in Seq(Entry("right"))}
Cursors == [Side -> [next : Nat, frontier : Nat]]
InRange(c) == \A side \in Side : c[side].next \in 1 .. Len(in[side]) + 1

JoinOK ==
    /\ in = [side \in Side |-> in[side]] /\ \A side \in Side : LogOK(in[side], InputEffect(side))
    /\ cur \in Cursors /\ InRange(cur)
    /\ arr \in Arrangements
    /\ ContOK(cont)

\* A frontier that was passed is remembered with its LSN.
Passed(l, c) ==
    c.frontier = 0 \/ \E i \in 1 .. Len(l) : /\ i < c.next /\ l[i].kind = "frontier"
                                             /\ l[i].lsn = c.frontier

\* The transaction: it moves cursors only at its end.
Transactions ==
    [cont : Continuations, cur : Cursors, arr : Arrangements, rows : Seq(OutputEffect),
     lsn : Nat, frontier : Nat, used : Nat, ok : BOOLEAN, stop : BOOLEAN]
InTime(t) ==
    /\ ~t.stop \/ t.cont # None => t.cur = cur
    /\ ~t.stop /\ t.cont = None => HasChunk("left") \/ HasChunk("right")
Complete(t) ==
    /\ InRange(t.cur)
    /\ \A side \in Side :
         /\ cur[side].frontier <= t.cur[side].frontier
         /\ Passed(in[side], cur[side]) => Passed(in[side], t.cur[side])
         /\ t.frontier <= t.cur[side].frontier
Tx == {t \in Transactions : ContOK(t.cont) /\ InTime(t) /\ Complete(t)}

-----------------------------------------------------------------------------
\* The chunk at a cursor.
LEMMA CursorFacts ==
    ASSUME JoinOK, NEW side \in Side, HasChunk(side)
    PROVE  /\ cur[side].next \in 1 .. Len(in[side])
           /\ CursorChunk(side) \in ChunkOf(InputEffect(side))
           /\ CursorChunk(side).kind \in {"data", "frontier"} /\ CursorChunk(side).lsn \in Nat
           /\ CursorChunk(side).rows \in Seq(InputEffect(side))
           /\ Len(CursorChunk(side).rows) \in Nat
           /\ CursorChunk(side).kind = "data" => 0 < Len(CursorChunk(side).rows)
<1>1. in[side] \in Seq(ChunkOf(InputEffect(side))) /\ cur[side].next \in 1 .. Len(in[side]) + 1
  BY DEF JoinOK, LogOK, InRange
<1>2. cur[side].next \in 1 .. Len(in[side])
  BY <1>1 DEF HasChunk
<1>3. CursorChunk(side) \in ChunkOf(InputEffect(side))
  BY <1>1, <1>2, ElementOfSeq DEF CursorChunk
<1>4. CursorChunk(side).rows = <<>> <=> CursorChunk(side).kind = "frontier"
  BY <1>2 DEF JoinOK, LogOK, CursorChunk
<1>5. /\ CursorChunk(side).kind \in {"data", "frontier"} /\ CursorChunk(side).lsn \in Nat
      /\ CursorChunk(side).rows \in Seq(InputEffect(side))
  BY <1>3 DEF ChunkOf
<1>6. Len(CursorChunk(side).rows) \in Nat
  BY <1>5
<1>7. CursorChunk(side).kind = "data" => 0 < Len(CursorChunk(side).rows)
  <2>1. CursorChunk(side).kind = "data" => CursorChunk(side).rows # <<>>
    BY <1>4
  <2>. QED BY <2>1, <1>5, <1>6, EmptySeq
<1>. QED BY <1>2, <1>3, <1>5, <1>6, <1>7

\* The event of a continuation.
LEMMA EventFacts ==
    ASSUME JoinOK, NEW c, ContOK(c), c # None, c.phase # "frontier"
    PROVE  /\ c.side \in Side /\ HasChunk(c.side) /\ c.at \in Nat
           /\ c.at + 1 \in 1 .. Len(CursorChunk(c.side).rows)
           /\ EventAt(c) \in InputEffect(c.side)
           /\ EventAt(c).row \in RowsOf(c.side) /\ EventAt(c).w \in Int
<1>1. /\ c.side \in Side /\ HasChunk(c.side)
      /\ c.at < Len(CursorChunk(c.side).rows)
  BY DEF ContOK, AtChunk
<1>2. c.at \in Nat
  BY DEF ContOK, Continuations, Opening, Passing, Joining
<1>3. CursorChunk(c.side).rows \in Seq(InputEffect(c.side)) /\ Len(CursorChunk(c.side).rows) \in Nat
  BY <1>1, CursorFacts
<1>4. c.at + 1 \in 1 .. Len(CursorChunk(c.side).rows)
  BY <1>1, <1>2, <1>3
<1>5. EventAt(c) \in InputEffect(c.side)
  BY <1>3, <1>4, ElementOfSeq DEF EventAt
<1>6. EventAt(c).row \in RowsOf(c.side) /\ EventAt(c).w \in Int
  BY <1>5 DEF InputEffect, Weighted
<1>. QED BY <1>1, <1>2, <1>4, <1>5, <1>6

\* The arrangements of a transaction.
LEMMA ArrFacts ==
    ASSUME NEW a \in Arrangements, NEW side \in Side
    PROVE  /\ a[side] \in Seq(Entry(side)) /\ Len(a[side]) \in Nat
           /\ DOMAIN a[side] = 1 .. Len(a[side])
           /\ \A rows \in Seq(Entry(side)) : [a EXCEPT ![side] = rows] \in Arrangements
<1>1. a[side] \in Seq(Entry(side))
  BY DEF Arrangements, Side
<1>2. ASSUME NEW rows \in Seq(Entry(side)) PROVE [a EXCEPT ![side] = rows] \in Arrangements
  BY <1>2 DEF Arrangements, Side
<1>. QED BY <1>1, <1>2

\* The position of a row.
LEMMA PositionFacts ==
    ASSUME NEW R, NEW rows \in Seq(R), NEW row
    PROVE  Position(rows, row) \in 0 .. Len(rows)
<1>. DEFINE T == {0} \cup {i \in DOMAIN rows : rows[i].row = row}
<1>1. T \in SUBSET Nat /\ T # {} /\ Len(rows) \in Nat /\ \A y \in T : y <= Len(rows)
  OBVIOUS
<1>2. Max(T) \in T
  <2>. HIDE DEF T
  <2>. QED BY <1>1, MaxOfNats
<1>3. Position(rows, row) = Max(T)
  BY DEF Position
<1>. QED BY <1>2, <1>3
-----------------------------------------------------------------------------
\* The transitions keep a transaction in Tx.

\* The fields of a transaction.
LEMMA TxFacts ==
    ASSUME NEW t \in Tx
    PROVE  /\ t \in Transactions /\ ContOK(t.cont) /\ InTime(t) /\ Complete(t)
           /\ t.cont \in Continuations /\ t.cur \in Cursors /\ t.arr \in Arrangements
           /\ t.rows \in Seq(OutputEffect) /\ t.lsn \in Nat /\ t.frontier \in Nat
           /\ t.used \in Nat /\ t.ok \in BOOLEAN /\ t.stop \in BOOLEAN
BY DEF Tx, Transactions

\* A step that moves no cursor.
LEMMA StaysTx ==
    ASSUME NEW t \in Tx, NEW x \in Transactions, x.cur = t.cur, x.frontier = t.frontier,
           ContOK(x.cont), x.cont # None => t.cur = cur,
           ~x.stop => t.cur = cur /\ (HasChunk("left") \/ HasChunk("right"))
    PROVE  x \in Tx
<1>1. InTime(x)
  BY DEF InTime
<1>2. Complete(x)
  BY TxFacts DEF Complete
<1>. QED BY <1>1, <1>2 DEF Tx

\* One of two sides.
LEMMA SideHasChunk ==
    ASSUME NEW side \in Side, HasChunk(side)
    PROVE  HasChunk("left") \/ HasChunk("right")
BY DEF Side

\* A failing transition leaves everything but the verdict.
LEMMA FailTx ==
    ASSUME NEW t \in Tx
    PROVE  Fail(t) \in Tx
<1>. DEFINE x == Fail(t)
<1>1. /\ x \in Transactions /\ x.cur = t.cur /\ x.frontier = t.frontier /\ x.cont = t.cont
      /\ x.stop = TRUE
  BY TxFacts DEF Fail, Transactions
<1>. HIDE DEF x
<1>2. ContOK(x.cont) /\ (x.cont # None => t.cur = cur)
  BY <1>1, TxFacts DEF InTime
<1>3. x \in Tx
  BY <1>1, <1>2, StaysTx
<1>. QED BY <1>3 DEF x

\* A new continuation.
LEMMA ContUpdate ==
    ASSUME NEW t \in Transactions, NEW c \in Continuations
    PROVE  LET x == [t EXCEPT !.cont = c]
           IN x \in Transactions /\ x.cont = c /\ x.cur = t.cur /\ x.frontier = t.frontier
BY DEF Transactions

\* Open takes a chunk at the cursor of the side it chooses.
LEMMA OpenTx ==
    ASSUME JoinOK, NEW t \in Tx, ~t.stop, t.cont = None
    PROVE  Open(t) \in Tx
<1>. DEFINE side == NextSide
            c == IF CursorChunk(side).kind = "data" THEN Opened(side, 0)
                 ELSE [phase |-> "frontier", side |-> side]
            x == [t EXCEPT !.cont = c]
<1>1. HasChunk("left") \/ HasChunk("right")
  BY TxFacts DEF InTime
<1>2. side \in Side /\ HasChunk(side)
  BY <1>1 DEF NextSide, Side
<1>3. Open(t) = x
  BY Zenon DEF Open
<1>. HIDE DEF side
<1>4. ContOK(c)
  <2>1. /\ CursorChunk(side).kind \in {"data", "frontier"}
        /\ CursorChunk(side).kind = "data" => 0 < Len(CursorChunk(side).rows)
    BY <1>2, CursorFacts
  <2>2. c \in Continuations
    BY <1>2 DEF Continuations, Opening, Passing, Opened
  <2>3. CASE CursorChunk(side).kind = "data"
    <3>1. c.side = side /\ c.phase = "preflight" /\ c.at = 0
      BY <2>3 DEF Opened
    <3>. HIDE DEF c
    <3>. QED BY <1>2, <2>1, <2>2, <2>3, <3>1 DEF ContOK, AtChunk
  <2>4. CASE CursorChunk(side).kind # "data"
    <3>1. c.side = side /\ c.phase = "frontier"
      BY <2>4
    <3>. HIDE DEF c
    <3>. QED BY <1>2, <2>1, <2>2, <2>4, <3>1 DEF ContOK, AtChunk
  <2>. QED BY <2>3, <2>4
<1>. HIDE DEF c
<1>5. x \in Transactions /\ x.cont = c /\ x.cur = t.cur /\ x.frontier = t.frontier
  BY <1>4, TxFacts, ContUpdate DEF ContOK
<1>6. t.cur = cur
  BY TxFacts DEF InTime
<1>. HIDE DEF x
<1>7. x \in Tx
  BY <1>1, <1>4, <1>5, <1>6, StaysTx
<1>. QED BY <1>3, <1>7

\* The arrangement entry of a row, when there is one.
LEMMA OwnFacts ==
    ASSUME NEW t \in Tx, NEW side \in Side, NEW row
    PROVE  Own(t, side, row) \in Slot
<1>1. t.arr \in Arrangements
  BY TxFacts
<1>. DEFINE rows == t.arr[side]
<1>2. rows \in Seq(Entry(side)) /\ Position(rows, row) \in 0 .. Len(rows)
  BY <1>1, ArrFacts, PositionFacts
<1>3. CASE Position(rows, row) = 0
  BY <1>3 DEF Own, Slot
<1>4. CASE Position(rows, row) # 0
  <2>1. rows[Position(rows, row)] \in Entry(side)
    BY <1>2, <1>4, ElementOfSeq
  <2>2. Own(t, side, row) = rows[Position(rows, row)]
    BY <1>4 DEF Own
  <2>. QED BY <2>1, <2>2 DEF Slot, Side
<1>. QED BY <1>3, <1>4

\* Preflight looks up the input row itself.
LEMMA PreflightTx ==
    ASSUME JoinOK, NEW t \in Tx, ~t.stop, t.cont # None, t.cont.phase = "preflight"
    PROVE  Preflight(t) \in Tx
<1>. DEFINE side == t.cont.side
            own == Own(t, side, Event(t).row)
            c == [phase |-> "probe", side |-> side, at |-> t.cont.at,
                  own |-> own, after |-> 0, m |-> 0, u |-> 0, pend |-> None]
            x == [t EXCEPT !.cont = c]
<1>1. ContOK(t.cont)
  BY TxFacts
<1>2. /\ side \in Side /\ HasChunk(side) /\ t.cont.at \in Nat
      /\ CursorChunk(side).kind = "data" /\ t.cont.at < Len(CursorChunk(side).rows)
  BY <1>1, EventFacts DEF ContOK, AtChunk
<1>3. own \in Slot
  BY <1>2, OwnFacts
<1>4. Preflight(t) = Fail(t) \/ Preflight(t) = x
  BY DEF Preflight
<1>. HIDE DEF side, own
<1>5. c \in Continuations
  BY <1>2, <1>3 DEF Continuations, Joining, Slot
<1>6. ContOK(c)
  <2>1. c.phase = "probe" /\ c.side = side /\ c.at = t.cont.at /\ c.pend = None
    OBVIOUS
  <2>. HIDE DEF c
  <2>. QED BY <1>2, <1>5, <2>1 DEF ContOK, AtChunk
<1>. HIDE DEF c
<1>7. x \in Transactions /\ x.cont = c /\ x.cur = t.cur /\ x.frontier = t.frontier
  BY <1>5, TxFacts, ContUpdate
<1>8. t.cur = cur /\ (HasChunk("left") \/ HasChunk("right"))
  BY <1>2, TxFacts, SideHasChunk DEF InTime
<1>. HIDE DEF x
<1>9. x \in Tx
  BY <1>6, <1>7, <1>8, StaysTx
<1>. QED BY <1>4, <1>9, FailTx

\* An arranged row with other numbers.
LEMMA EntryUpdate ==
    ASSUME NEW side, NEW e \in Entry(side), NEW n \in Int, NEW m \in Int, NEW u \in Int
    PROVE  [e EXCEPT !.n = n] \in Entry(side) /\ [e EXCEPT !.m = m, !.u = u] \in Entry(side)
BY DEF Entry

\* The row of an event inserted, updated or deleted.
LEMMA OwnChangeType ==
    ASSUME NEW side \in Side, NEW rows \in Seq(Entry(side)), NEW event \in InputEffect(side),
           NEW m \in Int, NEW u \in Int
    PROVE  OwnChange(rows, event, m, u) \in Seq(Entry(side))
<1>. DEFINE i == Position(rows, event.row)
            new == [row |-> event.row, n |-> event.w, m |-> m, u |-> u]
<1>1. i \in 0 .. Len(rows) /\ Len(rows) \in Nat
  BY PositionFacts
<1>2. event.row \in RowsOf(side) /\ event.w \in Int
  BY DEF InputEffect, Weighted
<1>3. OwnChange(rows, event, m, u) =
        IF i = 0 THEN Append(rows, new)
        ELSE IF rows[i].n + event.w = 0 THEN RemoveAt(rows, i)
        ELSE [rows EXCEPT ![i].n = @ + event.w]
  BY Zenon DEF OwnChange
<1>4. Append(rows, new) \in Seq(Entry(side))
  <2>1. new \in Entry(side)
    BY <1>2 DEF Entry
  <2>. QED BY <2>1, AppendProperties
<1>. HIDE DEF i
<1>5. ASSUME i # 0 PROVE RemoveAt(rows, i) \in Seq(Entry(side))
  <2>1. SubSeq(rows, 1, i - 1) \in Seq(Entry(side))
    BY <1>1, <1>5, SubSeqProperties
  <2>2. SubSeq(rows, i + 1, Len(rows)) \in Seq(Entry(side))
    BY <1>1, <1>5, SubSeqProperties
  <2>. QED BY <2>1, <2>2, ConcatProperties DEF RemoveAt
<1>6. ASSUME i # 0 PROVE [rows EXCEPT ![i].n = @ + event.w] \in Seq(Entry(side))
  <2>1. i \in 1 .. Len(rows) /\ rows[i] \in Entry(side)
    BY <1>1, <1>6, ElementOfSeq
  <2>2. [rows[i] EXCEPT !.n = @ + event.w] \in Entry(side)
    <3>1. rows[i].n + event.w \in Int
      BY <1>2, <2>1 DEF Entry
    <3>2. \A k \in Int : [rows[i] EXCEPT !.n = k] \in Entry(side)
      BY <1>2, <2>1, EntryUpdate
    <3>. QED BY <3>1, <3>2
  <2>3. [rows EXCEPT ![i].n = @ + event.w] = [rows EXCEPT ![i] = [rows[i] EXCEPT !.n = @ + event.w]]
    OBVIOUS
  <2>. QED BY <2>1, <2>2, <2>3, ExceptSeq
<1>. QED BY <1>3, <1>4, <1>5, <1>6

\* A step that moves one cursor over its chunk.
LEMMA Moves ==
    ASSUME JoinOK, NEW x \in Transactions, NEW side \in Side, HasChunk(side),
           x.cont = None, x.cur[side].next = cur[side].next + 1,
           \A s \in Side : s # side => x.cur[s] = cur[s],
           \/ x.cur[side].frontier = cur[side].frontier
           \/ /\ CursorChunk(side).kind = "frontier"
              /\ CursorChunk(side).lsn = x.cur[side].frontier
              /\ cur[side].frontier <= x.cur[side].frontier,
           \A s \in Side : x.frontier <= x.cur[s].frontier
    PROVE  ContOK(x.cont) /\ Complete(x)
<1>1. cur[side].next \in 1 .. Len(in[side]) /\ Len(in[side]) \in Nat
  <2>1. in[side] \in Seq(ChunkOf(InputEffect(side)))
    BY DEF JoinOK, LogOK
  <2>. QED BY <2>1, CursorFacts
<1>2. \A s \in Side : cur[s].frontier \in Nat /\ cur[s].next \in Nat /\ x.cur[s].frontier \in Nat
                      /\ cur[s].next \in 1 .. Len(in[s]) + 1
  BY DEF JoinOK, InRange, Cursors, Transactions
<1>3. ContOK(x.cont)
  BY DEF ContOK, Continuations
<1>5. ASSUME NEW s \in Side
      PROVE  /\ x.cur[s].next \in 1 .. Len(in[s]) + 1
             /\ cur[s].frontier <= x.cur[s].frontier
             /\ Passed(in[s], cur[s]) => Passed(in[s], x.cur[s])
  <2>1. CASE s # side
    BY <1>2, <2>1
  <2>2. CASE s = side /\ x.cur[side].frontier = cur[side].frontier
    <3>1. ASSUME NEW i \in 1 .. Len(in[s]), i < cur[s].next PROVE i < x.cur[s].next
      BY <1>1, <2>2, <3>1
    <3>. QED BY <1>1, <1>2, <2>2, <3>1 DEF Passed
  <2>3. CASE s = side /\ x.cur[side].frontier # cur[side].frontier
    <3>1. Passed(in[s], x.cur[s])
      BY <1>1, <2>3 DEF Passed, CursorChunk
    <3>. QED BY <1>1, <1>2, <2>3, <3>1
  <2>. QED BY <2>1, <2>2, <2>3
<1>6. Complete(x)
  BY <1>5 DEF Complete, InRange
<1>. QED BY <1>3, <1>6

\* A transaction that is complete ends its quantum.
LEMMA MovesTx ==
    ASSUME NEW x \in Transactions, x.cont = None, x.stop = TRUE, ContOK(x.cont), Complete(x)
    PROVE  x \in Tx
BY DEF Tx, InTime

\* Finalize counts the row in its own arrangement, and takes the next row or the
\* next chunk.
LEMMA FinalizeTx ==
    ASSUME JoinOK, NEW t \in Tx, ~t.stop, t.cont # None, t.cont.phase = "finalize"
    PROVE  Finalize(t) \in Tx
<1>. DEFINE side == t.cont.side
            event == Event(t)
            alone == IF current_side_is_eligible(side, t.cont.m, t.cont.u)
                     THEN <<[row |-> OutRow(side, event.row, None), w |-> event.w]>> ELSE <<>>
            y == [t EXCEPT !.rows = @ \o alone, !.lsn = CursorChunk(side).lsn,
                           !.used = @ + 1,
                           !.arr[side] = OwnChange(@, event, t.cont.m, t.cont.u)]
<1>1. ContOK(t.cont) /\ t.cur = cur /\ t.cont \in Continuations
  BY TxFacts DEF InTime
<1>2. /\ side \in Side /\ HasChunk(side) /\ t.cont.at \in Nat
      /\ CursorChunk(side).kind = "data"
      /\ event \in InputEffect(side) /\ event.row \in RowsOf(side) /\ event.w \in Int
  BY <1>1, EventFacts DEF ContOK, AtChunk, Event, EventAt
<1>3. t.cont.m \in Int /\ t.cont.u \in Int
  BY <1>1 DEF Continuations, Opening, Passing, Joining
<1>4. Finalize(t) = Fail(t) \/ Finalize(t) = NextRow(y)
  BY DEF Finalize
<1>. HIDE DEF event
<1>5. alone \in Seq(OutputEffect)
  <2>. DEFINE one == [row |-> OutRow(side, event.row, None), w |-> event.w]
  <2>1. OutRow(side, event.row, None) \in OutRows
    BY <1>2 DEF OutRow, OutRows, RowsOf, Side
  <2>2. one \in OutputEffect
    BY <1>2, <2>1 DEF OutputEffect, Weighted
  <2>. HIDE DEF one
  <2>3. <<one>> \in Seq(OutputEffect) /\ <<>> \in Seq(OutputEffect)
    BY <2>2
  <2>4. alone = <<one>> \/ alone = <<>>
    BY DEF one
  <2>. QED BY <2>3, <2>4
<1>. HIDE DEF alone
<1>6. t.rows \o alone \in Seq(OutputEffect)
  BY <1>5, TxFacts, ConcatProperties
<1>. DEFINE arrs == [t.arr EXCEPT ![side] = OwnChange(@, event, t.cont.m, t.cont.u)]
<1>7. arrs \in Arrangements
  <2>1. t.arr[side] \in Seq(Entry(side))
    BY <1>2, TxFacts, ArrFacts
  <2>2. OwnChange(t.arr[side], event, t.cont.m, t.cont.u) \in Seq(Entry(side))
    BY <1>2, <1>3, <2>1, OwnChangeType
  <2>. QED BY <1>2, <2>2, TxFacts, ArrFacts
<1>8. CursorChunk(side).lsn \in Nat /\ Len(CursorChunk(side).rows) \in Nat
  BY <1>2, CursorFacts
<1>9. y \in Transactions /\ y.cont = t.cont /\ y.cur = cur /\ y.frontier = t.frontier /\ y.stop = t.stop
  <2>1. y = [t EXCEPT !.rows = t.rows \o alone, !.lsn = CursorChunk(side).lsn,
                      !.used = t.used + 1, !.arr = arrs]
    BY TxFacts DEF Transactions
  <2>. DEFINE rows == t.rows \o alone
              lsn == CursorChunk(side).lsn
  <2>2. rows \in Seq(OutputEffect) /\ lsn \in Nat /\ t.used + 1 \in Nat
    BY <1>6, <1>8, TxFacts
  <2>. HIDE DEF arrs, y, side, rows, lsn
  <2>3. y = [t EXCEPT !.rows = rows, !.lsn = lsn, !.used = t.used + 1, !.arr = arrs]
    BY <2>1 DEF rows, lsn
  <2>. QED BY <2>2, <2>3, <1>1, <1>7, TxFacts DEF Transactions
<1>. HIDE DEF y
<1>10. CASE t.cont.at + 1 < Len(CursorChunk(side).rows)
  <2>. DEFINE c == Opened(side, t.cont.at + 1)
              x == [y EXCEPT !.cont = c]
  <2>1. NextRow(y) = x
    BY <1>9, <1>10 DEF NextRow
  <2>2. c \in Continuations /\ c.phase = "preflight" /\ c.side = side /\ c.at = t.cont.at + 1
    BY <1>2 DEF Opened, Continuations, Opening
  <2>. HIDE DEF c, side
  <2>3. ContOK(c)
    BY <1>2, <1>10, <2>2 DEF ContOK, AtChunk
  <2>4. x \in Transactions /\ x.cont = c /\ x.cur = y.cur /\ x.frontier = y.frontier
    BY <1>9, <2>2, ContUpdate
  <2>. HIDE DEF x
  <2>5. x \in Tx
    BY <1>1, <1>2, <1>9, <2>3, <2>4, StaysTx, SideHasChunk
  <2>. QED BY <1>4, <2>1, <2>5, FailTx
<1>11. CASE ~(t.cont.at + 1 < Len(CursorChunk(side).rows))
  <2>. DEFINE x == [y EXCEPT !.cont = None, !.cur[side].next = @ + 1, !.stop = TRUE]
  <2>1. NextRow(y) = x
    BY <1>9, <1>11 DEF NextRow
  <2>2. cur \in Cursors
    BY DEF JoinOK
  <2>. DEFINE curs == [cur EXCEPT ![side].next = @ + 1]
  <2>3. /\ curs \in Cursors /\ curs[side].next = cur[side].next + 1
        /\ curs[side].frontier = cur[side].frontier
        /\ \A s \in Side : s # side => curs[s] = cur[s]
    BY <1>2, <2>2 DEF Cursors
  <2>4. x = [y EXCEPT !.cont = None, !.cur = curs, !.stop = TRUE]
    BY <1>9 DEF Transactions
  <2>. HIDE DEF curs, x, side
  <2>5. /\ x \in Transactions /\ x.cont = None /\ x.stop = TRUE /\ x.cur = curs
        /\ x.frontier = y.frontier
    BY <1>9, <2>3, <2>4 DEF Transactions, Continuations
  <2>6. \A s \in Side : x.frontier <= x.cur[s].frontier
    <3>1. \A s \in Side : t.frontier <= cur[s].frontier
      BY <1>1, TxFacts DEF Complete
    <3>. QED BY <1>9, <2>3, <2>5, <3>1
  <2>7. x \in Tx
    BY <1>2, <2>3, <2>5, <2>6, Moves, MovesTx
  <2>. QED BY <1>4, <2>1, <2>7, FailTx
<1>. QED BY <1>10, <1>11

\* PassFrontier advances one cursor and may publish the smaller frontier.
LEMMA PassFrontierTx ==
    ASSUME JoinOK, NEW t \in Tx, ~t.stop, t.cont # None, t.cont.phase = "frontier"
    PROVE  PassFrontier(t) \in Tx
<1>. DEFINE side == t.cont.side
            lsn == CursorChunk(side).lsn
            new == [t.cur EXCEPT ![side] = [next |-> @.next + 1, frontier |-> lsn]]
            complete == minimum(new["left"], new["right"])
            publish == complete > LastLsn(out, "frontier") /\ LastLsn(out, "data") <= complete
            x == [t EXCEPT !.cur = new, !.cont = None, !.stop = TRUE,
                           !.frontier = IF publish THEN complete ELSE 0]
<1>1. ContOK(t.cont) /\ t.cur = cur
  BY TxFacts DEF InTime
<1>2. side \in Side /\ HasChunk(side) /\ CursorChunk(side).kind = "frontier"
  BY <1>1 DEF ContOK, AtChunk
<1>3. PassFrontier(t) = IF lsn <= t.cur[side].frontier THEN Fail(t) ELSE x
  BY Zenon DEF PassFrontier
<1>4. lsn \in Nat /\ cur \in Cursors
  BY <1>2, CursorFacts DEF JoinOK
<1>. HIDE DEF lsn
<1>5. /\ new \in Cursors /\ new[side].next = cur[side].next + 1 /\ new[side].frontier = lsn
      /\ \A s \in Side : s # side => new[s] = cur[s]
  BY <1>1, <1>2, <1>4 DEF Cursors
<1>. HIDE DEF new
<1>6. complete \in Nat /\ \A s \in Side : complete <= new[s].frontier
  <2>1. new["left"].frontier \in Nat /\ new["right"].frontier \in Nat
    BY <1>5 DEF Cursors, Side
  <2>2. complete \in {new["left"].frontier, new["right"].frontier}
        /\ \A f \in {new["left"].frontier, new["right"].frontier} : complete <= f
    BY <2>1, MinOfNats DEF minimum
  <2>. HIDE DEF complete
  <2>. QED BY <2>1, <2>2 DEF Side
<1>. HIDE DEF complete, publish
<1>7. /\ x \in Transactions /\ x.cont = None /\ x.stop = TRUE /\ x.cur = new
      /\ x.frontier = IF publish THEN complete ELSE 0
  BY <1>5, <1>6, TxFacts DEF Transactions, Continuations
<1>. HIDE DEF x
<1>8. \A s \in Side : x.frontier <= x.cur[s].frontier
  <2>1. \A s \in Side : new[s].frontier \in Nat
    BY <1>5 DEF Cursors
  <2>. QED BY <1>6, <1>7, <2>1
<1>9. ASSUME ~(lsn <= t.cur[side].frontier) PROVE x \in Tx
  <2>1. cur[side].frontier \in Nat
    BY <1>2, <1>4 DEF Cursors
  <2>2. cur[side].frontier <= x.cur[side].frontier
    BY <1>1, <1>4, <1>5, <1>7, <1>9, <2>1
  <2>3. CursorChunk(side).lsn = x.cur[side].frontier
    BY <1>5, <1>7 DEF lsn
  <2>. HIDE DEF side
  <2>. QED BY <1>2, <1>5, <1>7, <1>8, <2>2, <2>3, Moves, MovesTx
<1>. QED BY <1>3, <1>9, FailTx
-----------------------------------------------------------------------------
\* A page of candidates.

\* The actions of one candidate are effects on output rows.
LEMMA ClassifyType ==
    ASSUME NEW side \in Side, NEW event \in InputEffect(side),
           NEW entry \in Entry(Opposite(side))
    PROVE  classify_candidate(side, event, entry) \in Seq(OutputEffect)
<1>. DEFINE truth == TruthOf(side, event.row, entry.row)
            new == Counted(entry, truth, event.w)
            was == candidate_eligible(entry.m, entry.u)
            is == candidate_eligible(new.m, new.u)
            both == [row |-> OutRow(side, event.row, entry.row), w |-> event.w * entry.n]
            one == [row |-> OutRow(side, None, entry.row), w |-> IF is THEN entry.n ELSE -entry.n]
            pair == IF truth = "true" /\ pair_enabled THEN <<both>> ELSE <<>>
            alone == IF candidate_side_is_output(Opposite(side)) /\ was # is
                     THEN <<one>> ELSE <<>>
<1>1. /\ event.row \in RowsOf(side) /\ event.w \in Int
      /\ entry.row \in RowsOf(Opposite(side)) /\ entry.n \in Int
  BY DEF InputEffect, Weighted, Entry
<1>2. /\ OutRow(side, event.row, entry.row) \in OutRows
      /\ OutRow(side, None, entry.row) \in OutRows
  BY <1>1 DEF OutRow, OutRows, RowsOf, Opposite, Side
<1>3. classify_candidate(side, event, entry) = pair \o alone
  BY Zenon DEF classify_candidate
<1>. HIDE DEF is, was, truth
<1>4. both \in OutputEffect /\ one \in OutputEffect
  <2>1. event.w * entry.n \in Int /\ -entry.n \in Int
    BY <1>1
  <2>. QED BY <1>1, <1>2, <2>1 DEF OutputEffect, Weighted
<1>. HIDE DEF both, one
<1>5. pair \in Seq(OutputEffect) /\ alone \in Seq(OutputEffect)
  BY <1>4
<1>. HIDE DEF pair, alone
<1>. QED BY <1>3, <1>5, ConcatProperties

\* Counting keeps the type of a row and of a continuation.
LEMMA CountedEntry ==
    ASSUME NEW side, NEW entry \in Entry(side), NEW truth, NEW w \in Int
    PROVE  Counted(entry, truth, w) \in Entry(side)
<1>. DEFINE a == IF truth = "true" THEN w ELSE 0
            b == IF truth = "unknown" THEN w ELSE 0
<1>1. a \in Int /\ b \in Int
  OBVIOUS
<1>2. Counted(entry, truth, w) = [entry EXCEPT !.m = entry.m + a, !.u = entry.u + b]
  BY Zenon DEF Counted
<1>. HIDE DEF a, b
<1>3. entry.m + a \in Int /\ entry.u + b \in Int /\ 0 \in Int
  BY <1>1 DEF Entry
<1>4. [entry EXCEPT !.m = entry.m + a, !.u = entry.u + b] \in Entry(side)
  BY <1>3, EntryUpdate
<1>. QED BY <1>2, <1>4

\* Counting a candidate in the continuation.
LEMMA CountedCont ==
    ASSUME NEW c \in Joining, NEW truth, NEW w \in Int, NEW at \in Nat
    PROVE  LET d == [Counted(c, truth, w) EXCEPT !.after = at]
           IN d \in Joining /\ d.side = c.side /\ d.at = c.at /\ d.phase = c.phase /\ d.pend = c.pend
<1>. DEFINE a == IF truth = "true" THEN w ELSE 0
            b == IF truth = "unknown" THEN w ELSE 0
            m == c.m + a
            u == c.u + b
            d == [[c EXCEPT !.m = m, !.u = u] EXCEPT !.after = at]
<1>1. a \in Int /\ b \in Int
  OBVIOUS
<1>2. [Counted(c, truth, w) EXCEPT !.after = at] = d
  BY Zenon DEF Counted
<1>. HIDE DEF a, b
<1>3. m \in Int /\ u \in Int
  BY <1>1 DEF Joining
<1>. HIDE DEF m, u
<1>4. d \in Joining /\ d.side = c.side /\ d.at = c.at /\ d.phase = c.phase /\ d.pend = c.pend
  BY <1>3 DEF Joining
<1>. HIDE DEF d
<1>. QED BY <1>2, <1>4

\* The candidates are positions of the opposite side.
LEMMA CandidatesType ==
    ASSUME NEW t \in Tx, NEW side \in Side, NEW row, NEW after \in Nat
    PROVE  /\ Candidates(t, side, row, after) \in Seq(1 .. Len(t.arr[Opposite(side)]))
           /\ Len(Candidates(t, side, row, after)) \in Nat
<1>. DEFINE rows == t.arr[Opposite(side)]
            T == {i \in after + 1 .. Len(rows) :
                    ~Keyed \/ TruthOf(side, row, rows[i].row) # "false"}
<1>1. Opposite(side) \in Side
  BY DEF Opposite, Side
<1>2. Len(rows) \in Nat
  BY <1>1, TxFacts, ArrFacts
<1>3. T \in SUBSET (1 .. Len(rows))
  BY <1>2
<1>4. Candidates(t, side, row, after) = Ascending(T, Len(rows))
  BY Zenon DEF Candidates
<1>. HIDE DEF T
<1>5. Ascending(T, Len(rows)) \in Seq(T)
  BY <1>2, <1>3, AscendingFacts
<1>6. Ascending(T, Len(rows)) \in Seq(1 .. Len(rows))
  <2>. DEFINE k == Ascending(T, Len(rows))
  <2>1. k \in Seq(T)
    BY <1>5
  <2>. DEFINE n == Len(rows)
  <2>. HIDE DEF k, n
  <2>2. k \in Seq(1 .. n)
    <3>1. T \subseteq 1 .. n
      BY <1>3 DEF n
    <3>. QED BY <2>1, <3>1, SeqMonotonic
  <2>. QED BY <2>2 DEF k, n
<1>7. Len(Ascending(T, Len(rows))) \in Nat
  BY <1>5, LenProperties
<1>. QED BY <1>4, <1>6, <1>7

\* What a page of candidates has planned so far.
Plans(t, room) ==
    {p \in [rows : Seq(OutputEffect), side : Seq(Entry(Opposite(t.cont.side))), ok : BOOLEAN,
            stop : BOOLEAN, cont : Joining] :
        /\ Len(p.rows) <= room /\ Len(p.side) = Len(t.arr[Opposite(t.cont.side)])
        /\ p.cont.side = t.cont.side /\ p.cont.at = t.cont.at /\ p.cont.phase = "probe"
        /\ p.cont.pend # None =>
             classify_candidate(t.cont.side, Event(t), p.cont.pend) # <<>>}

\* The fields of a plan.
LEMMA PlanFacts ==
    ASSUME NEW t, NEW room, NEW p \in Plans(t, room)
    PROVE  /\ p \in [rows : Seq(OutputEffect), side : Seq(Entry(Opposite(t.cont.side))),
                     ok : BOOLEAN, stop : BOOLEAN, cont : Joining]
           /\ p.rows \in Seq(OutputEffect) /\ Len(p.rows) \in Nat /\ Len(p.rows) <= room
           /\ p.side \in Seq(Entry(Opposite(t.cont.side))) /\ p.stop \in BOOLEAN
           /\ p.ok \in BOOLEAN
           /\ Len(p.side) = Len(t.arr[Opposite(t.cont.side)])
           /\ p.cont \in Joining /\ p.cont.side = t.cont.side /\ p.cont.at = t.cont.at
           /\ p.cont.phase = "probe"
           /\ p.cont.pend # None =>
                classify_candidate(t.cont.side, Event(t), p.cont.pend) # <<>>
BY DEF Plans

\* A new plan from an old one.
LEMMA PlanUpdate ==
    ASSUME NEW side, NEW p \in [rows : Seq(OutputEffect), side : Seq(Entry(side)),
                                ok : BOOLEAN, stop : BOOLEAN, cont : Joining],
           NEW rows \in Seq(OutputEffect), NEW own \in Seq(Entry(side)), NEW c \in Joining,
           NEW stop \in BOOLEAN
    PROVE  LET q == [p EXCEPT !.rows = rows, !.side = own, !.cont = c, !.stop = stop]
           IN /\ q \in [rows : Seq(OutputEffect), side : Seq(Entry(side)),
                         ok : BOOLEAN, stop : BOOLEAN, cont : Joining]
              /\ q.rows = rows /\ q.side = own /\ q.cont = c
<1>. DEFINE A == Seq(OutputEffect)
            B == Seq(Entry(side))
<1>. HIDE DEF A, B
<1>1. p \in [rows : A, side : B, ok : BOOLEAN, stop : BOOLEAN, cont : Joining]
      /\ rows \in A /\ own \in B
  BY DEF A, B
<1>. DEFINE q == [p EXCEPT !.rows = rows, !.side = own, !.cont = c, !.stop = stop]
<1>2. q \in [rows : A, side : B, ok : BOOLEAN, stop : BOOLEAN, cont : Joining]
  BY <1>1
<1>3. q.rows = rows /\ q.side = own /\ q.cont = c
  BY <1>1
<1>. QED BY <1>2, <1>3 DEF A, B

\* One candidate.
LEMMA ClassifiedIn ==
    ASSUME JoinOK, NEW t \in Tx, t.cont # None, t.cont.phase = "probe", NEW room \in Nat,
           NEW p \in Plans(t, room), NEW i, NEW at \in 1 .. Len(t.arr[Opposite(t.cont.side)])
    PROVE  Classified(t, p, i, at, room) \in Plans(t, room)
<1>. DEFINE side == t.cont.side
            event == Event(t)
            entry == p.side[at]
            truth == TruthOf(side, event.row, entry.row)
            new == Counted(entry, truth, event.w)
            acts == classify_candidate(side, event, entry)
            todo == Remaining(t.cont, i, acts)
            fits == room - Len(p.rows)
            resumed == i = 1 /\ t.cont.pend # None
            valid == new.m >= 0 /\ new.u >= 0 /\ (resumed => t.cont.pend = entry)
            failed == [p EXCEPT !.ok = FALSE, !.stop = TRUE]
            cut == [p EXCEPT !.stop = TRUE, !.rows = @ \o SubSeq(todo, 1, fits),
                             !.cont.pend = IF resumed \/ fits > 0 THEN entry ELSE None]
            full == [p EXCEPT !.rows = @ \o todo, !.side[at] = new,
                              !.cont = [Counted(@, truth, entry.n) EXCEPT !.after = at]]
<1>1. Classified(t, p, i, at, room) =
        IF ~valid THEN failed ELSE IF Len(todo) > fits THEN cut ELSE full
  BY Zenon DEF Classified
<1>2. ContOK(t.cont)
  BY TxFacts
<1>3. side \in Side /\ event \in InputEffect(side) /\ event.w \in Int /\ event = EventAt(t.cont)
  BY <1>2, EventFacts DEF Event, EventAt
<1>4. Opposite(side) \in Side
  BY <1>3 DEF Opposite, Side
<1>5. entry \in Entry(Opposite(side))
  BY PlanFacts, ElementOfSeq
<1>6. entry.n \in Int /\ new \in Entry(Opposite(side)) /\ entry \in Slot
  BY <1>3, <1>4, <1>5, CountedEntry DEF Entry, Slot, Side
<1>7. acts \in Seq(OutputEffect)
  BY <1>3, <1>5, ClassifyType
<1>. HIDE DEF event, entry, truth, acts, new
<1>8. ASSUME valid
      PROVE  todo \in Seq(OutputEffect) /\ Len(todo) \in Nat /\ (Len(todo) > 0 => acts # <<>>)
  <2>1. CASE resumed
    <3>1. t.cont.pend = entry
      BY <1>8, <2>1
    <3>2. classify_candidate(side, EventAt(t.cont), t.cont.pend) # <<>>
      BY <1>2, <2>1 DEF ContOK, AtChunk
    <3>3. acts # <<>>
      BY <3>1, <3>2, <1>3 DEF acts
    <3>4. todo = Tail(acts)
      BY <2>1 DEF Remaining
    <3>. HIDE DEF todo
    <3>. QED BY <1>7, <3>3, <3>4, HeadTailProperties, LenProperties
  <2>2. CASE ~resumed
    <3>1. todo = acts
      BY <2>2 DEF Remaining
    <3>. HIDE DEF todo
    <3>2. Len(acts) > 0 => acts # <<>>
      BY EmptySeq
    <3>. QED BY <1>7, <3>1, <3>2, LenProperties
  <2>. QED BY <2>1, <2>2
<1>. HIDE DEF todo
<1>9. fits \in Nat
  BY PlanFacts
<1>10. failed \in Plans(t, room)
  BY PlanFacts DEF Plans
<1>11. ASSUME valid, Len(todo) > fits PROVE cut \in Plans(t, room)
  <2>1. acts # <<>>
    BY <1>8, <1>9, <1>11
  <2>. DEFINE part == SubSeq(todo, 1, fits)
              pend == IF resumed \/ fits > 0 THEN entry ELSE None
              cont2 == [p.cont EXCEPT !.pend = pend]
              rows2 == p.rows \o part
  <2>2. part \in Seq(OutputEffect) /\ Len(part) = fits
    <3>1. \A j \in 1 .. fits : todo[j] \in OutputEffect
      BY <1>8, <1>9, <1>11, ElementOfSeq
    <3>. HIDE DEF fits
    <3>2. part \in Seq(OutputEffect) /\ Len(part) = IF 1 <= fits THEN fits - 1 + 1 ELSE 0
      BY <1>9, <3>1, SubSeqProperties
    <3>. HIDE DEF part
    <3>. QED BY <1>9, <3>2
  <2>3. rows2 \in Seq(OutputEffect) /\ Len(rows2) <= room
    <3>. HIDE DEF part
    <3>1. rows2 \in Seq(OutputEffect) /\ Len(rows2) = Len(p.rows) + Len(part)
      BY <2>2, PlanFacts, ConcatProperties
    <3>. HIDE DEF rows2
    <3>. QED BY <2>2, <3>1, PlanFacts
  <2>4. pend # None => classify_candidate(side, event, pend) # <<>>
    BY <2>1 DEF acts
  <2>5. pend \in Slot
    BY <1>6 DEF Slot
  <2>6. cut = [p EXCEPT !.rows = rows2, !.side = p.side, !.cont = cont2, !.stop = TRUE]
    BY PlanFacts
  <2>. HIDE DEF pend, rows2, cut
  <2>7. /\ cont2 \in Joining /\ cont2.side = p.cont.side /\ cont2.at = p.cont.at
        /\ cont2.phase = p.cont.phase /\ cont2.pend = pend
    BY <2>5, PlanFacts, SMTT(30) DEF Joining
  <2>. HIDE DEF cont2, side
  <2>8. /\ cut.rows = rows2 /\ cut.cont = cont2 /\ cut.side = p.side
        /\ cut \in [rows : Seq(OutputEffect), side : Seq(Entry(Opposite(t.cont.side))),
                    ok : BOOLEAN, stop : BOOLEAN, cont : Joining]
    <3>. DEFINE other == Opposite(t.cont.side)
    <3>1. /\ p \in [rows : Seq(OutputEffect), side : Seq(Entry(other)),
                     ok : BOOLEAN, stop : BOOLEAN, cont : Joining]
          /\ rows2 \in Seq(OutputEffect) /\ p.side \in Seq(Entry(other)) /\ TRUE \in BOOLEAN
      BY <2>3, PlanFacts
    <3>. HIDE DEF other
    <3>2. LET q == [p EXCEPT !.rows = rows2, !.side = p.side, !.cont = cont2, !.stop = TRUE]
          IN /\ q \in [rows : Seq(OutputEffect), side : Seq(Entry(other)),
                         ok : BOOLEAN, stop : BOOLEAN, cont : Joining]
             /\ q.rows = rows2 /\ q.side = p.side /\ q.cont = cont2
      BY <2>7, <3>1, PlanUpdate, Zenon
    <3>. QED BY <2>6, <3>2 DEF other
  <2>. QED BY <2>3, <2>4, <2>7, <2>8, PlanFacts DEF Plans, event, side
<1>12. ASSUME valid, ~(Len(todo) > fits) PROVE full \in Plans(t, room)
  <2>. DEFINE cont2 == [Counted(p.cont, truth, entry.n) EXCEPT !.after = at]
              rows2 == p.rows \o todo
              side2 == [p.side EXCEPT ![at] = new]
  <2>1. at \in Nat /\ at \in 1 .. Len(p.side)
    BY <1>4, TxFacts, ArrFacts, PlanFacts
  <2>2. /\ cont2 \in Joining /\ cont2.side = p.cont.side /\ cont2.at = p.cont.at
        /\ cont2.phase = p.cont.phase /\ cont2.pend = p.cont.pend
    BY <1>6, <2>1, PlanFacts, CountedCont
  <2>3. rows2 \in Seq(OutputEffect) /\ Len(rows2) <= room
    <3>1. rows2 \in Seq(OutputEffect) /\ Len(rows2) = Len(p.rows) + Len(todo)
      BY <1>8, <1>12, PlanFacts, ConcatProperties
    <3>. HIDE DEF rows2
    <3>. QED BY <1>8, <1>12, <3>1, PlanFacts
  <2>4. side2 \in Seq(Entry(Opposite(t.cont.side))) /\ Len(side2) = Len(p.side)
    BY <1>6, <2>1, PlanFacts, ExceptSeq
  <2>5. full = [p EXCEPT !.rows = rows2, !.side = side2, !.cont = cont2, !.stop = p.stop]
    BY PlanFacts
  <2>. HIDE DEF rows2, full, cont2, side2, side
  <2>6. /\ full.rows = rows2 /\ full.cont = cont2 /\ full.side = side2
        /\ full \in [rows : Seq(OutputEffect), side : Seq(Entry(Opposite(t.cont.side))),
                     ok : BOOLEAN, stop : BOOLEAN, cont : Joining]
    <3>. DEFINE other == Opposite(t.cont.side)
    <3>1. /\ p \in [rows : Seq(OutputEffect), side : Seq(Entry(other)),
                     ok : BOOLEAN, stop : BOOLEAN, cont : Joining]
          /\ rows2 \in Seq(OutputEffect) /\ side2 \in Seq(Entry(other)) /\ p.stop \in BOOLEAN
      BY <2>3, <2>4, PlanFacts
    <3>. HIDE DEF other
    <3>2. LET q == [p EXCEPT !.rows = rows2, !.side = side2, !.cont = cont2, !.stop = p.stop]
          IN /\ q \in [rows : Seq(OutputEffect), side : Seq(Entry(other)),
                         ok : BOOLEAN, stop : BOOLEAN, cont : Joining]
             /\ q.rows = rows2 /\ q.side = side2 /\ q.cont = cont2
      BY <2>2, <3>1, PlanUpdate, Zenon
    <3>. QED BY <2>5, <3>2 DEF other
  <2>. QED BY <2>2, <2>3, <2>4, <2>6, PlanFacts DEF Plans
<1>. HIDE DEF valid, failed, cut, full
<1>. QED BY <1>1, <1>10, <1>11, <1>12

\* The loop over a page.
LEMMA PlannedIn ==
    ASSUME JoinOK, NEW t \in Tx, t.cont # None, t.cont.phase = "probe", NEW room \in Nat,
           NEW page \in Seq(1 .. Len(t.arr[Opposite(t.cont.side)]))
    PROVE  Planned(t, page, room) \in Plans(t, room)
<1>. DEFINE X == Plans(t, room)
            n == Len(page)
            start == [rows |-> <<>>, side |-> t.arr[Opposite(t.cont.side)], ok |-> TRUE,
                      stop |-> FALSE, cont |-> [t.cont EXCEPT !.pend = None]]
            Next1(p, i) == IF p.stop THEN p ELSE Classified(t, p, i, page[i], room)
            g == [q \in X \X (1 .. n) |-> Next1(q[1], q[2])]
            Steps(f) == f = [i \in 0 .. n |-> IF i = 0 THEN start
                                             ELSE LET p == f[i - 1]
                                                  IN IF p.stop THEN p
                                                     ELSE Classified(t, p, i, page[i], room)]
            step == CHOOSE f : Steps(f)
<1>1. n \in Nat /\ \A i \in 1 .. n : page[i] \in 1 .. Len(t.arr[Opposite(t.cont.side)])
  BY ElementOfSeq
<1>2. start \in X
  <2>1. ContOK(t.cont) /\ t.cont.side \in Side
    BY TxFacts DEF ContOK, AtChunk
  <2>2. t.cont \in Joining
    BY <2>1 DEF ContOK, Continuations, Opening, Passing
  <2>3. [t.cont EXCEPT !.pend = None] \in Joining
    BY <2>2 DEF Joining, Slot
  <2>4. /\ [t.cont EXCEPT !.pend = None].side = t.cont.side
        /\ [t.cont EXCEPT !.pend = None].at = t.cont.at
        /\ [t.cont EXCEPT !.pend = None].phase = t.cont.phase
        /\ [t.cont EXCEPT !.pend = None].pend = None
    BY <2>2 DEF Joining
  <2>5. Opposite(t.cont.side) \in Side
    BY <2>1 DEF Opposite, Side
  <2>6. t.arr[Opposite(t.cont.side)] \in Seq(Entry(Opposite(t.cont.side)))
    BY <2>5, TxFacts, ArrFacts
  <2>. DEFINE c == [t.cont EXCEPT !.pend = None]
              other == Opposite(t.cont.side)
              own == t.arr[other]
              q == [rows |-> <<>>, side |-> own, ok |-> TRUE, stop |-> FALSE, cont |-> c]
  <2>7. c \in Joining /\ own \in Seq(Entry(other)) /\ <<>> \in Seq(OutputEffect)
        /\ c.side = t.cont.side /\ c.at = t.cont.at /\ c.phase = "probe" /\ c.pend = None
    BY <2>3, <2>4, <2>6, EmptySeq
  <2>8. start = q
    OBVIOUS
  <2>. HIDE DEF c, own
  <2>9. /\ q \in [rows : Seq(OutputEffect), side : Seq(Entry(other)), ok : BOOLEAN,
                   stop : BOOLEAN, cont : Joining]
        /\ q.rows = <<>> /\ q.side = own /\ q.cont = c
    <3>. DEFINE A == Seq(OutputEffect)
                B == Seq(Entry(other))
    <3>. HIDE DEF A, B, other
    <3>1. c \in Joining /\ own \in B /\ <<>> \in A
      BY <2>7 DEF A, B
    <3>2. q \in [rows : A, side : B, ok : BOOLEAN, stop : BOOLEAN, cont : Joining]
      BY <3>1
    <3>. QED BY <3>2 DEF A, B
  <2>. HIDE DEF q, start
  <2>10. q \in Plans(t, room)
    BY <2>7, <2>9, EmptySeq DEF Plans, own
  <2>. QED BY <2>8, <2>10
<1>3. ASSUME NEW p \in X, NEW i \in 1 .. n PROVE Next1(p, i) \in X
  <2>. HIDE DEF X, n
  <2>1. Classified(t, p, i, page[i], room) \in X
    BY <1>1, ClassifiedIn DEF X
  <2>. QED BY <2>1
<1>. HIDE DEF X, n, start
<1>4. \A p \in X, i \in 1 .. n : g[<<p, i>>] = Next1(p, i) /\ g[<<p, i>>] \in X
  <2>. HIDE DEF Next1
  <2>. QED BY <1>3
<1>. HIDE DEF g
<1>5. PICK f \in [0 .. n -> X] : IsIteration(f, start, g, n)
  <2>1. StepOn(g, X, n)
    BY <1>4 DEF StepOn
  <2>. QED BY <1>1, <1>2, <2>1, IterationExists, Zenon
<1>6. \A i \in 0 .. n : f[i] = IF i = 0 THEN start ELSE Next1(f[i - 1], i)
  <2>1. SUFFICES ASSUME NEW i \in 0 .. n
                 PROVE  f[i] = IF i = 0 THEN start ELSE Next1(f[i - 1], i)
    OBVIOUS
  <2>2. f[i] = IF i = 0 THEN start ELSE g[<<f[i - 1], i>>]
    BY <1>5 DEF IsIteration
  <2>3. i # 0 => f[i - 1] \in X /\ i \in 1 .. n
    BY <1>1
  <2>. HIDE DEF Next1
  <2>. QED BY <1>4, <2>2, <2>3
<1>7. Steps(f)
  <2>1. f = [i \in 0 .. n |-> f[i]]
    OBVIOUS
  <2>. QED BY <2>1, <1>6, Zenon
<1>8. Steps(step)
  <2>. HIDE DEF Steps
  <2>. QED BY <1>7, Zenon
<1>9. Planned(t, page, room) = step[n]
  BY Zenon DEF Planned, n, start
<1>. HIDE DEF step
<1>10. StepAlike(step, f, n)
  <2>1. step[0] = start
    BY <1>1, <1>8
  <2>2. \A i \in 1 .. n : step[i] = Next1(step[i - 1], i)
    <3>1. \A i \in 0 .. n : step[i] = IF i = 0 THEN start ELSE Next1(step[i - 1], i)
      BY <1>8, Zenon
    <3>. QED BY <1>1, <3>1
  <2>. HIDE DEF Next1, Steps
  <2>. QED BY <2>1, <2>2, <1>1, <1>6 DEF StepAlike
<1>11. step[n] = f[n]
  BY <1>1, <1>10, SameSteps
<1>12. f[n] \in X
  BY <1>1
<1>. QED BY <1>9, <1>11, <1>12 DEF X

\* Probe: a page of candidates is joined and counted.
LEMMA ProbeTx ==
    ASSUME JoinOK, NEW t \in Tx, Continues(t), t.cont # None, t.cont.phase = "probe"
    PROVE  Probe(t) \in Tx
<1>. DEFINE side == t.cont.side
            all == Candidates(t, side, Event(t).row, t.cont.after)
            page == SubSeq(all, 1, Min({Len(all), BatchRows - t.used}))
            p == Planned(t, page, OutputBudget - Len(t.rows))
            done == ~p.stop /\ Len(page) = Len(all)
            c == IF done THEN [p.cont EXCEPT !.phase = "finalize"] ELSE p.cont
            arrs == [t.arr EXCEPT ![Opposite(side)] = p.side]
            x == [t EXCEPT !.rows = @ \o p.rows, !.lsn = CursorChunk(side).lsn,
                           !.arr[Opposite(side)] = p.side, !.used = @ + Len(page),
                           !.cont = c]
<1>1. ContOK(t.cont) /\ ~t.stop /\ t.used < BatchRows /\ Len(t.rows) < OutputBudget
  BY TxFacts DEF Continues
<1>2. t.cont \in Joining /\ t.cur = cur
  BY <1>1, TxFacts DEF ContOK, Continuations, Opening, Passing, InTime
<1>3. /\ side \in Side /\ HasChunk(side) /\ CursorChunk(side).kind = "data"
      /\ t.cont.at < Len(CursorChunk(side).rows) /\ t.cont.after \in Nat
  BY <1>1, <1>2 DEF ContOK, AtChunk, Joining
<1>4. Opposite(side) \in Side
  BY <1>3 DEF Opposite, Side
<1>5. Probe(t) = IF ~p.ok THEN Fail(t) ELSE x
  BY Zenon DEF Probe
<1>6. all \in Seq(1 .. Len(t.arr[Opposite(side)])) /\ Len(all) \in Nat
  BY <1>3, CandidatesType
<1>7. page \in Seq(1 .. Len(t.arr[Opposite(side)])) /\ Len(page) \in Nat
  <2>. DEFINE k == Min({Len(all), BatchRows - t.used})
  <2>1. BatchRows - t.used \in Nat
    BY <1>1, TxFacts, BatchAssumption
  <2>2. k \in 0 .. Len(all)
    <3>. HIDE DEF all
    <3>. QED BY <1>6, <2>1, MinOfTwo
  <2>. HIDE DEF k, all
  <2>3. \A i \in 1 .. k : all[i] \in 1 .. Len(t.arr[Opposite(side)])
    BY <1>6, <2>2, ElementOfSeq
  <2>4. SubSeq(all, 1, k) \in Seq(1 .. Len(t.arr[Opposite(side)]))
    BY <2>2, <2>3, SubSeqProperties
  <2>. QED BY <2>4, LenProperties DEF k
<1>8. OutputBudget - Len(t.rows) \in Nat
  <2>1. OutputBudget \in Nat
    BY BatchAssumption, JoinAssumption, MinOfTwo DEF OutputBudget
  <2>2. Len(t.rows) \in Nat
    BY TxFacts, LenProperties
  <2>. QED BY <1>1, <2>1, <2>2
<1>. HIDE DEF page, all
<1>9. p \in Plans(t, OutputBudget - Len(t.rows))
  BY <1>1, <1>7, <1>8, PlannedIn
<1>. HIDE DEF p
<1>10. /\ p.rows \in Seq(OutputEffect) /\ p.side \in Seq(Entry(Opposite(side)))
       /\ p.cont \in Joining /\ p.cont.side = side /\ p.cont.at = t.cont.at
       /\ p.cont.phase = "probe"
       /\ p.cont.pend # None => classify_candidate(side, Event(t), p.cont.pend) # <<>>
  BY <1>9, PlanFacts
<1>11. /\ c \in Joining /\ c.side = side /\ c.at = t.cont.at /\ c.pend = p.cont.pend
       /\ c.phase \in {"probe", "finalize"}
  BY <1>10 DEF Joining
<1>. HIDE DEF c, done
<1>12. ContOK(c)
  <2>1. EventAt(c) = Event(t)
    BY <1>11 DEF EventAt, Event
  <2>2. c \in Continuations
    BY <1>11 DEF Continuations
  <2>. HIDE DEF side
  <2>. QED BY <1>3, <1>10, <1>11, <2>1, <2>2 DEF ContOK, AtChunk
<1>13. arrs \in Arrangements
  BY <1>4, <1>10, TxFacts, ArrFacts
<1>14. t.rows \o p.rows \in Seq(OutputEffect)
  BY <1>10, TxFacts, ConcatProperties
<1>15. CursorChunk(side).lsn \in Nat
  BY <1>3, CursorFacts
<1>16. x = [t EXCEPT !.rows = t.rows \o p.rows, !.lsn = CursorChunk(side).lsn,
                     !.arr = arrs, !.used = t.used + Len(page), !.cont = c]
  BY TxFacts DEF Transactions
<1>. HIDE DEF x, arrs, side
<1>17. x \in Transactions /\ x.cont = c /\ x.cur = t.cur /\ x.frontier = t.frontier
  <2>. DEFINE rows == t.rows \o p.rows
              lsn == CursorChunk(side).lsn
              used == t.used + Len(page)
  <2>1. /\ rows \in Seq(OutputEffect) /\ lsn \in Nat /\ used \in Nat /\ arrs \in Arrangements
        /\ c \in Continuations
    BY <1>7, <1>11, <1>13, <1>14, <1>15, TxFacts DEF Continuations
  <2>. HIDE DEF rows, lsn, used
  <2>2. x = [t EXCEPT !.rows = rows, !.lsn = lsn, !.arr = arrs, !.used = used, !.cont = c]
    BY <1>16 DEF rows, lsn, used
  <2>. QED BY <2>1, <2>2, TxFacts DEF Transactions
<1>18. x \in Tx
  BY <1>2, <1>3, <1>12, <1>17, StaysTx, SideHasChunk
<1>. QED BY <1>5, <1>18, FailTx

\* Whatever the phase, a transition keeps the transaction in Tx.
LEMMA TransitionTx ==
    ASSUME JoinOK, NEW t \in Tx, Continues(t)
    PROVE  Transition(t) \in Tx
<1>1. ~t.stop /\ t.cont \in Continuations
  BY TxFacts DEF Continues
<1>2. CASE t.cont = None
  BY <1>1, <1>2, OpenTx DEF Transition
<1>3. CASE t.cont # None
  <2>1. t.cont.phase \in {"preflight", "probe", "finalize", "frontier"}
    BY <1>1, <1>3 DEF Continuations, Opening, Passing, Joining
  <2>2. CASE t.cont.phase = "preflight"
    <3>1. Transition(t) = Preflight(t)
      BY <1>3, <2>2 DEF Transition
    <3>. QED BY <1>1, <1>3, <2>2, <3>1, PreflightTx
  <2>3. CASE t.cont.phase = "probe"
    <3>1. Transition(t) = Probe(t)
      BY <1>3, <2>3 DEF Transition
    <3>. QED BY <1>1, <1>3, <2>3, <3>1, ProbeTx
  <2>4. CASE t.cont.phase = "finalize"
    <3>1. Transition(t) = Finalize(t)
      BY <1>3, <2>4 DEF Transition
    <3>. QED BY <1>1, <1>3, <2>4, <3>1, FinalizeTx
  <2>5. CASE t.cont.phase = "frontier"
    <3>1. Transition(t) = PassFrontier(t)
      BY <1>3, <2>5 DEF Transition
    <3>. QED BY <1>1, <1>3, <2>5, <3>1, PassFrontierTx
  <2>. QED BY <2>1, <2>2, <2>3, <2>4, <2>5
<1>. QED BY <1>2, <1>3

\* A transaction begins in Tx.
LEMMA BegunTx ==
    ASSUME JoinOK, Runnable
    PROVE  Begun \in Tx
<1>1. Begun \in Transactions
  BY EmptySeq DEF Begun, Transactions, JoinOK, ContOK
<1>2. InTime(Begun)
  BY DEF Begun, InTime, Runnable
<1>3. Complete(Begun)
  <2>1. \A side \in Side : cur[side].frontier \in Nat
    BY DEF JoinOK, Cursors
  <2>. QED BY <2>1 DEF Begun, Complete, JoinOK
<1>4. ContOK(Begun.cont)
  BY DEF Begun, JoinOK
<1>. QED BY <1>1, <1>2, <1>3, <1>4 DEF Tx

\* A whole quantum.
LEMMA QuantumTx ==
    ASSUME JoinOK, Runnable
    PROVE  Quantum \in Tx
<1>. DEFINE n == Transitions
            Next1(t) == IF Continues(t) THEN Transition(t) ELSE t
            g == [q \in Tx \X (1 .. n) |-> Next1(q[1])]
            Steps(f) == f = [i \in 0 .. n |-> IF i = 0 THEN Begun
                                             ELSE LET t == f[i - 1]
                                                  IN IF Continues(t) THEN Transition(t) ELSE t]
            after == CHOOSE f : Steps(f)
<1>1. n \in Nat
  BY JoinAssumption
<1>2. Begun \in Tx
  BY BegunTx
<1>3. ASSUME NEW t \in Tx PROVE Next1(t) \in Tx
  BY TransitionTx
<1>. HIDE DEF n
<1>4. \A t \in Tx, i \in 1 .. n : g[<<t, i>>] = Next1(t) /\ g[<<t, i>>] \in Tx
  <2>. HIDE DEF Next1
  <2>. QED BY <1>3
<1>. HIDE DEF g
<1>5. PICK f \in [0 .. n -> Tx] : IsIteration(f, Begun, g, n)
  <2>1. StepOn(g, Tx, n)
    BY <1>4 DEF StepOn
  <2>. QED BY <1>1, <1>2, <2>1, IterationExists, Zenon
<1>6. \A i \in 0 .. n : f[i] = IF i = 0 THEN Begun ELSE Next1(f[i - 1])
  <2>1. SUFFICES ASSUME NEW i \in 0 .. n
                 PROVE  f[i] = IF i = 0 THEN Begun ELSE Next1(f[i - 1])
    OBVIOUS
  <2>2. f[i] = IF i = 0 THEN Begun ELSE g[<<f[i - 1], i>>]
    BY <1>5 DEF IsIteration
  <2>3. i # 0 => f[i - 1] \in Tx /\ i \in 1 .. n
    BY <1>1
  <2>. HIDE DEF Next1
  <2>. QED BY <1>4, <2>2, <2>3
<1>7. Steps(f)
  <2>1. f = [i \in 0 .. n |-> f[i]]
    OBVIOUS
  <2>. QED BY <2>1, <1>6, Zenon
<1>8. Steps(after)
  <2>. HIDE DEF Steps
  <2>. QED BY <1>7, Zenon
<1>9. Quantum = after[n]
  BY Zenon DEF Quantum, n
<1>. HIDE DEF after
<1>10. StepAlike(after, f, n)
  <2>1. after[0] = Begun
    BY <1>1, <1>8
  <2>2. \A i \in 1 .. n : after[i] = Next1(after[i - 1])
    <3>1. \A i \in 0 .. n : after[i] = IF i = 0 THEN Begun ELSE Next1(after[i - 1])
      BY <1>8, Zenon
    <3>. HIDE DEF Next1, Steps
    <3>. QED BY <1>1, <3>1
  <2>. HIDE DEF Next1, Steps
  <2>. QED BY <2>1, <2>2, <1>1, <1>6 DEF StepAlike
<1>11. after[n] = f[n]
  <2>1. \A i \in 0 .. n : after[i] = f[i]
    BY <1>1, <1>10, SameSteps
  <2>. QED BY <1>1, <2>1
<1>12. f[n] \in Tx
  BY <1>1
<1>. QED BY <1>9, <1>11, <1>12
-----------------------------------------------------------------------------
\* The whole page of an inner join.

\* A sequence of sequences, flattened.
LEMMA FlattenType ==
    ASSUME NEW R, NEW ss \in Seq(Seq(R))
    PROVE  FlattenSeq(ss) \in Seq(R)
<1>. DEFINE n == Len(ss)
            Next1(s, i) == IF i = 1 THEN ss[i] ELSE s \o ss[i]
            g == [q \in Seq(R) \X (1 .. n) |-> Next1(q[1], q[2])]
            Steps(f) == f = [i \in 1 .. n |-> IF i = 1 THEN ss[i] ELSE f[i - 1] \o ss[i]]
            flatten == CHOOSE f : Steps(f)
<1>0. CASE n = 0
  <2>1. ss = <<>>
    BY <1>0, EmptySeq
  <2>2. Len(ss) = 0
    BY <1>0
  <2>. HIDE DEF n
  <2>3. FlattenSeq(ss) = ss
    BY <2>2, Zenon DEF FlattenSeq
  <2>. QED BY <2>1, <2>3, EmptySeq
<1>a. CASE n # 0
  <2>1. n \in Nat /\ \A i \in 1 .. n : ss[i] \in Seq(R)
    BY ElementOfSeq
  <2>2. \A s \in Seq(R), i \in 1 .. n : Next1(s, i) \in Seq(R)
    BY <2>1, ConcatProperties
  <2>. HIDE DEF n
  <2>3. \A s \in Seq(R), i \in 1 .. n : g[<<s, i>>] = Next1(s, i) /\ g[<<s, i>>] \in Seq(R)
    <3>. HIDE DEF Next1
    <3>. QED BY <2>2
  <2>. HIDE DEF g
  <2>4. PICK f \in [0 .. n -> Seq(R)] : IsIteration(f, <<>>, g, n)
    <3>1. StepOn(g, Seq(R), n)
      BY <2>3 DEF StepOn
    <3>2. <<>> \in Seq(R)
      OBVIOUS
    <3>. QED BY <2>1, <3>1, <3>2, IterationExists, Zenon
  <2>5. \A i \in 1 .. n : f[i] = Next1(f[i - 1], i)
    <3>1. SUFFICES ASSUME NEW i \in 1 .. n PROVE f[i] = Next1(f[i - 1], i)
      OBVIOUS
    <3>2. f[i] = g[<<f[i - 1], i>>]
      BY <2>1, <2>4 DEF IsIteration
    <3>3. f[i - 1] \in Seq(R)
      BY <2>1
    <3>. HIDE DEF Next1
    <3>. QED BY <2>3, <3>2, <3>3
  <2>. DEFINE h == [i \in 1 .. n |-> f[i]]
  <2>6. Steps(h)
    <3>1. \A i \in 1 .. n : h[i] = IF i = 1 THEN ss[i] ELSE h[i - 1] \o ss[i]
      <4>1. SUFFICES ASSUME NEW i \in 1 .. n
                     PROVE  h[i] = IF i = 1 THEN ss[i] ELSE h[i - 1] \o ss[i]
        OBVIOUS
      <4>2. h[i] = f[i] /\ (i # 1 => h[i - 1] = f[i - 1])
        BY <2>1
      <4>. HIDE DEF h
      <4>. QED BY <2>5, <4>2
    <3>2. h = [i \in 1 .. n |-> h[i]]
      OBVIOUS
    <3>. HIDE DEF h
    <3>. QED BY <3>1, <3>2, Zenon
  <2>7. Steps(flatten)
    <3>. HIDE DEF Steps, h
    <3>. QED BY <2>6, Zenon
  <2>8. FlattenSeq(ss) = flatten[n]
    BY <1>a, Zenon DEF FlattenSeq, n
  <2>. HIDE DEF flatten
  <2>. DEFINE e == [i \in 0 .. n |-> IF i = 0 THEN f[0] ELSE flatten[i]]
  <2>9. StepAlike(e, f, n)
    <3>1. \A i \in 1 .. n : flatten[i] = IF i = 1 THEN ss[i] ELSE flatten[i - 1] \o ss[i]
      BY <2>7, Zenon
    <3>2. e[0] = f[0] /\ \A i \in 1 .. n : e[i] = flatten[i]
      BY <2>1
    <3>3. \A i \in 1 .. n : i # 1 => i - 1 \in 1 .. n
      BY <2>1
    <3>. HIDE DEF e
    <3>4. ASSUME NEW i \in 1 .. n, e[i - 1] = f[i - 1] PROVE e[i] = f[i]
      BY <2>5, <3>1, <3>2, <3>3, <3>4
    <3>. QED BY <3>2, <3>4 DEF StepAlike
  <2>10. e[n] = f[n] /\ e[n] = flatten[n]
    <3>1. e[n] = flatten[n]
      BY <1>a, <2>1 DEF n
    <3>. HIDE DEF e
    <3>2. \A i \in 0 .. n : e[i] = f[i]
      BY <2>1, <2>9, SameSteps
    <3>. QED BY <2>1, <3>1, <3>2
  <2>11. f[n] \in Seq(R)
    BY <2>1
  <2>. HIDE DEF e
  <2>. QED BY <2>8, <2>10, <2>11
<1>. QED BY <1>0, <1>a

\* A finite set as a sequence.
LEMMA SetToSeqType ==
    ASSUME NEW T, IsFiniteSet(T)
    PROVE  SetToSeq(T) \in Seq(T)
<1>. DEFINE n == Cardinality(T)
            Lists(f) == f \in [1 .. n -> T] /\ IsInjective(f)
<1>1. n \in Nat /\ ExistsBijection(1 .. n, T)
  BY FS_CardinalityType
<1>2. \E f \in [1 .. n -> T] : IsInjective(f)
  BY <1>1, Zenon DEF ExistsBijection, Bijection, Injection, IsInjective
<1>3. SetToSeq(T) \in [1 .. n -> T]
  BY <1>2, Zenon DEF SetToSeq
<1>. HIDE DEF n
<1>. QED BY <1>1, <1>3, SeqDef

\* The values of a sequence are finitely many.
LEMMA ImageFinite ==
    ASSUME NEW R, NEW s \in Seq(R), NEW T, T = {s[i] : i \in 1 .. Len(s)}
    PROVE  IsFiniteSet(T)
<1>1. IsFiniteSet(1 .. Len(s))
  <2>1. 1 \in Int /\ Len(s) \in Int
    BY LenProperties
  <2>. QED BY <2>1, FS_Interval
<1>2. s \in Surjection(1 .. Len(s), T)
  BY LenProperties DEF Surjection
<1>. QED BY <1>1, <1>2, FS_Surjection

\* The pairs of a chunk are effects on output rows.
LEMMA PairsType ==
    ASSUME JoinOK, NEW side \in Side, HasChunk(side)
    PROVE  Pairs(side) \in Seq(OutputEffect)
<1>. DEFINE rows == CursorChunk(side).rows
            others == arr[Opposite(side)]
            matched(e) == Ascending({i \in DOMAIN others :
                                       TruthOf(side, e.row, others[i].row) = "true"}, Len(others))
            pairOf(e, c) == [row |-> OutRow(side, e.row, c.row), w |-> e.w * c.n]
            of(e) == [k \in DOMAIN matched(e) |-> pairOf(e, others[matched(e)[k]])]
            lists == [i \in DOMAIN rows |-> of(rows[i])]
<1>1. Pairs(side) = FlattenSeq(lists)
  BY Zenon DEF Pairs
<1>2. rows \in Seq(InputEffect(side)) /\ DOMAIN rows = 1 .. Len(rows) /\ Len(rows) \in Nat
  BY CursorFacts, LenProperties
<1>3. Opposite(side) \in Side
  BY DEF Opposite, Side
<1>4. others \in Seq(Entry(Opposite(side))) /\ DOMAIN others = 1 .. Len(others)
      /\ Len(others) \in Nat
  BY <1>3, ArrFacts DEF JoinOK
<1>. HIDE DEF rows, others
<1>5. ASSUME NEW e \in InputEffect(side) PROVE of(e) \in Seq(OutputEffect)
  <2>. DEFINE T == {i \in DOMAIN others : TruthOf(side, e.row, others[i].row) = "true"}
              m == matched(e)
  <2>1. T \in SUBSET (1 .. Len(others)) /\ m = Ascending(T, Len(others))
    BY <1>4
  <2>. HIDE DEF T, m
  <2>2. m \in Seq(T)
    BY <1>4, <2>1, AscendingFacts
  <2>3. \A k \in DOMAIN m : others[m[k]] \in Entry(Opposite(side))
    <3>1. \A k \in 1 .. Len(m) : m[k] \in 1 .. Len(others)
      BY <2>1, <2>2, ElementOfSeq
    <3>. QED BY <1>4, <2>2, <3>1, ElementOfSeq, LenProperties
  <2>4. ASSUME NEW c \in Entry(Opposite(side)) PROVE pairOf(e, c) \in OutputEffect
    <3>1. /\ e.row \in RowsOf(side) /\ e.w \in Int
          /\ c.row \in RowsOf(Opposite(side)) /\ c.n \in Int
      BY DEF InputEffect, Weighted, Entry
    <3>2. OutRow(side, e.row, c.row) \in OutRows
      BY <3>1 DEF OutRow, OutRows, RowsOf, Opposite, Side
    <3>3. e.w * c.n \in Int
      BY <3>1
    <3>. QED BY <3>2, <3>3 DEF OutputEffect, Weighted
  <2>5. DOMAIN m = 1 .. Len(m) /\ Len(m) \in Nat
    BY <2>2, LenProperties
  <2>6. of(e) = [k \in 1 .. Len(m) |-> pairOf(e, others[m[k]])]
    BY <2>5 DEF m
  <2>. HIDE DEF pairOf, of
  <2>7. [k \in 1 .. Len(m) |-> pairOf(e, others[m[k]])] \in [1 .. Len(m) -> OutputEffect]
    BY <2>3, <2>4, <2>5
  <2>. QED BY <2>5, <2>6, <2>7, SeqDef
<1>. HIDE DEF of
<1>6. lists \in [1 .. Len(rows) -> Seq(OutputEffect)]
  BY <1>2, <1>5, ElementOfSeq
<1>7. lists \in Seq(Seq(OutputEffect))
  BY <1>2, <1>6, SeqDef
<1>. HIDE DEF lists
<1>. QED BY <1>1, <1>7, FlattenType

\* The candidates of a page with their counts.
LEMMA PageCountsType ==
    ASSUME JoinOK, NEW side \in Side, NEW rows \in Seq(InputEffect(side))
    PROVE  PageCounts(side, rows) \in Seq(Entry(Opposite(side)))
<1>. DEFINE others == arr[Opposite(side)]
            Weight(c, truth) == Total([j \in DOMAIN rows |->
                IF TruthOf(side, rows[j].row, c.row) = truth THEN rows[j].w ELSE 0])
            new(c) == [c EXCEPT !.m = @ + Weight(c, "true"), !.u = @ + Weight(c, "unknown")]
<1>1. PageCounts(side, rows) = [i \in DOMAIN others |-> new(others[i])]
  BY DEF PageCounts
<1>2. Opposite(side) \in Side
  BY DEF Opposite, Side
<1>3. others \in Seq(Entry(Opposite(side))) /\ DOMAIN others = 1 .. Len(others)
      /\ Len(others) \in Nat
  BY <1>2, ArrFacts DEF JoinOK
<1>. HIDE DEF others
<1>4. ASSUME NEW c, NEW truth PROVE Weight(c, truth) \in Int
  <2>. DEFINE terms == [j \in DOMAIN rows |->
                IF TruthOf(side, rows[j].row, c.row) = truth THEN rows[j].w ELSE 0]
  <2>1. DOMAIN rows = 1 .. Len(rows) /\ Len(rows) \in Nat
    BY LenProperties
  <2>2. \A j \in 1 .. Len(rows) : rows[j].w \in Int
    <3>1. \A j \in 1 .. Len(rows) : rows[j] \in InputEffect(side)
      BY ElementOfSeq
    <3>. QED BY <3>1 DEF InputEffect, Weighted
  <2>3. terms \in [1 .. Len(rows) -> Int]
    BY <2>1, <2>2
  <2>4. terms \in Seq(Int)
    BY <2>1, <2>3, SeqDef
  <2>. HIDE DEF terms
  <2>5. Total(terms) \in Int
    BY <2>4, TotalInt
  <2>. QED BY <2>5 DEF terms
<1>. HIDE DEF Weight
<1>5. ASSUME NEW c \in Entry(Opposite(side)) PROVE new(c) \in Entry(Opposite(side))
  <2>1. c.m + Weight(c, "true") \in Int /\ c.u + Weight(c, "unknown") \in Int /\ 0 \in Int
    BY <1>4 DEF Entry
  <2>2. new(c) = [c EXCEPT !.m = c.m + Weight(c, "true"), !.u = c.u + Weight(c, "unknown")]
    OBVIOUS
  <2>. QED BY <2>1, <2>2, EntryUpdate
<1>. HIDE DEF new
<1>6. [i \in DOMAIN others |-> new(others[i])] \in [1 .. Len(others) -> Entry(Opposite(side))]
  BY <1>3, <1>5, ElementOfSeq
<1>. QED BY <1>1, <1>3, <1>6, SeqDef

\* The own side after a page.
LEMMA PageOwnType ==
    ASSUME JoinOK, NEW side \in Side, NEW rows \in Seq(InputEffect(side))
    PROVE  PageOwn(side, rows) \in Seq(Entry(side))
<1>. DEFINE old == arr[side]
            others == arr[Opposite(side)]
            touched == {rows[i].row : i \in DOMAIN rows}
            n(r) == (IF Position(old, r) = 0 THEN 0 ELSE old[Position(old, r)].n) + Net(rows, r)
            Weight(r, truth) == Total([j \in DOMAIN others |->
              LET c == others[j] IN IF TruthOf(side, r, c.row) = truth THEN c.n ELSE 0])
            entry(r) == [row |-> r, n |-> n(r), m |-> Weight(r, "true"), u |-> Weight(r, "unknown")]
            new == [i \in DOMAIN old |-> IF old[i].row \in touched THEN entry(old[i].row) ELSE old[i]]
            absent == {r \in touched : Position(old, r) = 0}
            fresh == SetToSeq(absent)
            kept == Ascending({i \in DOMAIN new : new[i].n > 0}, Len(new))
<1>1. PageOwn(side, rows)
        = [k \in DOMAIN kept |-> new[kept[k]]] \o [i \in DOMAIN fresh |-> entry(fresh[i])]
  BY Zenon DEF PageOwn
<1>2. Opposite(side) \in Side
  BY DEF Opposite, Side
<1>3. /\ others \in Seq(Entry(Opposite(side))) /\ DOMAIN others = 1 .. Len(others)
      /\ Len(others) \in Nat
      /\ old \in Seq(Entry(side)) /\ DOMAIN old = 1 .. Len(old) /\ Len(old) \in Nat
  BY <1>2, ArrFacts DEF JoinOK
<1>4. /\ DOMAIN rows = 1 .. Len(rows) /\ Len(rows) \in Nat
      /\ \A i \in 1 .. Len(rows) : rows[i] \in InputEffect(side)
  BY LenProperties, ElementOfSeq
<1>5. touched \subseteq RowsOf(side)
  BY <1>4 DEF InputEffect, Weighted
<1>6. IsFiniteSet(absent)
  <2>. DEFINE names == [i \in 1 .. Len(rows) |-> rows[i].row]
  <2>1. names \in [1 .. Len(rows) -> touched]
    BY <1>4
  <2>2. touched = {names[i] : i \in 1 .. Len(rows)}
    BY <1>4
  <2>3. names \in Seq(touched) /\ Len(names) = Len(rows)
    BY <1>4, <2>1, SeqDef
  <2>. HIDE DEF names, touched
  <2>4. IsFiniteSet(touched)
    BY <2>2, <2>3, ImageFinite
  <2>. QED BY <2>4, FS_Subset
<1>. HIDE DEF old, others, touched
<1>7. ASSUME NEW r, NEW truth PROVE Weight(r, truth) \in Int
  <2>. DEFINE terms == [j \in DOMAIN others |->
              LET c == others[j] IN IF TruthOf(side, r, c.row) = truth THEN c.n ELSE 0]
  <2>1. \A j \in 1 .. Len(others) : others[j].n \in Int
    <3>1. \A j \in 1 .. Len(others) : others[j] \in Entry(Opposite(side))
      BY <1>3, ElementOfSeq
    <3>. QED BY <3>1 DEF Entry
  <2>2. terms \in [1 .. Len(others) -> Int]
    BY <1>3, <2>1
  <2>3. terms \in Seq(Int)
    BY <1>3, <2>2, SeqDef
  <2>. HIDE DEF terms
  <2>4. Total(terms) \in Int
    BY <2>3, TotalInt
  <2>. QED BY <2>4 DEF terms
<1>8. ASSUME NEW r PROVE n(r) \in Int
  <2>1. Net(rows, r) \in Int
    BY NetInt DEF InputEffect
  <2>2. Position(old, r) \in 0 .. Len(old)
    BY <1>3, PositionFacts
  <2>3. Position(old, r) # 0 => old[Position(old, r)].n \in Int
    <3>1. Position(old, r) # 0 => old[Position(old, r)] \in Entry(side)
      BY <1>3, <2>2, ElementOfSeq
    <3>. QED BY <3>1 DEF Entry
  <2>. QED BY <2>1, <2>3
<1>. HIDE DEF Weight, n
<1>9. \A r \in RowsOf(side) : entry(r) \in Entry(side)
  BY <1>7, <1>8 DEF Entry
<1>. HIDE DEF entry
<1>10. new \in [1 .. Len(old) -> Entry(side)]
  <2>1. \A i \in 1 .. Len(old) : old[i] \in Entry(side)
    BY <1>3, ElementOfSeq
  <2>2. \A r \in touched : entry(r) \in Entry(side)
    BY <1>5, <1>9
  <2>. QED BY <1>3, <2>1, <2>2
<1>11. new \in Seq(Entry(side)) /\ DOMAIN new = 1 .. Len(new) /\ Len(new) \in Nat
  BY <1>3, <1>10, SeqDef, LenProperties
<1>. HIDE DEF new
<1>12. kept \in Seq(1 .. Len(new))
  <2>. DEFINE T == {i \in DOMAIN new : new[i].n > 0}
  <2>1. T \subseteq 1 .. Len(new) /\ Len(new) \in Nat
    BY <1>11
  <2>. HIDE DEF T
  <2>2. Ascending(T, Len(new)) \in Seq(T)
    BY <2>1, AscendingFacts
  <2>3. Ascending(T, Len(new)) \in Seq(1 .. Len(new))
    BY <2>1, <2>2, SeqMonotonic
  <2>. QED BY <2>3 DEF T
<1>. HIDE DEF kept
<1>13. [k \in DOMAIN kept |-> new[kept[k]]] \in Seq(Entry(side))
  <2>1. DOMAIN kept = 1 .. Len(kept) /\ Len(kept) \in Nat
        /\ \A k \in 1 .. Len(kept) : kept[k] \in 1 .. Len(new)
    BY <1>12, LenProperties, ElementOfSeq
  <2>2. \A k \in 1 .. Len(kept) : new[kept[k]] \in Entry(side)
    BY <1>11, <2>1, ElementOfSeq
  <2>3. [k \in DOMAIN kept |-> new[kept[k]]] \in [1 .. Len(kept) -> Entry(side)]
    BY <2>1, <2>2
  <2>. QED BY <2>1, <2>3, SeqDef
<1>14. fresh \in Seq(absent)
  BY <1>6, SetToSeqType
<1>15. absent \subseteq RowsOf(side)
  BY <1>5
<1>. HIDE DEF fresh, absent
<1>16. [i \in DOMAIN fresh |-> entry(fresh[i])] \in Seq(Entry(side))
  <2>1. DOMAIN fresh = 1 .. Len(fresh) /\ Len(fresh) \in Nat
        /\ \A k \in 1 .. Len(fresh) : fresh[k] \in absent
    BY <1>14, LenProperties, ElementOfSeq
  <2>2. [i \in DOMAIN fresh |-> entry(fresh[i])] \in [1 .. Len(fresh) -> Entry(side)]
    BY <1>9, <1>15, <2>1
  <2>. QED BY <2>1, <2>2, SeqDef
<1>. QED BY <1>1, <1>13, <1>16, ConcatProperties

\* What every transaction ends with.
Ended(t) ==
    /\ t \in Transactions /\ ContOK(t.cont) /\ Complete(t)
    /\ t.cont # None => t.cur = cur

\* The whole-page path of an inner join ends as a quantum does.
LEMMA InnerEnded ==
    ASSUME JoinOK, Runnable, InnerPageTaken
    PROVE  Ended(InnerPage)
<1>. DEFINE side == NextSide
            rows == CursorChunk(side).rows
            own == PageOwn(side, rows)
            counts == PageCounts(side, rows)
            x == InnerPage
            arrs == [[arr EXCEPT ![Opposite(side)] = counts] EXCEPT ![side] = own]
            curs == [cur EXCEPT ![side].next = @ + 1]
            valid == PageValid(side, rows)
            lsn == CursorChunk(side).lsn
            pairs == Pairs(side)
<1>1. cont = None /\ side \in Side /\ HasChunk(side)
  BY DEF InnerPageTaken, Runnable, NextSide, Side
<1>. HIDE DEF side
<1>2. rows \in Seq(InputEffect(side)) /\ lsn \in Nat
  BY <1>1, CursorFacts
<1>3. own \in Seq(Entry(side)) /\ counts \in Seq(Entry(Opposite(side)))
  BY <1>1, <1>2, PageOwnType, PageCountsType
<1>4. pairs \in Seq(OutputEffect)
  BY <1>1, PairsType
<1>. HIDE DEF own, counts, pairs, lsn
<1>5. Opposite(side) \in Side /\ Opposite(side) # side
  BY <1>1 DEF Opposite, Side
<1>6. arrs \in Arrangements
  <2>1. [arr EXCEPT ![Opposite(side)] = counts] \in Arrangements
    BY <1>3, <1>5, ArrFacts DEF JoinOK
  <2>. QED BY <1>1, <1>3, <2>1, ArrFacts
<1>7. cur \in Cursors
  BY DEF JoinOK
<1>8. /\ curs \in Cursors /\ curs[side].next = cur[side].next + 1
      /\ curs[side].frontier = cur[side].frontier
      /\ \A s \in Side : s # side => curs[s] = cur[s]
  BY <1>1, <1>7 DEF Cursors
<1>9. x = [Begun EXCEPT !.rows = pairs, !.lsn = lsn,
                        !.arr[Opposite(side)] = counts, !.arr[side] = own,
                        !.cur[side].next = @ + 1, !.ok = valid]
  BY Zenon DEF InnerPage, pairs, lsn, own, counts, side
<1>10. x = [cont |-> None, cur |-> curs, arr |-> arrs, rows |-> pairs, lsn |-> lsn,
            frontier |-> 0, used |-> 0, ok |-> valid, stop |-> FALSE]
  BY <1>1, <1>9 DEF Begun
<1>11. valid \in BOOLEAN
  BY DEF PageValid
<1>. HIDE DEF x, arrs, curs, valid
<1>12. /\ x \in Transactions /\ x.cont = None /\ x.cur = curs /\ x.frontier = 0
  BY <1>2, <1>4, <1>6, <1>8, <1>10, <1>11 DEF Transactions, Continuations
<1>13. \A s \in Side : x.frontier <= x.cur[s].frontier
  BY <1>8, <1>12 DEF Cursors
<1>14. ContOK(x.cont) /\ Complete(x)
  BY <1>1, <1>8, <1>12, <1>13, Moves
<1>. QED BY <1>12, <1>14 DEF Ended, x

\* Either way a transaction ends well.
LEMMA TransactionEnded ==
    ASSUME JoinOK, Runnable
    PROVE  Ended(Transaction)
<1>1. Ended(Quantum)
  BY QuantumTx, TxFacts DEF Ended, InTime
<1>. QED BY <1>1, InnerEnded DEF Transaction
-----------------------------------------------------------------------------
\* The order of LSNs.

\* LSNs never fall along a stream, and rise after a frontier.
Ordered(l) ==
    \A j \in 1 .. Len(l) :
        /\ l[j].lsn > 0
        /\ \A i \in 1 .. Len(l) : i < j =>
             l[i].lsn <= l[j].lsn /\ (l[i].kind = "frontier" => l[i].lsn < l[j].lsn)

\* A stream keeps its order with every chunk it accepts.
LEMMA AcceptedOrdered ==
    ASSUME NEW R, NEW l \in Seq(ChunkOf(R)), Ordered(l), NEW chunk \in ChunkOf(R),
           Accepted(l, chunk)
    PROVE  /\ Append(l, chunk) \in Seq(ChunkOf(R)) /\ Ordered(Append(l, chunk))
           /\ Len(Append(l, chunk)) = Len(l) + 1 /\ Append(l, chunk)[Len(l) + 1] = chunk
           /\ \A i \in 1 .. Len(l) : Append(l, chunk)[i] = l[i]
<1>1. /\ Len(l) \in Nat /\ DOMAIN l = 1 .. Len(l)
      /\ \A i \in 1 .. Len(l) : l[i] \in ChunkOf(R)
  BY LenProperties, ElementOfSeq
<1>2. /\ \A i \in 1 .. Len(l) : l[i].lsn \in Nat /\ l[i].kind \in {"data", "frontier"}
      /\ chunk.lsn \in Nat
  BY <1>1 DEF ChunkOf
<1>. DEFINE Lsns(k) == {0} \cup {l[i].lsn : i \in Of(l, k)}
<1>3. ASSUME NEW k PROVE LastLsn(l, k) \in Nat /\ \A i \in 1 .. Len(l) : l[i].kind = k => l[i].lsn <= LastLsn(l, k)
  <2>. DEFINE b == IF Len(l) = 0 THEN 0 ELSE l[Len(l)].lsn
  <2>1. Of(l, k) = {i \in 1 .. Len(l) : l[i].kind = k}
    BY <1>1 DEF Of
  <2>2. b \in Nat /\ \A i \in 1 .. Len(l) : l[i].lsn <= b
    <3>1. CASE Len(l) = 0
      BY <3>1
    <3>2. CASE Len(l) # 0
      <4>1. Len(l) \in 1 .. Len(l)
        BY <1>1, <3>2
      <4>2. \A i \in 1 .. Len(l) : i < Len(l) => l[i].lsn <= l[Len(l)].lsn
        BY <4>1 DEF Ordered
      <4>3. \A i \in 1 .. Len(l) : i < Len(l) \/ i = Len(l)
        <5>1. Len(l) \in Nat
          BY <1>1
        <5>. QED BY <5>1
      <4>4. b = l[Len(l)].lsn
        BY <3>2
      <4>. HIDE DEF b
      <4>. QED BY <1>2, <4>1, <4>2, <4>3, <4>4
    <3>. QED BY <3>1, <3>2
  <2>. HIDE DEF b
  <2>3. Lsns(k) \in SUBSET Nat /\ Lsns(k) # {} /\ \A y \in Lsns(k) : y <= b
    BY <1>2, <2>1, <2>2
  <2>4. LastLsn(l, k) = Max(Lsns(k))
    BY DEF LastLsn
  <2>5. \A i \in 1 .. Len(l) : l[i].kind = k => l[i].lsn \in Lsns(k)
    BY <2>1
  <2>. HIDE DEF Lsns
  <2>6. Max(Lsns(k)) \in Lsns(k) /\ \A y \in Lsns(k) : Max(Lsns(k)) >= y
    BY <2>2, <2>3, MaxOfNats
  <2>. QED BY <2>3, <2>4, <2>5, <2>6
<1>4. chunk.lsn > 0 /\ \A i \in 1 .. Len(l) :
        l[i].lsn <= chunk.lsn /\ (l[i].kind = "frontier" => l[i].lsn < chunk.lsn)
  <2>1. chunk.lsn > LastLsn(l, "frontier") /\ chunk.lsn >= LastLsn(l, "data")
    BY DEF Accepted
  <2>2. LastLsn(l, "frontier") \in Nat /\ LastLsn(l, "data") \in Nat
    BY <1>3
  <2>3. \A i \in 1 .. Len(l) : l[i].kind = "frontier" => l[i].lsn <= LastLsn(l, "frontier")
    BY <1>3
  <2>4. \A i \in 1 .. Len(l) : l[i].kind = "data" => l[i].lsn <= LastLsn(l, "data")
    BY <1>3
  <2>. QED BY <1>2, <2>1, <2>2, <2>3, <2>4
<1>. DEFINE m == Append(l, chunk)
<1>5. /\ m \in Seq(ChunkOf(R)) /\ Len(m) = Len(l) + 1 /\ m[Len(l) + 1] = chunk
      /\ \A i \in 1 .. Len(l) : m[i] = l[i]
  BY AppendProperties
<1>. HIDE DEF m
<1>6. Ordered(m)
  <2>1. SUFFICES ASSUME NEW j \in 1 .. Len(m)
                 PROVE  /\ m[j].lsn > 0
                        /\ \A i \in 1 .. Len(m) : i < j =>
                             m[i].lsn <= m[j].lsn /\ (m[i].kind = "frontier" => m[i].lsn < m[j].lsn)
    BY DEF Ordered
  <2>2. CASE j = Len(l) + 1
    <3>1. \A i \in 1 .. Len(m) : i < j => i \in 1 .. Len(l)
      BY <1>1, <1>5, <2>2
    <3>. QED BY <1>4, <1>5, <2>2, <3>1
  <2>3. CASE j # Len(l) + 1
    <3>1. j \in 1 .. Len(l) /\ \A i \in 1 .. Len(m) : i < j => i \in 1 .. Len(l)
      BY <1>1, <1>5, <2>3
    <3>. QED BY <1>5, <3>1 DEF Ordered
  <2>. QED BY <2>2, <2>3
<1>. QED BY <1>5, <1>6 DEF m

\* What a cursor has passed stays passed when the stream grows.
LEMMA PassedGrows ==
    ASSUME NEW l, NEW m, NEW c, Len(l) \in Nat, Len(m) = Len(l) + 1,
           \A i \in 1 .. Len(l) : m[i] = l[i], Passed(l, c)
    PROVE  Passed(m, c)
BY DEF Passed

\* A chunk at or below a frontier that was passed is before the cursor.
LEMMA PassedCovers ==
    ASSUME NEW l, Ordered(l), Len(l) \in Nat, NEW c, Passed(l, c), c.next \in Nat, c.frontier \in Nat,
           NEW i \in 1 .. Len(l), l[i].lsn \in Nat, NEW f \in Nat, f <= c.frontier, l[i].lsn <= f
    PROVE  i < c.next
<1>1. l[i].lsn > 0
  BY DEF Ordered
<1>2. PICK k \in 1 .. Len(l) : k < c.next /\ l[k].kind = "frontier" /\ l[k].lsn = c.frontier
  BY <1>1 DEF Passed
<1>3. SUFFICES ASSUME ~(i < c.next) PROVE FALSE
  OBVIOUS
<1>4. k < i
  BY <1>2, <1>3
<1>5. l[k].lsn < l[i].lsn
  BY <1>2, <1>4 DEF Ordered
<1>. QED BY <1>2, <1>5

\* The streams of both sides and the output are in order, and the output
\* promises no more than both inputs have completed.
FrontierLaw ==
    /\ \A side \in Side : Ordered(in[side]) /\ Passed(in[side], cur[side])
    /\ Ordered(out)
    /\ \A i \in 1 .. Len(out) : out[i].kind = "frontier" =>
         \A side \in Side : out[i].lsn <= cur[side].frontier

JoinInv == JoinOK /\ LogOK(out, OutputEffect) /\ FrontierLaw

\* Actions of candidates depend on the plan only.
LEMMA SameActions ==
    ASSUME kind' = kind, NEW side, NEW event, NEW entry
    PROVE  classify_candidate(side, event, entry)' = classify_candidate(side, event, entry)
BY DEF classify_candidate, pair_enabled, candidate_eligible, candidate_side_is_output

\* A continuation stays at its chunk while cursors stay and streams grow.
LEMMA ContStays ==
    ASSUME NEW CONSTANT c, ContOK(c), kind' = kind, cur' = cur,
           \A side \in Side : HasChunk(side) => HasChunk(side)' /\ CursorChunk(side)' = CursorChunk(side)
    PROVE  ContOK(c)'
<1>1. CASE c = None
  BY <1>1 DEF ContOK, Continuations
<1>2. CASE c # None
  <2>1. c \in Continuations /\ AtChunk(c)
    BY <1>2 DEF ContOK
  <2>2. HasChunk(c.side)' /\ CursorChunk(c.side)' = CursorChunk(c.side)
    BY <2>1 DEF AtChunk
  <2>3. EventAt(c)' = EventAt(c)
    BY <2>2 DEF EventAt
  <2>4. classify_candidate(c.side, EventAt(c), c.pend)' = classify_candidate(c.side, EventAt(c), c.pend)
    BY <2>3, SameActions
  <2>5. AtChunk(c)'
    BY <2>1, <2>2, <2>4 DEF AtChunk
  <2>. QED BY <2>1, <2>5 DEF ContOK
<1>. QED BY <1>1, <1>2

\* JoinInv holds at the start.
LEMMA JoinInvInit == JoinInit => JoinInv
<1>. SUFFICES ASSUME JoinInit PROVE JoinInv
  OBVIOUS
<1>1. /\ in = [side \in Side |-> in[side]]
      /\ \A side \in Side : in[side] = <<>> /\ Len(in[side]) = 0
  BY DEF JoinInit
<1>2. \A side \in Side : LogOK(in[side], InputEffect(side))
  <2>1. ASSUME NEW side \in Side PROVE in[side] \in Seq(ChunkOf(InputEffect(side)))
    BY <1>1, EmptySeq
  <2>. QED BY <1>1, <2>1 DEF LogOK
<1>3. cur \in Cursors /\ \A side \in Side : cur[side].next = 1 /\ cur[side].frontier = 0
  BY DEF JoinInit, Cursors
<1>4. InRange(cur)
  BY <1>1, <1>3 DEF InRange
<1>5. arr \in Arrangements
  <2>1. \A side \in Side : <<>> \in Seq(Entry(side))
    OBVIOUS
  <2>. QED BY <2>1 DEF JoinInit, Arrangements, Side
<1>6. ContOK(cont)
  BY DEF JoinInit, ContOK, Continuations
<1>7. LogOK(out, OutputEffect) /\ Len(out) = 0
  BY DEF JoinInit, LogOK
<1>8. FrontierLaw
  BY <1>1, <1>3, <1>7 DEF FrontierLaw, Ordered, Passed
<1>. QED BY <1>1, <1>2, <1>3, <1>4, <1>5, <1>6, <1>7, <1>8 DEF JoinInv, JoinOK

\* An upstream chunk keeps JoinInv: cursors and continuation stay where they are.
LEMMA UpstreamInv ==
    ASSUME JoinInv, Upstream
    PROVE  JoinInv'
<1>0. PICK side \in Side, lsn \in 1 .. MaxLsn :
        \E chunk \in {Data(lsn, rows) : rows \in Inputs[side]} \cup {Frontier(lsn)} :
          Accepted(in[side], chunk) /\ in' = [in EXCEPT ![side] = Append(@, chunk)]
  BY DEF Upstream
<1>1. PICK chunk \in {Data(lsn, rows) : rows \in Inputs[side]} \cup {Frontier(lsn)} :
        Accepted(in[side], chunk) /\ in' = [in EXCEPT ![side] = Append(@, chunk)]
  BY <1>0
<1>2. kind' = kind /\ cur' = cur /\ arr' = arr /\ cont' = cont /\ out' = out
  BY DEF Upstream
<1>3. chunk \in ChunkOf(InputEffect(side)) /\ (chunk.rows = <<>> <=> chunk.kind = "frontier")
  <2>1. lsn \in Nat
    BY JoinAssumption
  <2>2. CASE chunk = Frontier(lsn)
    BY <2>1, <2>2, EmptySeq DEF Frontier, ChunkOf
  <2>3. CASE chunk # Frontier(lsn)
    <3>1. PICK rows \in Inputs[side] : chunk = Data(lsn, rows)
      BY <1>1, <2>3
    <3>2. rows \in Seq([row : RowsOf(side), w : Int \ {0}]) /\ rows # <<>>
      BY JoinAssumption
    <3>3. rows \in Seq(InputEffect(side))
      <4>1. [row : RowsOf(side), w : Int \ {0}] \subseteq InputEffect(side)
        BY DEF InputEffect, Weighted
      <4>. QED BY <3>2, <4>1, SeqMonotonic
    <3>4. chunk.rows = rows /\ chunk.lsn = lsn /\ chunk.kind = "data"
          /\ chunk = [kind |-> "data", lsn |-> lsn, rows |-> rows]
      BY <3>1 DEF Data
    <3>5. chunk \in ChunkOf(InputEffect(side))
      BY <2>1, <3>3, <3>4 DEF ChunkOf
    <3>. QED BY <3>2, <3>4, <3>5
  <2>. QED BY <2>2, <2>3
<1>4. \A s \in Side : /\ in[s] \in Seq(ChunkOf(InputEffect(s))) /\ Len(in[s]) \in Nat
                      /\ Ordered(in[s]) /\ Passed(in[s], cur[s])
                      /\ cur[s].next \in 1 .. Len(in[s]) + 1
  BY LenProperties DEF JoinInv, JoinOK, LogOK, FrontierLaw, InRange
<1>. DEFINE m == Append(in[side], chunk)
<1>5. /\ m \in Seq(ChunkOf(InputEffect(side))) /\ Ordered(m)
      /\ Len(m) = Len(in[side]) + 1 /\ m[Len(in[side]) + 1] = chunk
      /\ \A i \in 1 .. Len(in[side]) : m[i] = in[side][i]
  <2>. DEFINE R == InputEffect(side)
  <2>. HIDE DEF R
  <2>. QED BY <1>1, <1>3, <1>4, AcceptedOrdered DEF R
<1>6. /\ in'[side] = m /\ in' = [s \in Side |-> in'[s]]
      /\ \A s \in Side : s # side => in'[s] = in[s]
  <2>1. in = [s \in Side |-> in[s]]
    BY DEF JoinInv, JoinOK
  <2>. HIDE DEF m
  <2>2. in' = [in EXCEPT ![side] = m]
    BY <1>1 DEF m
  <2>3. in' = [s \in Side |-> IF s = side THEN m ELSE in[s]]
    BY <2>1, <2>2, Zenon
  <2>. QED BY <2>3
<1>. HIDE DEF m
<1>7. LogOK(m, InputEffect(side))
  <2>1. LogOK(in[side], InputEffect(side))
    BY DEF JoinInv, JoinOK
  <2>. QED BY <1>3, <1>4, <1>5, <2>1, SMTT(30) DEF LogOK
<1>8. \A s \in Side : LogOK(in'[s], InputEffect(s))
  BY <1>6, <1>7 DEF JoinInv, JoinOK
<1>9. InRange(cur)'
  BY <1>2, <1>4, <1>5, <1>6 DEF InRange
<1>10. \A s \in Side : HasChunk(s) => HasChunk(s)' /\ CursorChunk(s)' = CursorChunk(s)
  BY <1>2, <1>4, <1>5, <1>6 DEF HasChunk, CursorChunk
<1>11. ContOK(cont)'
  <2>1. ContOK(cont)
    BY DEF JoinInv, JoinOK
  <2>2. \A c : ContOK(c) => ContOK(c)'
    BY <1>2, <1>10, ContStays
  <2>. QED BY <1>2, <2>1, <2>2 DEF ContOK, AtChunk, EventAt
<1>12. JoinOK'
  BY <1>2, <1>6, <1>8, <1>9, <1>11 DEF JoinInv, JoinOK
<1>13. FrontierLaw'
  <2>1. \A s \in Side : Ordered(in'[s])
    BY <1>4, <1>5, <1>6
  <2>2. Passed(m, cur[side])
    BY <1>4, <1>5, PassedGrows
  <2>3. \A s \in Side : Passed(in'[s], cur'[s])
    BY <1>2, <1>4, <1>6, <2>2
  <2>. QED BY <1>2, <2>1, <2>3 DEF FrontierLaw, JoinInv
<1>. QED BY <1>2, <1>12, <1>13 DEF JoinInv

\* A transaction of the Join keeps JoinInv.
LEMMA JoinStepInv ==
    ASSUME JoinInv, JoinStep
    PROVE  JoinInv'
<1>. DEFINE t == Transaction
<1>1. /\ Runnable /\ Published(t)
      /\ cont' = t.cont /\ cur' = t.cur /\ arr' = t.arr /\ out' = out \o Output(t)
      /\ kind' = kind /\ in' = in
  BY DEF JoinStep
<1>2. Ended(t)
  BY <1>1, TransactionEnded DEF JoinInv
<1>. HIDE DEF t
<1>3. /\ t \in Transactions /\ t.cur \in Cursors /\ t.arr \in Arrangements
      /\ t.rows \in Seq(OutputEffect) /\ t.lsn \in Nat /\ t.frontier \in Nat
      /\ ContOK(t.cont) /\ Complete(t) /\ (t.cont # None => t.cur = cur)
  BY <1>2 DEF Ended, Transactions
<1>4. ContOK(cont)'
  <2>1. CASE t.cont = None
    BY <1>1, <2>1 DEF ContOK, Continuations
  <2>2. CASE t.cont # None
    <3>1. cur' = cur
      BY <1>1, <1>3, <2>2
    <3>2. \A s \in Side : HasChunk(s) => HasChunk(s)' /\ CursorChunk(s)' = CursorChunk(s)
      BY <1>1, <3>1 DEF HasChunk, CursorChunk
    <3>3. \A c : ContOK(c) => ContOK(c)'
      BY <1>1, <3>1, <3>2, ContStays
    <3>. QED BY <1>1, <1>3, <3>3 DEF ContOK, AtChunk, EventAt
  <2>. QED BY <2>1, <2>2
<1>5. JoinOK'
  <2>1. InRange(cur)'
    BY <1>1, <1>3 DEF Complete, InRange
  <2>. QED BY <1>1, <1>3, <1>4, <2>1 DEF JoinInv, JoinOK
<1>6. /\ out \in Seq(ChunkOf(OutputEffect)) /\ Len(out) \in Nat /\ Ordered(out)
      /\ \A i \in 1 .. Len(out) : out[i].rows = <<>> <=> out[i].kind = "frontier"
  BY LenProperties DEF JoinInv, LogOK, FrontierLaw
<1>7. \A side \in Side : cur[side].frontier <= cur'[side].frontier /\ cur[side].frontier \in Nat
                         /\ cur'[side].frontier \in Nat /\ t.frontier <= cur'[side].frontier
                         /\ Passed(in'[side], cur'[side])
  BY <1>1, <1>3 DEF Complete, JoinInv, JoinOK, FrontierLaw, Cursors
<1>8. \A i \in 1 .. Len(out) : out[i].kind = "frontier" =>
        \A side \in Side : out[i].lsn <= cur'[side].frontier
  <2>1. \A i \in 1 .. Len(out) : out[i].lsn \in Nat
    <3>1. \A i \in 1 .. Len(out) : out[i] \in ChunkOf(OutputEffect)
      BY <1>6, ElementOfSeq
    <3>. QED BY <3>1 DEF ChunkOf
  <2>2. \A i \in 1 .. Len(out) : out[i].kind = "frontier" =>
        \A side \in Side : out[i].lsn <= cur[side].frontier
    BY DEF JoinInv, FrontierLaw
  <2>. QED BY <1>7, <2>1, <2>2
<1>9. CASE Output(t) = <<>>
  <2>1. out' = out
    BY <1>1, <1>6, <1>9, ConcatEmptySeq
  <2>2. LogOK(out, OutputEffect)'
    BY <2>1 DEF JoinInv, LogOK
  <2>3. Ordered(out)'
    BY <1>6, <2>1 DEF Ordered
  <2>4. FrontierLaw'
    BY <1>1, <1>7, <1>8, <2>1, <2>3 DEF JoinInv, FrontierLaw
  <2>. QED BY <1>5, <2>2, <2>4 DEF JoinInv
<1>10. CASE Output(t) # <<>>
  <2>1. PICK chunk : /\ Output(t) = <<chunk>>
                     /\ \/ chunk = Data(t.lsn, t.rows) /\ t.rows # <<>>
                        \/ chunk = Frontier(t.frontier)
    BY <1>10 DEF Output
  <2>2. /\ chunk \in ChunkOf(OutputEffect) /\ (chunk.rows = <<>> <=> chunk.kind = "frontier")
        /\ chunk.kind = "frontier" => chunk.lsn = t.frontier
    <3>1. CASE chunk = Data(t.lsn, t.rows) /\ t.rows # <<>>
      BY <1>3, <3>1 DEF Data, ChunkOf
    <3>2. CASE chunk = Frontier(t.frontier)
      BY <1>3, <3>2, EmptySeq DEF Frontier, ChunkOf
    <3>. QED BY <2>1, <3>1, <3>2
  <2>3. Accepted(out, chunk)
    <3>1. DOMAIN Output(t) = {1} /\ Output(t)[1] = chunk
      BY <2>1
    <3>. QED BY <1>1, <3>1 DEF Published
  <2>4. out' = Append(out, chunk)
    BY <1>1, <1>6, <2>1, <2>2, AppendIsConcat
  <2>5. /\ out' \in Seq(ChunkOf(OutputEffect)) /\ Ordered(out')
        /\ Len(out') = Len(out) + 1 /\ out'[Len(out) + 1] = chunk
        /\ \A i \in 1 .. Len(out) : out'[i] = out[i]
    <3>. DEFINE R == OutputEffect
    <3>. HIDE DEF R
    <3>. QED BY <1>6, <2>2, <2>3, <2>4, AcceptedOrdered DEF R
  <2>6. \A i \in 1 .. Len(out') : i \in 1 .. Len(out) \/ i = Len(out) + 1
    BY <1>6, <2>5
  <2>7. LogOK(out, OutputEffect)'
    BY <1>6, <2>2, <2>5, <2>6 DEF LogOK
  <2>8. \A i \in 1 .. Len(out') : out'[i].kind = "frontier" =>
          \A side \in Side : out'[i].lsn <= cur'[side].frontier
    BY <1>7, <1>8, <2>2, <2>5, <2>6
  <2>9. FrontierLaw'
    BY <1>1, <1>7, <2>5, <2>8 DEF FrontierLaw, JoinInv
  <2>. QED BY <1>5, <2>7, <2>9 DEF JoinInv
<1>. QED BY <1>9, <1>10

\* No other step touches what the Join owns.
LEMMA JoinInvStays ==
    ASSUME JoinInv, UNCHANGED joinVars
    PROVE  JoinInv'
<1>1. /\ kind' = kind /\ in' = in /\ cur' = cur /\ arr' = arr /\ cont' = cont /\ out' = out
  BY DEF joinVars
<1>2. ContOK(cont)'
  <2>1. \A s \in Side : HasChunk(s) => HasChunk(s)' /\ CursorChunk(s)' = CursorChunk(s)
    BY <1>1 DEF HasChunk, CursorChunk
  <2>2. \A c : ContOK(c) => ContOK(c)'
    BY <1>1, <2>1, ContStays
  <2>. QED BY <1>1, <2>2 DEF ContOK, AtChunk, EventAt, JoinInv, JoinOK
<1>3. JoinOK'
  BY <1>1, <1>2 DEF JoinInv, JoinOK, InRange
<1>4. FrontierLaw' /\ LogOK(out, OutputEffect)'
  BY <1>1 DEF JoinInv, FrontierLaw, LogOK
<1>. QED BY <1>3, <1>4 DEF JoinInv
-----------------------------------------------------------------------------
\* The instance of Sink computes with the operators of SinkPage.
LEMMA SameOperators ==
    /\ \A s : S!Total(s) = Total(s)
    /\ \A e, r : S!Net(e, r) = Net(e, r)
    /\ \A e : S!Mutations(e) = Mutations(e)
    /\ \A w : S!Abs(w) = Abs(w) /\ S!Sign(w) = Sign(w)
    /\ \A e, r, sign : S!Copies(e, r, sign) = Copies(e, r, sign)
    /\ \A e, at, rest : S!Rest(e, at, rest) = Rest(e, at, rest)
    /\ \A s : S!Min(s) = Min(s) /\ S!Max(s) = Max(s)
<1>1. \A s : S!Total(s) = Total(s)
  BY Zenon DEF S!Total, Total
<1>2. \A w : S!Abs(w) = Abs(w) /\ S!Sign(w) = Sign(w)
  BY Zenon DEF S!Abs, Abs, S!Sign, Sign
<1>3. \A s : S!Min(s) = Min(s) /\ S!Max(s) = Max(s)
  BY Zenon DEF S!Min, S!Max, Min, Max
<1>4. \A e, r : S!Net(e, r) = Net(e, r)
  BY <1>1, Zenon DEF S!Net, Net
<1>5. \A e : S!Mutations(e) = Mutations(e)
  BY <1>1, <1>2, Zenon DEF S!Mutations, Mutations
<1>6. \A e, r, sign : S!Copies(e, r, sign) = Copies(e, r, sign)
  BY <1>1, <1>2, Zenon DEF S!Copies, Copies
<1>7. \A e, at, rest : S!Rest(e, at, rest) = Rest(e, at, rest)
  BY Zenon DEF S!Rest, Rest
<1>. QED BY <1>1, <1>2, <1>3, <1>4, <1>5, <1>6, <1>7

\* So does its planning and its DML.
LEMMA SamePages ==
    /\ \A e, at, rest : S!Heads(e, at, rest) = Heads(e, at, rest)
    /\ \A heads : S!Whole(heads) = Whole(heads)
    /\ \A heads, whole, at : S!Page(heads, whole, at) = Page(heads, whole, at)
    /\ \A old, actions : S!PageApplies(old, actions) <=> PageApplies(old, actions)
    /\ \A old, actions : S!mutate_result_page(old, actions) = mutate_result_page(old, actions)
<1>1. \A e, at, rest : S!Heads(e, at, rest) = Heads(e, at, rest)
  BY SameOperators, Zenon DEF S!Heads, Heads
<1>2. \A heads : S!Whole(heads) = Whole(heads)
  <2>1. ASSUME NEW heads PROVE S!Whole(heads) = Whole(heads)
    <3>1. {j \in 0 .. Len(heads) : S!Mutations(SubSeq(heads, 1, j)) <= BatchRows}
          = {j \in 0 .. Len(heads) : Mutations(SubSeq(heads, 1, j)) <= BatchRows}
      BY SameOperators
    <3>. QED BY <3>1, SameOperators, Zenon DEF S!Whole, Whole
  <2>. QED BY <2>1
<1>3. \A e, budget : S!plan_weight_page(e, budget) = plan_weight_page(e, budget)
  BY SameOperators, Zenon DEF S!plan_weight_page, plan_weight_page
<1>4. \A heads, whole, at : S!Page(heads, whole, at) = Page(heads, whole, at)
  <2>1. ASSUME NEW heads, NEW whole, NEW at
        PROVE  S!Page(heads, whole, at) = Page(heads, whole, at)
    <3>. DEFINE taken == SubSeq(heads, 1, whole)
                spare == BatchRows - Mutations(taken)
                part == plan_weight_page(heads[whole + 1], spare)
    <3>1. S!Mutations(taken) = Mutations(taken)
      BY SameOperators
    <3>2. S!plan_weight_page(heads[whole + 1], spare) = part
      BY <1>3
    <3>3. S!Page(heads, whole, at) =
            IF whole = Len(heads) \/ spare = 0
            THEN [actions |-> taken, at |-> at + whole, rest |-> 0]
            ELSE [actions |-> Append(taken, part), at |-> at + whole,
                  rest |-> heads[whole + 1].w - part.w]
      BY <3>1, <3>2, Zenon DEF S!Page
    <3>4. Page(heads, whole, at) =
            IF whole = Len(heads) \/ spare = 0
            THEN [actions |-> taken, at |-> at + whole, rest |-> 0]
            ELSE [actions |-> Append(taken, part), at |-> at + whole,
                  rest |-> heads[whole + 1].w - part.w]
      BY Zenon DEF Page
    <3>. QED BY <3>3, <3>4
  <2>. QED BY <2>1
<1>5. \A old, actions : S!Deleted(old, actions) = Deleted(old, actions)
  BY SameOperators, Zenon DEF S!Deleted, Deleted
<1>6. \A old, actions : S!PageApplies(old, actions) <=> PageApplies(old, actions)
  BY <1>5, SameOperators, Zenon DEF S!PageApplies, PageApplies
<1>7. \A old, actions : S!mutate_result_page(old, actions) = mutate_result_page(old, actions)
  BY <1>5, SameOperators, Zenon DEF S!mutate_result_page, mutate_result_page
<1>. QED BY <1>1, <1>2, <1>4, <1>6, <1>7
-----------------------------------------------------------------------------
\* The Sink's position on the output and its result.
SinkOK ==
    /\ sinkCur \in [next : Nat, frontier : Nat] /\ sinkCur.next \in 1 .. Len(out) + 1
    /\ sinkCont \in [at : Nat, rest : Int]
    /\ \A r \in Rows : result[r] \in Int
    /\ sinkCont # S!NoContinuation =>
         /\ sinkCur.next <= Len(out)
         /\ out[sinkCur.next].kind = "data" /\ sinkCont.at < Len(out[sinkCur.next].rows)

\* The terms of Emitted, and of what follows the chunk at the cursor.
Nets(l, r) == [i \in DOMAIN l |-> Net(l[i].rows, r)]
After(l, n, r) == [i \in 1 .. Len(l) - n |-> Net(l[n + i].rows, r)]

\* What the Sink owes for a row at a position of a log.
Owed(l, c, k, r) ==
    IF c.next <= Len(l)
    THEN Net(Rest(l[c.next].rows, k.at, k.rest), r) + Total(After(l, c.next, r))
    ELSE 0

\* ResultExact in terms of this module.
Exact(l, c, k, res) == \A r \in Rows : res[r] + Owed(l, c, k, r) = Total(Nets(l, r))

\* ResultExact says what Exact says.
LEMMA ExactIs == S!ResultExact <=> Exact(out, sinkCur, sinkCont, result)
<1>1. ASSUME NEW r PROVE S!Outstanding(r) = Owed(out, sinkCur, sinkCont, r)
  <2>1. [i \in 1 .. Len(out) - sinkCur.next |-> S!Net(out[sinkCur.next + i].rows, r)]
        = After(out, sinkCur.next, r)
    BY SameOperators, Zenon DEF After
  <2>2. CASE sinkCur.next <= Len(out)
    BY <2>1, <2>2, SameOperators, Zenon DEF S!Outstanding, Owed, S!Pending, S!CursorChunk
  <2>3. CASE ~(sinkCur.next <= Len(out))
    BY <2>3, Zenon DEF S!Outstanding, Owed, S!Pending
  <2>. QED BY <2>2, <2>3
<1>2. ASSUME NEW r PROVE S!Emitted(r) = Total(Nets(out, r))
  BY SameOperators, Zenon DEF S!Emitted, Nets
<1>. QED BY <1>1, <1>2, Zenon DEF S!ResultExact, Exact

\* What is known of the Sink: SinkOK, the frontier chunk its frontier is from,
\* and ResultExact.
SinkInv == SinkOK /\ Passed(out, sinkCur) /\ Exact(out, sinkCur, sinkCont, result)

\* The chunks of the output.
LEMMA OutFacts ==
    ASSUME NEW l, LogOK(l, OutputEffect)
    PROVE  /\ l \in Seq(ChunkOf(OutputEffect)) /\ Len(l) \in Nat /\ DOMAIN l = 1 .. Len(l)
           /\ \A i \in 1 .. Len(l) :
                /\ l[i].rows \in Seq(Weighted(OutRows)) /\ l[i].lsn \in Nat
                /\ l[i].kind \in {"data", "frontier"}
                /\ Len(l[i].rows) \in Nat
                /\ l[i].kind = "frontier" => Len(l[i].rows) = 0
                /\ \A r : Net(l[i].rows, r) \in Int
<1>1. l \in Seq(ChunkOf(OutputEffect)) /\ Len(l) \in Nat /\ DOMAIN l = 1 .. Len(l)
  BY LenProperties DEF LogOK
<1>2. ASSUME NEW i \in 1 .. Len(l)
      PROVE  /\ l[i].rows \in Seq(Weighted(OutRows)) /\ l[i].lsn \in Nat
             /\ l[i].kind \in {"data", "frontier"} /\ Len(l[i].rows) \in Nat
             /\ l[i].kind = "frontier" => Len(l[i].rows) = 0
             /\ \A r : Net(l[i].rows, r) \in Int
  <2>1. l[i] \in ChunkOf(OutputEffect)
    BY <1>1, ElementOfSeq
  <2>2. /\ l[i].rows \in Seq(Weighted(OutRows)) /\ l[i].lsn \in Nat
        /\ l[i].kind \in {"data", "frontier"}
    BY <2>1 DEF ChunkOf, OutputEffect
  <2>3. Len(l[i].rows) \in Nat
    BY <2>2, LenProperties
  <2>4. l[i].kind = "frontier" => Len(l[i].rows) = 0
    BY EmptySeq DEF LogOK
  <2>5. \A r : Net(l[i].rows, r) \in Int
    BY <2>2, NetInt
  <2>. QED BY <2>2, <2>3, <2>4, <2>5
<1>. QED BY <1>1, <1>2

\* A log whose chunks have net effects in Int.
NetsInt(l) == Len(l) \in Nat /\ DOMAIN l = 1 .. Len(l) /\ \A i \in 1 .. Len(l) : \A r : Net(l[i].rows, r) \in Int

\* Nets and After are sequences of integers.
LEMMA NetsType ==
    ASSUME NEW l, NetsInt(l), NEW n \in 0 .. Len(l), NEW r
    PROVE  /\ Nets(l, r) \in Seq(Int) /\ Len(Nets(l, r)) = Len(l)
           /\ \A i \in 1 .. Len(l) : Nets(l, r)[i] = Net(l[i].rows, r)
           /\ After(l, n, r) \in Seq(Int) /\ Len(After(l, n, r)) = Len(l) - n
           /\ \A i \in 1 .. Len(l) - n : After(l, n, r)[i] = Net(l[n + i].rows, r)
<1>1. Len(l) \in Nat /\ Len(l) - n \in Nat
  BY DEF NetsInt
<1>2. Nets(l, r) = [i \in 1 .. Len(l) |-> Net(l[i].rows, r)]
  BY DEF Nets, NetsInt
<1>3. After(l, n, r) = [i \in 1 .. Len(l) - n |-> Net(l[n + i].rows, r)]
  BY DEF After
<1>4. \A i \in 1 .. Len(l) - n : Net(l[n + i].rows, r) \in Int
  BY <1>1 DEF NetsInt
<1>5. \A i \in 1 .. Len(l) : Net(l[i].rows, r) \in Int
  BY DEF NetsInt
<1>6. Nets(l, r) \in [1 .. Len(l) -> Int] /\ After(l, n, r) \in [1 .. Len(l) - n -> Int]
  BY <1>2, <1>3, <1>4, <1>5
<1>7. Nets(l, r) \in Seq(Int) /\ After(l, n, r) \in Seq(Int)
  BY <1>1, <1>6, SeqDef
<1>8. Len(Nets(l, r)) = Len(l) /\ Len(After(l, n, r)) = Len(l) - n
  BY <1>1, <1>2, <1>3, <1>7, LenProperties
<1>. QED BY <1>2, <1>3, <1>7, <1>8

\* What follows a chunk begins with the next chunk.
LEMMA AfterStep ==
    ASSUME NEW l, NetsInt(l), NEW n \in 0 .. Len(l), n < Len(l), NEW r
    PROVE  Total(After(l, n, r)) = Net(l[n + 1].rows, r) + Total(After(l, n + 1, r))
<1>. DEFINE s == After(l, n, r)
            b == After(l, n + 1, r)
            x == Net(l[n + 1].rows, r)
            a == <<x>>
<1>1. Len(l) \in Nat /\ n \in Nat /\ n + 1 \in 0 .. Len(l) /\ n + 1 \in 1 .. Len(l)
  BY DEF NetsInt
<1>2. /\ s \in Seq(Int) /\ Len(s) = Len(l) - n
      /\ \A i \in 1 .. Len(l) - n : s[i] = Net(l[n + i].rows, r)
  BY NetsType
<1>3. /\ b \in Seq(Int) /\ Len(b) = Len(l) - (n + 1)
      /\ \A i \in 1 .. Len(l) - (n + 1) : b[i] = Net(l[(n + 1) + i].rows, r)
  BY <1>1, NetsType
<1>4. x \in Int
  BY <1>1 DEF NetsInt
<1>. HIDE DEF s, b, x
<1>5. a \in Seq(Int) /\ Len(a) = 1 /\ a[1] = x
  BY <1>4
<1>6. Parts(s, a, b)
  <2>1. Len(s) = Len(a) + Len(b)
    BY <1>1, <1>2, <1>3, <1>5
  <2>2. \A i \in 1 .. Len(a) : s[i] = a[i]
    <3>1. s[1] = x
      BY <1>1, <1>2 DEF x
    <3>. QED BY <1>5, <3>1
  <2>3. \A i \in 1 .. Len(b) : s[Len(a) + i] = b[i]
    <3>1. SUFFICES ASSUME NEW i \in 1 .. Len(b) PROVE s[1 + i] = b[i]
      BY <1>5
    <3>2. 1 + i \in 1 .. Len(l) - n /\ i \in 1 .. Len(l) - (n + 1) /\ n + (1 + i) = (n + 1) + i
      BY <1>1, <1>3
    <3>. QED BY <1>2, <1>3, <3>2
  <2>. QED BY <2>1, <2>2, <2>3 DEF Parts
<1>7. Total(s) = Total(a) + Total(b)
  <2>. HIDE DEF a
  <2>. QED BY <1>2, <1>3, <1>5, <1>6, TotalSplit
<1>8. Total(a) = x
  <2>. DEFINE f == [i \in 0 .. 1 |-> IF i = 0 THEN 0 ELSE x]
  <2>1. f[0] = 0 /\ f[1] = x
    OBVIOUS
  <2>. HIDE DEF f, a
  <2>2. \A i \in 1 .. Len(a) : f[i] = f[i - 1] + a[i]
    BY <1>4, <1>5, <2>1
  <2>. QED BY <1>5, <2>1, <2>2, TotalIs
<1>. QED BY <1>7, <1>8 DEF s, b, x

\* At the beginning of a chunk everything from there on is owed.
LEMMA OwedFresh ==
    ASSUME NEW l, NetsInt(l), NEW n \in 0 .. Len(l), NEW c, c.next = n + 1,
           NEW k, k = S!NoContinuation, NEW r,
           \A i \in 1 .. Len(l) : l[i].rows \in Seq(Weighted(OutRows))
    PROVE  Owed(l, c, k, r) = Total(After(l, n, r))
<1>1. Len(l) \in Nat /\ k.at = 0 /\ k.rest = 0
  BY DEF NetsInt, S!NoContinuation
<1>2. CASE n < Len(l)
  <2>1. n + 1 \in 1 .. Len(l) /\ c.next <= Len(l)
    BY <1>1, <1>2
  <2>. DEFINE e == l[n + 1].rows
  <2>2. e \in Seq(Weighted(OutRows)) /\ Len(e) \in Nat
    BY <2>1, LenProperties
  <2>. HIDE DEF e
  <2>3. Rest(e, 0, 0) = e
    <3>1. Rest(e, 0, 0) \in Seq(Weighted(OutRows)) /\ IsRest(e, 0, 0, Rest(e, 0, 0))
      <4>1. 0 \in 0 .. Len(e) /\ 0 \in Int
        BY <2>2
      <4>. QED BY <2>2, <4>1, RestFacts
    <3>. DEFINE q == Rest(e, 0, 0)
    <3>. HIDE DEF q
    <3>2. Len(q) = Len(e) /\ \A i \in 1 .. Len(e) : q[i] = e[i]
      BY <2>2, <3>1 DEF IsRest, q
    <3>3. q = [i \in 1 .. Len(q) |-> q[i]] /\ e = [i \in 1 .. Len(e) |-> e[i]]
      BY <2>2, <3>1, LenProperties, SeqDef DEF q
    <3>4. q = e
      BY <3>2, <3>3
    <3>. QED BY <3>4 DEF q
  <2>4. Owed(l, c, k, r) = Net(Rest(e, 0, 0), r) + Total(After(l, n + 1, r))
    BY <1>1, <2>1 DEF Owed, e
  <2>5. Total(After(l, n, r)) = Net(l[n + 1].rows, r) + Total(After(l, n + 1, r))
    BY <1>2, AfterStep
  <2>. QED BY <2>3, <2>4, <2>5 DEF e
<1>3. CASE ~(n < Len(l))
  <2>1. n = Len(l) /\ ~(c.next <= Len(l))
    BY <1>1, <1>3
  <2>2. After(l, n, r) \in Seq(Int) /\ Len(After(l, n, r)) = 0
    BY <1>1, <2>1, NetsType
  <2>3. Total(After(l, n, r)) = 0
    BY <2>2, TotalEmpty
  <2>. QED BY <2>1, <2>3 DEF Owed
<1>. QED BY <1>2, <1>3

\* Everything emitted follows the beginning of the log.
LEMMA NetsAre ==
    ASSUME NEW l, NetsInt(l), NEW r
    PROVE  Nets(l, r) = After(l, 0, r)
<1>1. Len(l) \in Nat /\ DOMAIN l = 1 .. Len(l) /\ Len(l) - 0 = Len(l)
  BY DEF NetsInt
<1>2. \A i \in 1 .. Len(l) : 0 + i = i
  OBVIOUS
<1>3. [i \in 1 .. Len(l) |-> Net(l[i].rows, r)] = [i \in 1 .. Len(l) |-> Net(l[0 + i].rows, r)]
  BY <1>2
<1>. QED BY <1>1, <1>3, Zenon DEF Nets, After

\* A log with one chunk more.
Grows(l, m) == /\ NetsInt(l) /\ NetsInt(m)
               /\ Len(m) = Len(l) + 1 /\ \A i \in 1 .. Len(l) : m[i] = l[i]

\* The chunk that is added is added to what follows any position.
LEMMA AfterGrows ==
    ASSUME NEW l, NEW m, Grows(l, m), NEW n \in 0 .. Len(l), NEW r
    PROVE  /\ Total(After(m, n, r)) = Total(After(l, n, r)) + Net(m[Len(m)].rows, r)
           /\ Total(After(l, n, r)) \in Int
<1>. DEFINE s == After(m, n, r)
            a == After(l, n, r)
            b == After(m, Len(l), r)
<1>1. Len(l) \in Nat /\ Len(m) \in Nat /\ n \in 0 .. Len(m) /\ Len(l) \in 0 .. Len(m) /\ n \in Nat
  BY DEF Grows, NetsInt
<1>2. /\ s \in Seq(Int) /\ Len(s) = Len(m) - n
      /\ \A i \in 1 .. Len(m) - n : s[i] = Net(m[n + i].rows, r)
  <2>1. NetsInt(m)
    BY DEF Grows
  <2>. QED BY <1>1, <2>1, NetsType
<1>3. /\ a \in Seq(Int) /\ Len(a) = Len(l) - n
      /\ \A i \in 1 .. Len(l) - n : a[i] = Net(l[n + i].rows, r)
  BY <1>1, NetsType DEF Grows
<1>4. /\ b \in Seq(Int) /\ Len(b) = Len(m) - Len(l)
      /\ \A i \in 1 .. Len(m) - Len(l) : b[i] = Net(m[Len(l) + i].rows, r)
  <2>. DEFINE k == Len(l)
  <2>1. k \in 0 .. Len(m) /\ NetsInt(m)
    BY <1>1 DEF Grows
  <2>. HIDE DEF k
  <2>2. /\ After(m, k, r) \in Seq(Int) /\ Len(After(m, k, r)) = Len(m) - k
        /\ \A i \in 1 .. Len(m) - k : After(m, k, r)[i] = Net(m[k + i].rows, r)
    BY <2>1, NetsType
  <2>. QED BY <2>2 DEF k
<1>5. Total(b) = Net(m[Len(m)].rows, r)
  <2>1. Total(After(m, Len(l), r)) = Net(m[Len(l) + 1].rows, r) + Total(After(m, Len(l) + 1, r))
    BY <1>1, AfterStep DEF Grows
  <2>2. Len(l) + 1 \in 0 .. Len(m) /\ Len(m) = Len(l) + 1
    BY <1>1 DEF Grows
  <2>3. After(m, Len(l) + 1, r) \in Seq(Int) /\ Len(After(m, Len(l) + 1, r)) = 0
    BY <1>1, <2>2, NetsType DEF Grows
  <2>4. Total(After(m, Len(l) + 1, r)) = 0
    BY <2>3, TotalEmpty
  <2>5. Net(m[Len(m)].rows, r) \in Int
    BY <1>1, <2>2 DEF Grows, NetsInt
  <2>. QED BY <2>1, <2>2, <2>4, <2>5
<1>. HIDE DEF s, a, b
<1>6. Parts(s, a, b)
  <2>1. Len(s) = Len(a) + Len(b)
    BY <1>1, <1>2, <1>3, <1>4
  <2>2. ASSUME NEW i \in 1 .. Len(a) PROVE s[i] = a[i]
    <3>1. i \in 1 .. Len(l) - n /\ i \in 1 .. Len(m) - n /\ n + i \in 1 .. Len(l)
      BY <1>1, <1>3 DEF Grows
    <3>2. m[n + i] = l[n + i]
      BY <3>1 DEF Grows
    <3>. QED BY <1>2, <1>3, <3>1, <3>2
  <2>3. ASSUME NEW i \in 1 .. Len(b) PROVE s[Len(a) + i] = b[i]
    <3>1. i \in 1 .. Len(m) - Len(l) /\ Len(a) + i \in 1 .. Len(m) - n
          /\ n + (Len(a) + i) = Len(l) + i
      BY <1>1, <1>3, <1>4 DEF Grows
    <3>. QED BY <1>2, <1>4, <3>1
  <2>. QED BY <2>1, <2>2, <2>3 DEF Parts
<1>7. Total(s) = Total(a) + Total(b)
  BY <1>2, <1>3, <1>4, <1>6, TotalSplit
<1>8. Total(a) \in Int
  BY <1>3, TotalInt
<1>. QED BY <1>5, <1>7, <1>8 DEF s, a, b

\* What is published is owed.
LEMMA ExactGrows ==
    ASSUME NEW l, NEW m, Grows(l, m), NEW c, NEW k, NEW res, Exact(l, c, k, res),
           c.next \in 1 .. Len(l) + 1, k # S!NoContinuation => c.next <= Len(l),
           \A i \in 1 .. Len(m) : m[i].rows \in Seq(Weighted(OutRows)),
           \A r \in Rows : res[r] \in Int, c.next <= Len(l) => k.at \in 0 .. Len(l[c.next].rows),
           k.rest \in Int
    PROVE  Exact(m, c, k, res)
<1>. SUFFICES ASSUME NEW r \in Rows
              PROVE  res[r] + Owed(m, c, k, r) = Total(Nets(m, r))
  BY DEF Exact
<1>. DEFINE x == Net(m[Len(m)].rows, r)
<1>1. /\ Len(l) \in Nat /\ Len(m) = Len(l) + 1 /\ x \in Int /\ c.next \in Nat
      /\ \A i \in 1 .. Len(l) : m[i] = l[i]
  <2>1. /\ Len(l) \in Nat /\ Len(m) = Len(l) + 1 /\ c.next \in Nat
        /\ \A i \in 1 .. Len(l) : m[i] = l[i]
    BY DEF Grows, NetsInt
  <2>2. Len(m) \in 1 .. Len(m)
    BY <2>1
  <2>3. x \in Int
    BY <2>2 DEF Grows, NetsInt
  <2>. QED BY <2>1, <2>3
<1>2. Total(Nets(m, r)) = Total(Nets(l, r)) + x /\ Total(Nets(l, r)) \in Int
  <2>1. 0 \in 0 .. Len(l)
    BY <1>1
  <2>2. Total(After(m, 0, r)) = Total(After(l, 0, r)) + x /\ Total(After(l, 0, r)) \in Int
    BY <2>1, AfterGrows
  <2>. QED BY <2>2, NetsAre DEF Grows
<1>3. res[r] + Owed(l, c, k, r) = Total(Nets(l, r)) /\ res[r] \in Int
  BY DEF Exact
<1>. HIDE DEF x
<1>4. Owed(m, c, k, r) = Owed(l, c, k, r) + x /\ Owed(l, c, k, r) \in Int
  <2>1. CASE c.next <= Len(l)
    <3>. DEFINE e == Rest(l[c.next].rows, k.at, k.rest)
                tail == Total(After(l, c.next, r))
    <3>1. c.next \in 1 .. Len(l) /\ c.next \in 0 .. Len(l) /\ c.next <= Len(m)
      BY <1>1, <2>1
    <3>2. m[c.next] = l[c.next]
      BY <1>1, <3>1
    <3>3. Total(After(m, c.next, r)) = tail + x /\ tail \in Int
      BY <3>1, AfterGrows DEF x
    <3>4. Net(e, r) \in Int
      <4>1. l[c.next].rows \in Seq(Weighted(OutRows))
        BY <1>1, <3>1, <3>2
      <4>2. e \in Seq(Weighted(OutRows))
        BY <2>1, <4>1, RestFacts
      <4>. HIDE DEF e
      <4>. QED BY <4>2, NetInt
    <3>5. Owed(l, c, k, r) = Net(e, r) + tail
      BY <2>1 DEF Owed
    <3>6. Owed(m, c, k, r) = Net(e, r) + (tail + x)
      BY <3>1, <3>2, <3>3 DEF Owed
    <3>. HIDE DEF e, tail
    <3>. QED BY <1>1, <3>3, <3>4, <3>5, <3>6 DEF x
  <2>2. CASE ~(c.next <= Len(l))
    <3>1. c.next = Len(l) + 1 /\ k = S!NoContinuation /\ Len(l) \in 0 .. Len(m)
          /\ Len(l) \in 0 .. Len(l) /\ Len(l) + 1 = Len(m)
      BY <1>1, <2>2
    <3>2. Owed(m, c, k, r) = Total(After(m, Len(l), r))
      <4>1. NetsInt(m)
        BY DEF Grows
      <4>. QED BY <3>1, <4>1, OwedFresh
    <3>3. Total(After(m, Len(l), r)) = Total(After(l, Len(l), r)) + x
      BY <3>1, AfterGrows DEF x
    <3>4. Total(After(l, Len(l), r)) = 0
      <4>1. After(l, Len(l), r) \in Seq(Int) /\ Len(After(l, Len(l), r)) = 0
        BY <1>1, <3>1, NetsType DEF Grows
      <4>. QED BY <4>1, TotalEmpty
    <3>5. Owed(l, c, k, r) = 0
      BY <2>2 DEF Owed
    <3>. QED BY <1>1, <3>2, <3>3, <3>4, <3>5
  <2>. QED BY <2>1, <2>2
<1>. QED BY <1>1, <1>2, <1>3, <1>4
-----------------------------------------------------------------------------
\* SinkInv through the steps.

\* The output is such a log.
LEMMA OutNets == ASSUME NEW l, LogOK(l, OutputEffect) PROVE NetsInt(l)
BY OutFacts DEF NetsInt

\* SinkInv holds at the start.
LEMMA SinkInvInit == JoinInit /\ S!SinkInit => SinkInv
<1>. SUFFICES ASSUME JoinInit, S!SinkInit PROVE SinkInv
  OBVIOUS
<1>1. /\ out = <<>> /\ Len(out) = 0 /\ DOMAIN out = 1 .. 0
      /\ sinkCur = [next |-> 1, frontier |-> 0] /\ sinkCont = S!NoContinuation
      /\ result = [r \in Rows |-> 0]
  BY DEF JoinInit, S!SinkInit, S!NoRows
<1>2. SinkOK
  BY <1>1 DEF SinkOK, S!NoContinuation
<1>3. Passed(out, sinkCur)
  BY <1>1 DEF Passed
<1>4. ASSUME NEW r \in Rows PROVE result[r] + Owed(out, sinkCur, sinkCont, r) = Total(Nets(out, r))
  <2>1. Owed(out, sinkCur, sinkCont, r) = 0 /\ result[r] = 0
    BY <1>1 DEF Owed
  <2>2. NetsInt(out)
    BY <1>1 DEF NetsInt
  <2>3. 0 \in 0 .. Len(out)
    BY <1>1
  <2>4. Nets(out, r) \in Seq(Int) /\ Len(Nets(out, r)) = 0
    BY <1>1, <2>2, <2>3, NetsType
  <2>5. Total(Nets(out, r)) = 0
    BY <2>4, TotalEmpty
  <2>. QED BY <2>1, <2>5
<1>. QED BY <1>2, <1>3, <1>4 DEF SinkInv, Exact

\* A step of the Join or of its upstream stages leaves the Sink where it is and
\* the output as it was, or longer by one chunk.
LEMMA SinkInvGrows ==
    ASSUME SinkInv, LogOK(out, OutputEffect), LogOK(out', OutputEffect), UNCHANGED sinkVars,
           Len(out') = Len(out) + 1, \A i \in 1 .. Len(out) : out'[i] = out[i]
    PROVE  SinkInv'
<1>. DEFINE m == out'
<1>1. sinkCur' = sinkCur /\ sinkCont' = sinkCont /\ result' = result
  BY DEF sinkVars
<1>2. NetsInt(out) /\ NetsInt(m) /\ Len(out) \in Nat
      /\ \A i \in 1 .. Len(out) : Len(out[i].rows) \in Nat
  BY OutNets, OutFacts
<1>r. \A i \in 1 .. Len(m) : m[i].rows \in Seq(Weighted(OutRows))
  BY OutFacts
<1>3. SinkOK /\ Passed(out, sinkCur) /\ Exact(out, sinkCur, sinkCont, result)
  BY DEF SinkInv
<1>4. Grows(out, m)
  BY <1>2 DEF Grows
<1>5. sinkCur.next <= Len(out) => sinkCur.next \in 1 .. Len(out)
                                  /\ sinkCont.at \in 0 .. Len(out[sinkCur.next].rows)
  <2>1. SUFFICES ASSUME sinkCur.next <= Len(out)
                 PROVE  sinkCur.next \in 1 .. Len(out)
                        /\ sinkCont.at \in 0 .. Len(out[sinkCur.next].rows)
    OBVIOUS
  <2>2. sinkCur.next \in 1 .. Len(out)
    BY <1>2, <1>3, <2>1 DEF SinkOK
  <2>3. Len(out[sinkCur.next].rows) \in Nat
    BY <1>2, <2>2
  <2>4. sinkCont = S!NoContinuation \/ sinkCont.at < Len(out[sinkCur.next].rows)
    BY <1>3 DEF SinkOK
  <2>5. sinkCont.at \in Nat
    BY <1>3 DEF SinkOK
  <2>6. S!NoContinuation.at = 0
    BY DEF S!NoContinuation
  <2>. QED BY <2>2, <2>3, <2>4, <2>5, <2>6
<1>6. Exact(m, sinkCur, sinkCont, result)
  <2>1. /\ sinkCur.next \in 1 .. Len(out) + 1 /\ sinkCont.rest \in Int
        /\ sinkCont # S!NoContinuation => sinkCur.next <= Len(out)
        /\ \A r \in Rows : result[r] \in Int
    BY <1>3 DEF SinkOK
  <2>2. sinkCur.next <= Len(out) => sinkCont.at \in 0 .. Len(out[sinkCur.next].rows)
    BY <1>5
  <2>. HIDE DEF m
  <2>4. Exact(out, sinkCur, sinkCont, result)
    BY <1>3
  <2>. QED BY <1>4, <1>r, <2>1, <2>2, <2>4, ExactGrows, Zenon
<1>7. Passed(m, sinkCur)
  <2>. HIDE DEF m
  <2>. QED BY <1>2, <1>3, <1>4, PassedGrows DEF Grows
<1>8. SinkOK'
  <2>1. sinkCur.next \in 1 .. Len(out') + 1
    BY <1>2, <1>3 DEF SinkOK
  <2>2. sinkCont # S!NoContinuation =>
         /\ sinkCur.next <= Len(out')
         /\ out'[sinkCur.next].kind = "data" /\ sinkCont.at < Len(out'[sinkCur.next].rows)
    BY <1>2, <1>3, <1>5 DEF SinkOK
  <2>. QED BY <1>1, <1>3, <2>1, <2>2 DEF SinkOK, S!NoContinuation
<1>. QED BY <1>1, <1>6, <1>7, <1>8 DEF SinkInv, Passed, Exact, Owed

\* Nothing the Sink depends on changes.
LEMMA SinkInvStays ==
    ASSUME SinkInv, out' = out, UNCHANGED sinkVars
    PROVE  SinkInv'
<1>1. sinkCur' = sinkCur /\ sinkCont' = sinkCont /\ result' = result
  BY DEF sinkVars
<1>. QED BY <1>1 DEF SinkInv, SinkOK, Passed, Exact, Owed, S!NoContinuation

\* Before a step of the Sink: the chunk at the cursor.
Ready ==
    /\ sinkCur.next \in 1 .. Len(out) /\ Len(out) \in Nat
    /\ out[sinkCur.next].rows \in Seq(Weighted(OutRows)) /\ Len(out[sinkCur.next].rows) \in Nat
    /\ out[sinkCur.next].lsn \in Nat
    /\ sinkCont.at \in 0 .. Len(out[sinkCur.next].rows)
    /\ sinkCont.rest \in Int
    /\ sinkCont.rest # 0 => sinkCont.at < Len(out[sinkCur.next].rows)
    /\ sinkCont = [at |-> sinkCont.at, rest |-> sinkCont.rest]
    /\ sinkCur = [next |-> sinkCur.next, frontier |-> sinkCur.frontier]

\* A Sink that has a chunk pending is Ready.
LEMMA ReadyFacts ==
    ASSUME SinkInv, LogOK(out, OutputEffect), S!Pending
    PROVE  Ready
<1>1. sinkCur.next \in 1 .. Len(out) /\ Len(out) \in Nat
  BY OutFacts DEF SinkInv, SinkOK, S!Pending
<1>2. /\ out[sinkCur.next].rows \in Seq(Weighted(OutRows)) /\ out[sinkCur.next].lsn \in Nat
      /\ Len(out[sinkCur.next].rows) \in Nat
  BY <1>1, OutFacts
<1>3. sinkCont.at \in Nat /\ sinkCont.rest \in Int
      /\ sinkCont = [at |-> sinkCont.at, rest |-> sinkCont.rest]
      /\ sinkCur = [next |-> sinkCur.next, frontier |-> sinkCur.frontier]
  BY DEF SinkInv, SinkOK
<1>4. sinkCont = S!NoContinuation \/ sinkCont.at < Len(out[sinkCur.next].rows)
  BY DEF SinkInv, SinkOK
<1>5. S!NoContinuation.at = 0 /\ S!NoContinuation.rest = 0
  BY DEF S!NoContinuation
<1>. QED BY <1>1, <1>2, <1>3, <1>4, <1>5 DEF Ready

\* The cursor passes a frontier.
LEMMA ConsumeFrontierInv ==
    ASSUME SinkInv, LogOK(out, OutputEffect), S!ConsumeFrontier
    PROVE  SinkInv'
<1>. DEFINE n == sinkCur.next
<1>1. /\ S!Pending /\ out[n].kind = "frontier" /\ sinkCont = S!NoContinuation
      /\ sinkCur' = [next |-> n + 1, frontier |-> out[n].lsn]
      /\ out' = out /\ sinkCont' = sinkCont /\ result' = result
  BY DEF S!ConsumeFrontier, S!CursorChunk
<1>2. n \in 1 .. Len(out) /\ Len(out) \in Nat /\ out[n].lsn \in Nat
  BY <1>1, ReadyFacts DEF Ready
<1>3. n + 1 \in 1 .. Len(out) + 1 /\ n - 1 \in 0 .. Len(out) /\ n \in 0 .. Len(out)
      /\ (n - 1) + 1 = n /\ n \in Nat /\ n + 1 \in Nat
  BY <1>2
<1>4. sinkCur'.next = n + 1 /\ sinkCur'.frontier = out[n].lsn
      /\ sinkCur' \in [next : Nat, frontier : Nat]
  BY <1>1, <1>2, <1>3
<1>5. SinkOK'
  BY <1>1, <1>3, <1>4 DEF SinkInv, SinkOK, S!NoContinuation
<1>6. Passed(out, sinkCur')
  <2>1. n < n + 1
    BY <1>2
  <2>. QED BY <1>1, <1>2, <1>4, <2>1 DEF Passed
<1>7. NetsInt(out) /\ \A i \in 1 .. Len(out) : out[i].rows \in Seq(Weighted(OutRows))
  BY OutNets, OutFacts
<1>8. ASSUME NEW r \in Rows
      PROVE  Owed(out, sinkCur', sinkCont, r) = Owed(out, sinkCur, sinkCont, r)
  <2>1. Owed(out, sinkCur, sinkCont, r) = Total(After(out, n - 1, r))
    <3>1. sinkCur.next = (n - 1) + 1
      BY <1>3
    <3>. HIDE DEF n
    <3>. QED BY <1>1, <1>3, <1>7, <3>1, OwedFresh
  <2>2. Owed(out, sinkCur', sinkCont, r) = Total(After(out, n, r))
    <3>. DEFINE c == sinkCur'
    <3>1. c.next = n + 1
      BY <1>4
    <3>. HIDE DEF n, c
    <3>2. Owed(out, c, sinkCont, r) = Total(After(out, n, r))
      BY <1>1, <1>3, <1>7, <3>1, OwedFresh
    <3>. QED BY <3>2 DEF c
  <2>3. Total(After(out, n - 1, r)) = Net(out[n].rows, r) + Total(After(out, n, r))
    <3>1. n - 1 < Len(out)
      BY <1>2
    <3>. HIDE DEF n
    <3>2. Total(After(out, n - 1, r)) = Net(out[(n - 1) + 1].rows, r) + Total(After(out, (n - 1) + 1, r))
      BY <1>3, <1>7, <3>1, AfterStep
    <3>. QED BY <1>3, <3>2
  <2>4. Net(out[n].rows, r) = 0
    <3>1. Len(out[n].rows) = 0 /\ out[n].rows \in Seq(Weighted(OutRows))
      BY <1>1, <1>2, OutFacts
    <3>. QED BY <3>1, NetEmpty
  <2>5. Total(After(out, n, r)) \in Int
    <3>1. After(out, n, r) \in Seq(Int)
      BY <1>3, <1>7, NetsType
    <3>. QED BY <3>1, TotalInt
  <2>. QED BY <2>1, <2>2, <2>3, <2>4, <2>5
<1>9. Exact(out, sinkCur', sinkCont, result)
  BY <1>8 DEF SinkInv, Exact
<1>. QED BY <1>1, <1>5, <1>6, <1>9 DEF SinkInv, Passed, Exact, Owed

\* One page.
LEMMA ConsumePage ==
    ASSUME SinkInv, LogOK(out, OutputEffect), S!ConsumeData
    PROVE  \E p : /\ IsPageOf(OutRows, out[sinkCur.next].rows, sinkCont.at, sinkCont.rest, p)
                  /\ PageApplies(result, p.actions)
                  /\ result' = mutate_result_page(result, p.actions)
                  /\ sinkCur' = IF p.at = Len(out[sinkCur.next].rows)
                                THEN [next |-> sinkCur.next + 1, frontier |-> sinkCur.frontier]
                                ELSE sinkCur
                  /\ sinkCont' = IF p.at = Len(out[sinkCur.next].rows) THEN S!NoContinuation
                                 ELSE [at |-> p.at, rest |-> p.rest]
<1>. DEFINE e == out[sinkCur.next].rows
            p == Page(Heads(e, sinkCont.at, sinkCont.rest),
                      Whole(Heads(e, sinkCont.at, sinkCont.rest)), sinkCont.at)
<1>1. Ready
  BY ReadyFacts DEF S!ConsumeData
<1>2. IsPageOf(OutRows, e, sinkCont.at, sinkCont.rest, p)
  <2>1. /\ e \in Seq(Weighted(OutRows)) /\ sinkCont.at \in 0 .. Len(e) /\ sinkCont.rest \in Int
        /\ sinkCont.rest # 0 => sinkCont.at < Len(e)
    BY <1>1 DEF Ready
  <2>. HIDE DEF e
  <2>. QED BY <2>1, PageFacts
<1>3. S!NextPage = p
  BY SamePages, Zenon DEF S!NextPage, S!ContinuedHeads, S!CursorChunk
<1>4. /\ PageApplies(result, p.actions)
      /\ result' = mutate_result_page(result, p.actions)
      /\ sinkCur' = S!NextCursor(p) /\ sinkCont' = S!NextContinuation(p)
  <2>. HIDE DEF p
  <2>. QED BY <1>3, SamePages DEF S!ConsumeData
<1>. HIDE DEF p
<1>. QED BY <1>2, <1>4 DEF S!NextCursor, S!NextContinuation, S!CursorChunk

\* What a page takes from the result and from the chunk is the same.
LEMMA ConsumeDataInv ==
    ASSUME SinkInv, LogOK(out, OutputEffect), S!ConsumeData
    PROVE  SinkInv'
<1>. DEFINE n == sinkCur.next
            e == out[n].rows
<1>1. PICK p : /\ IsPageOf(OutRows, e, sinkCont.at, sinkCont.rest, p)
               /\ PageApplies(result, p.actions)
               /\ result' = mutate_result_page(result, p.actions)
               /\ sinkCur' = IF p.at = Len(e) THEN [next |-> n + 1, frontier |-> sinkCur.frontier]
                             ELSE sinkCur
               /\ sinkCont' = IF p.at = Len(e) THEN S!NoContinuation
                              ELSE [at |-> p.at, rest |-> p.rest]
  BY ConsumePage
<1>2. out' = out /\ out[n].kind = "data" /\ Ready
  BY ReadyFacts DEF S!ConsumeData, S!CursorChunk
<1>3. /\ n \in 1 .. Len(out) /\ Len(out) \in Nat /\ n \in 0 .. Len(out) /\ n \in Nat /\ n + 1 \in Nat
      /\ n + 1 \in 1 .. Len(out) + 1 /\ e \in Seq(Weighted(OutRows)) /\ Len(e) \in Nat
      /\ sinkCont.at \in 0 .. Len(e) /\ sinkCont.rest \in Int
  BY <1>2 DEF Ready
<1>4. /\ p.actions \in Seq(Weighted(OutRows)) /\ p.at \in sinkCont.at .. Len(e) /\ p.rest \in Int
      /\ p.at \in 0 .. Len(e) /\ p.at \in Nat
      /\ p.rest # 0 => p.at < Len(e)
  <2>1. /\ p.actions \in Seq(Weighted(OutRows)) /\ p.at \in sinkCont.at .. Len(e) /\ p.rest \in Int
        /\ p.rest # 0 => p.at < Len(e)
    BY <1>1 DEF IsPageOf
  <2>. HIDE DEF e
  <2>. QED BY <2>1, <1>3
<1>5. /\ SinkOK /\ Passed(out, sinkCur) /\ Exact(out, sinkCur, sinkCont, result)
      /\ NetsInt(out) /\ \A i \in 1 .. Len(out) : out[i].rows \in Seq(Weighted(OutRows))
      /\ sinkCur \in [next : Nat, frontier : Nat]
      /\ \A r \in Rows : result[r] \in Int
  BY OutNets, OutFacts DEF SinkInv, SinkOK
<1>6. ASSUME NEW r \in Rows
      PROVE  result'[r] \in Int /\ result'[r] = result[r] + Net(p.actions, r)
  <2>1. result[r] \in Int
    BY <1>5
  <2>. QED BY <1>1, <1>4, <2>1, ApplyFacts
<1>7. CASE p.at = Len(e)
  <2>1. sinkCur' = [next |-> n + 1, frontier |-> sinkCur.frontier] /\ sinkCont' = S!NoContinuation
    BY <1>1, <1>7
  <2>2. SinkOK'
    <3>1. sinkCur' \in [next : Nat, frontier : Nat] /\ sinkCur'.next \in 1 .. Len(out') + 1
      BY <1>2, <1>3, <1>5, <2>1
    <3>2. S!NoContinuation \in [at : Nat, rest : Int] /\ S!NoContinuation' = S!NoContinuation
      BY DEF S!NoContinuation
    <3>. QED BY <1>6, <2>1, <3>1, <3>2 DEF SinkOK
  <2>3. Passed(out, sinkCur')
    <3>. DEFINE c == sinkCur'
    <3>1. c.next = n + 1 /\ c.frontier = sinkCur.frontier
      BY <2>1
    <3>2. \A i : i < n /\ i \in 1 .. Len(out) => i < n + 1
      BY <1>3
    <3>. HIDE DEF c
    <3>3. Passed(out, c)
      BY <1>5, <3>1, <3>2 DEF Passed
    <3>. QED BY <3>3 DEF c
  <2>4. ASSUME NEW r \in Rows
        PROVE  result'[r] + Owed(out, sinkCur', sinkCont', r) = Total(Nets(out, r))
    <3>1. Owed(out, sinkCur', sinkCont', r) = Total(After(out, n, r))
      <4>. DEFINE c == sinkCur'
                  k == sinkCont'
      <4>1. c.next = n + 1 /\ k = S!NoContinuation
        BY <2>1
      <4>. HIDE DEF n, c, k
      <4>2. Owed(out, c, k, r) = Total(After(out, n, r))
        BY <1>3, <1>5, <4>1, OwedFresh
      <4>. QED BY <4>2 DEF c, k
    <3>2. Owed(out, sinkCur, sinkCont, r) =
            Net(Rest(e, sinkCont.at, sinkCont.rest), r) + Total(After(out, n, r))
      BY <1>3 DEF Owed
    <3>3. Net(Rest(e, sinkCont.at, sinkCont.rest), r) =
            Net(p.actions, r) + Net(Rest(e, p.at, p.rest), r)
      BY <1>1 DEF IsPageOf
    <3>4. Net(Rest(e, p.at, p.rest), r) = 0
      <4>. DEFINE q == Rest(e, p.at, p.rest)
      <4>1. q \in Seq(Weighted(OutRows)) /\ IsRest(e, p.at, p.rest, q)
        <5>. HIDE DEF e
        <5>. QED BY <1>3, <1>4, RestFacts
      <4>. HIDE DEF q
      <4>2. Len(q) = 0
        BY <1>3, <1>7, <4>1 DEF IsRest
      <4>3. Net(q, r) = 0
        BY <4>1, <4>2, NetEmpty
      <4>. QED BY <4>3 DEF q
    <3>5. Total(After(out, n, r)) \in Int
      <4>1. After(out, n, r) \in Seq(Int)
        BY <1>3, <1>5, NetsType
      <4>. QED BY <4>1, TotalInt
    <3>6. Net(p.actions, r) \in Int
      BY <1>4, NetInt
    <3>7. result[r] + Owed(out, sinkCur, sinkCont, r) = Total(Nets(out, r))
      BY <1>5 DEF Exact
    <3>8. result[r] \in Int
      BY <1>5
    <3>. QED BY <1>6, <3>1, <3>2, <3>3, <3>4, <3>5, <3>6, <3>7, <3>8
  <2>5. Exact(out, sinkCur', sinkCont', result')
    BY <2>4 DEF Exact
  <2>. QED BY <1>2, <2>2, <2>3, <2>5 DEF SinkInv, Passed, Exact, Owed
<1>8. CASE p.at # Len(e)
  <2>1. sinkCur' = sinkCur /\ sinkCont' = [at |-> p.at, rest |-> p.rest]
    BY <1>1, <1>8
  <2>2. SinkOK'
    <3>1. sinkCont' \in [at : Nat, rest : Int] /\ sinkCont'.at < Len(e)
      <4>. HIDE DEF e
      <4>. QED BY <1>3, <1>4, <1>8, <2>1
    <3>. QED BY <1>2, <1>3, <1>5, <1>6, <2>1, <3>1 DEF SinkOK
  <2>4. ASSUME NEW r \in Rows
        PROVE  result'[r] + Owed(out, sinkCur', sinkCont', r) = Total(Nets(out, r))
    <3>1. Owed(out, sinkCur', sinkCont', r) =
            Net(Rest(e, p.at, p.rest), r) + Total(After(out, n, r))
      BY <1>3, <2>1 DEF Owed
    <3>2. Owed(out, sinkCur, sinkCont, r) =
            Net(Rest(e, sinkCont.at, sinkCont.rest), r) + Total(After(out, n, r))
      BY <1>3 DEF Owed
    <3>3. Net(Rest(e, sinkCont.at, sinkCont.rest), r) =
            Net(p.actions, r) + Net(Rest(e, p.at, p.rest), r)
      BY <1>1 DEF IsPageOf
    <3>4. Net(Rest(e, p.at, p.rest), r) \in Int
      <4>. DEFINE q == Rest(e, p.at, p.rest)
      <4>1. q \in Seq(Weighted(OutRows))
        <5>. HIDE DEF e
        <5>. QED BY <1>3, <1>4, RestFacts
      <4>. HIDE DEF q
      <4>2. Net(q, r) \in Int
        BY <4>1, NetInt
      <4>. QED BY <4>2 DEF q
    <3>5. Total(After(out, n, r)) \in Int
      <4>1. After(out, n, r) \in Seq(Int)
        BY <1>3, <1>5, NetsType
      <4>. QED BY <4>1, TotalInt
    <3>6. Net(p.actions, r) \in Int
      BY <1>4, NetInt
    <3>7. result[r] + Owed(out, sinkCur, sinkCont, r) = Total(Nets(out, r))
      BY <1>5 DEF Exact
    <3>8. result[r] \in Int
      BY <1>5
    <3>. QED BY <1>6, <3>1, <3>2, <3>3, <3>4, <3>5, <3>6, <3>7, <3>8
  <2>5. Exact(out, sinkCur', sinkCont', result')
    BY <2>4 DEF Exact
  <2>. QED BY <1>2, <1>5, <2>1, <2>2, <2>5 DEF SinkInv, Passed, Exact, Owed
<1>. QED BY <1>7, <1>8
-----------------------------------------------------------------------------
\* The theorems.

\* One step publishes at most one chunk.
LEMMA OutputGrows ==
    ASSUME JoinInv, JoinStep
    PROVE  \/ out' = out
           \/ Len(out') = Len(out) + 1 /\ \A i \in 1 .. Len(out) : out'[i] = out[i]
<1>. DEFINE t == Transaction
<1>1. out' = out \o Output(t)
  BY DEF JoinStep
<1>2. out \in Seq(ChunkOf(OutputEffect)) /\ Len(out) \in Nat
  BY OutFacts DEF JoinInv
<1>. HIDE DEF t
<1>3. CASE Output(t) = <<>>
  BY <1>1, <1>2, <1>3, ConcatEmptySeq
<1>4. CASE Output(t) # <<>>
  <2>1. PICK chunk : Output(t) = <<chunk>>
    BY <1>4 DEF Output
  <2>2. out \in Seq({out[i] : i \in 1 .. Len(out)} \cup {chunk})
    BY <1>2, LenProperties, SeqDef
  <2>3. out' = Append(out, chunk)
    BY <1>1, <2>1, <2>2, AppendIsConcat
  <2>. QED BY <2>2, <2>3, AppendProperties
<1>. QED BY <1>3, <1>4

\* The inductive invariant of the pair: it holds at the start,
LEMMA InvInit == Init => JoinInv /\ SinkInv
BY JoinInvInit, SinkInvInit DEF Init

\* every step keeps it,
LEMMA InvNext == JoinInv /\ SinkInv /\ [Next]_vars => (JoinInv /\ SinkInv)'
<1>. SUFFICES ASSUME JoinInv, SinkInv, [Next]_vars PROVE JoinInv' /\ SinkInv'
  OBVIOUS
<1>1. LogOK(out, OutputEffect)
  BY DEF JoinInv
<1>2. CASE Upstream /\ UNCHANGED sinkVars
  <2>1. JoinInv' /\ out' = out
    BY <1>2, UpstreamInv DEF Upstream
  <2>. QED BY <1>2, <2>1, SinkInvStays
<1>3. CASE JoinStep /\ UNCHANGED sinkVars
  <2>1. JoinInv'
    BY <1>3, JoinStepInv
  <2>2. LogOK(out', OutputEffect)
    BY <2>1 DEF JoinInv, LogOK
  <2>3. SinkInv'
    BY <1>1, <1>3, <2>2, OutputGrows, SinkInvGrows, SinkInvStays
  <2>. QED BY <2>1, <2>3
<1>4. CASE S!ConsumeFrontier /\ UNCHANGED <<kind, in, cur, arr, cont>>
  <2>1. UNCHANGED joinVars
    BY <1>4 DEF S!ConsumeFrontier, joinVars
  <2>. QED BY <1>1, <1>4, <2>1, JoinInvStays, ConsumeFrontierInv
<1>5. CASE S!ConsumeData /\ UNCHANGED <<kind, in, cur, arr, cont>>
  <2>1. UNCHANGED joinVars
    BY <1>5 DEF S!ConsumeData, joinVars
  <2>. QED BY <1>1, <1>5, <2>1, JoinInvStays, ConsumeDataInv
<1>6. CASE UNCHANGED vars
  <2>1. UNCHANGED joinVars /\ UNCHANGED sinkVars /\ out' = out
    BY <1>6 DEF vars, joinVars, sinkVars
  <2>. QED BY <2>1, JoinInvStays, SinkInvStays
<1>. QED BY <1>2, <1>3, <1>4, <1>5, <1>6 DEF Next, S!SinkStep

\* and so it always holds.
LEMMA InvHolds == Spec => [](JoinInv /\ SinkInv)
BY InvInit, InvNext, PTL DEF Spec

\* However the pages of consume_data split chunks and weights, the result
\* relation and what cursor and continuation leave are all that was emitted.
THEOREM ResultIsExact == Spec => []ResultExact
<1>1. JoinInv /\ SinkInv => ResultExact
  BY ExactIs DEF SinkInv, ResultExact
<1>. QED BY <1>1, InvHolds, PTL

\* The frontier the Sink has consumed is one that both inputs of the Join have
\* completed, and every effect at or below it is in the result.
THEOREM FrontierIsCovered == Spec => []FrontierCovers
<1>1. JoinInv /\ SinkInv => FrontierCovers
  <2>. SUFFICES ASSUME JoinInv, SinkInv PROVE FrontierCovers
    OBVIOUS
  <2>1. /\ LogOK(out, OutputEffect) /\ Ordered(out) /\ Passed(out, sinkCur)
        /\ sinkCur.next \in Nat /\ sinkCur.frontier \in Nat
    BY DEF JoinInv, SinkInv, SinkOK, FrontierLaw
  <2>2. Len(out) \in Nat /\ DOMAIN out = 1 .. Len(out) /\ \A i \in 1 .. Len(out) : out[i].lsn \in Nat
    BY <2>1, OutFacts
  <2>3. ASSUME NEW i \in Of(out, "data"), out[i].lsn <= sinkCur.frontier
        PROVE  i < sinkCur.next
    <3>1. i \in 1 .. Len(out)
      BY <2>2 DEF Of
    <3>. QED BY <2>1, <2>2, <2>3, <3>1, PassedCovers
  <2>4. ASSUME NEW side \in Side, NEW i \in Of(in[side], "data"), in[side][i].lsn <= sinkCur.frontier
        PROVE  i < cur[side].next
    <3>1. /\ in[side] \in Seq(ChunkOf(InputEffect(side))) /\ Ordered(in[side])
          /\ Passed(in[side], cur[side]) /\ cur[side].next \in Nat /\ cur[side].frontier \in Nat
      BY DEF JoinInv, JoinOK, FrontierLaw, LogOK, Cursors
    <3>2. Len(in[side]) \in Nat /\ i \in 1 .. Len(in[side])
      BY <3>1, LenProperties DEF Of
    <3>3. in[side][i].lsn \in Nat /\ in[side][i].lsn > 0
      <4>1. in[side][i] \in ChunkOf(InputEffect(side))
        BY <3>1, <3>2, ElementOfSeq
      <4>2. in[side][i].lsn \in Nat
        BY <4>1 DEF ChunkOf
      <4>. QED BY <3>1, <3>2, <4>2 DEF Ordered
    <3>4. PICK k \in 1 .. Len(out) : out[k].kind = "frontier" /\ out[k].lsn = sinkCur.frontier
      BY <2>1, <2>4, <3>3 DEF Passed
    <3>5. sinkCur.frontier <= cur[side].frontier
      BY <3>4 DEF JoinInv, FrontierLaw
    <3>. QED BY <2>1, <2>4, <3>1, <3>2, <3>3, <3>5, PassedCovers
  <2>. QED BY <2>3, <2>4 DEF FrontierCovers
<1>. QED BY <1>1, InvHolds, PTL

\* How far a step moves each row of the result.
Moved == [r \in Rows |-> Abs(result'[r] - result[r])]

\* The sum as StepBounded writes it.
LEMMA MovedSum ==
    ASSUME IsFiniteSet(Rows), NEW h, h = Moved, \A r \in Rows : h[r] \in Int
    PROVE  S!MapThenSumSet(LAMBDA r : S!Abs(result'[r] - result[r]), Rows) = SetSum(h, Rows)
<1>. DEFINE Sums(f) == f = [s \in SUBSET Rows |->
               IF s = {} THEN 0
               ELSE S!Abs(result'[Chosen(s)] - result[Chosen(s)]) + f[s \ {Chosen(s)}]]
            sums == CHOOSE f : Sums(f)
<1>1. \A s \in SUBSET Rows : s # {} =>
        h[Chosen(s)] = S!Abs(result'[Chosen(s)] - result[Chosen(s)])
  BY ChosenIn, SameOperators DEF Moved
<1>2. ASSUME NEW f PROVE Sums(f) <=> IsSummation(f, h, Rows)
  BY <1>1 DEF IsSummation
<1>3. PICK f \in [SUBSET Rows -> Int] : IsSummation(f, h, Rows) /\ SetSum(h, Rows) = f[Rows]
  BY SetSumDef
<1>4. Sums(sums)
  <2>1. Sums(f)
    BY <1>2, <1>3, Zenon
  <2>. QED BY <2>1, Zenon
<1>5. S!MapThenSumSet(LAMBDA r : S!Abs(result'[r] - result[r]), Rows) = sums[Rows]
  BY Zenon DEF S!MapThenSumSet, S!MapThenFoldSet, Chosen
<1>. HIDE DEF sums, Sums
<1>6. IsSummation(sums, h, Rows) /\ Rows \in SUBSET (Rows \cap Rows)
  BY <1>2, <1>4
<1>7. sums[Rows] = SetSum(h, Rows)
  BY <1>3, <1>6, SummationUnique
<1>. QED BY <1>5, <1>7

\* A step that applies the effects of a page moves the result by no more than
\* the copies the page asks for.
LEMMA MovedBound ==
    ASSUME IsFiniteSet(Rows), NEW R, NEW e \in Seq(Weighted(R)), Mutations(e) <= BatchRows,
           \A r \in Rows : result[r] \in Int /\ result'[r] = result[r] + Net(e, r)
    PROVE  S!MapThenSumSet(LAMBDA r : S!Abs(result'[r] - result[r]), Rows) <= BatchRows
<1>. DEFINE h == Changed(e)
<1>1. \A r \in Rows : Net(e, r) \in Int
  BY NetInt
<1>2. \A r \in Rows : result'[r] - result[r] = Net(e, r)
  BY <1>1
<1>3. h = Moved
  BY <1>2 DEF Changed, Moved
<1>4. \A r \in Rows : h[r] \in Int
  BY <1>1, AbsFacts DEF Changed
<1>5. SetSum(h, Rows) <= Mutations(e)
  BY ChangeBound
<1>6. SetSum(h, Rows) \in Int
  <2>. HIDE DEF h
  <2>. QED BY <1>4, SetSumInt
<1>7. Mutations(e) \in Int /\ BatchRows \in Int
  BY NetInt, BatchAssumption
<1>8. S!MapThenSumSet(LAMBDA r : S!Abs(result'[r] - result[r]), Rows) = SetSum(h, Rows)
  <2>. HIDE DEF h
  <2>. QED BY <1>3, <1>4, MovedSum
<1>. HIDE DEF h
<1>9. SetSum(h, Rows) <= BatchRows
  BY <1>5, <1>6, <1>7 DEF h
<1>. QED BY <1>8, <1>9

\* One transaction of the Sink moves at most batch_rows copies, and never
\* leaves cursor and continuation where they were.
THEOREM StepIsBounded == ASSUME IsFiniteSet(Rows) PROVE Spec => StepBounded
<1>1. ASSUME JoinInv, SinkInv, S!SinkStep
      PROVE  /\ S!MapThenSumSet(LAMBDA r : S!Abs(result'[r] - result[r]), Rows) <= BatchRows
             /\ <<sinkCur, sinkCont>>' # <<sinkCur, sinkCont>>
  <2>1. CASE S!ConsumeFrontier
    <3>1. S!Pending /\ result' = result /\ sinkCur' = [next |-> sinkCur.next + 1, frontier |-> S!CursorChunk.lsn]
      BY <2>1 DEF S!ConsumeFrontier
    <3>2. sinkCur.next \in Nat /\ \A r \in Rows : result[r] \in Int
      BY <1>1 DEF SinkInv, SinkOK
    <3>3. sinkCur'.next # sinkCur.next
      BY <3>1, <3>2
    <3>. DEFINE e == <<>>
    <3>4. e \in Seq(Weighted({})) /\ Len(e) = 0
      BY EmptySeq
    <3>. HIDE DEF e
    <3>5. Mutations(e) = 0 /\ \A r : Net(e, r) = 0
      BY <3>4, NetEmpty
    <3>6. Mutations(e) <= BatchRows
      BY <3>5, BatchAssumption
    <3>7. \A r \in Rows : result[r] \in Int /\ result'[r] = result[r] + Net(e, r)
      BY <3>1, <3>2, <3>5
    <3>8. S!MapThenSumSet(LAMBDA r : S!Abs(result'[r] - result[r]), Rows) <= BatchRows
      BY <3>4, <3>6, <3>7, MovedBound
    <3>. QED BY <3>3, <3>8
  <2>2. CASE S!ConsumeData
    <3>. DEFINE n == sinkCur.next
                len == Len(out[n].rows)
    <3>1. PICK p : /\ IsPageOf(OutRows, out[n].rows, sinkCont.at, sinkCont.rest, p)
                   /\ PageApplies(result, p.actions)
                   /\ result' = mutate_result_page(result, p.actions)
                   /\ sinkCur' = IF p.at = len THEN [next |-> n + 1, frontier |-> sinkCur.frontier]
                                 ELSE sinkCur
                   /\ sinkCont' = IF p.at = len THEN S!NoContinuation ELSE [at |-> p.at, rest |-> p.rest]
      BY <1>1, <2>2, ConsumePage DEF JoinInv
    <3>2. /\ p.actions \in Seq(Weighted(OutRows)) /\ Mutations(p.actions) <= BatchRows
          /\ p.at # len => p.at # sinkCont.at \/ p.rest # sinkCont.rest
      BY <3>1 DEF IsPageOf
    <3>3. n \in Nat /\ \A r \in Rows : result[r] \in Int
      BY <1>1 DEF SinkInv, SinkOK
    <3>4. ASSUME NEW r \in Rows PROVE result[r] \in Int /\ result'[r] = result[r] + Net(p.actions, r)
      BY <3>1, <3>2, <3>3, ApplyFacts
    <3>5. S!MapThenSumSet(LAMBDA r : S!Abs(result'[r] - result[r]), Rows) <= BatchRows
      BY <3>2, <3>4, MovedBound
    <3>6. CASE p.at = len
      <4>1. sinkCur'.next # sinkCur.next
        BY <3>1, <3>3, <3>6
      <4>. QED BY <3>5, <4>1
    <3>7. CASE p.at # len
      <4>1. sinkCont'.at # sinkCont.at \/ sinkCont'.rest # sinkCont.rest
        BY <3>1, <3>2, <3>7
      <4>. QED BY <3>5, <4>1
    <3>. QED BY <3>6, <3>7
  <2>. QED BY <1>1, <2>1, <2>2 DEF S!SinkStep
<1>2. JoinInv /\ SinkInv /\ [Next]_vars =>
        [S!SinkStep => /\ S!MapThenSumSet(LAMBDA r : S!Abs(result'[r] - result[r]), Rows) <= BatchRows
                       /\ <<sinkCur, sinkCont>>' # <<sinkCur, sinkCont>>]_<<out, sinkCur, sinkCont, result>>
  BY <1>1
<1>. QED BY <1>2, InvHolds, PTL DEF Spec, StepBounded, S!StepBounded, S!vars
=============================================================================
