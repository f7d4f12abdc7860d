------------------------- MODULE EffectStreamProofs -------------------------
(***************************************************************************)
(* Theorems about EffectStream for every number of consumers, chunk,       *)
(* watermark and limit.                                                    *)
(***************************************************************************)
EXTENDS EffectStream, Induction, SequenceTheorems

-----------------------------------------------------------------------------
(* Maximum *)

\* A non-empty set bounded by n has the maximum Max denotes.
LEMMA BoundedMax ==
    ASSUME NEW n \in Nat, NEW S \in SUBSET (0 .. n), S # {}
    PROVE  Max(S) \in S /\ \A y \in S : Max(S) >= y
<1> DEFINE T == {n - x : x \in S}
<1>0. \A x \in S : n - x \in Nat
  OBVIOUS
<1>1. T \in SUBSET Nat /\ T # {}
  BY <1>0, Zenon
<1>2. Min(T) \in T /\ \A t \in T : Min(T) <= t
  BY <1>1, MinOfNats
<1>3. PICK x \in S : Min(T) = n - x
  BY <1>2
<1>4. \A y \in S : n - y \in T
  OBVIOUS
<1>5. \A y \in S : x >= y
  BY <1>2, <1>3, <1>4
<1> QED  BY <1>3, <1>5 DEF Max
-----------------------------------------------------------------------------
(* Chunks *)

\* Every chunk has natural sizes and an LSN; what an append builds is a chunk.
LEMMA ChunkFields ==
    /\ \A c \in Chunk : /\ c.size.rows \in Nat /\ c.size.bytes \in Nat /\ c.lsn \in Lsn
                        /\ c.kind \in {"data", "frontier"}
    /\ \A p \in Payloads, l \in Lsn : [kind |-> "data", size |-> p, lsn |-> l] \in Chunk
    /\ \A l \in Lsn : [kind |-> "frontier", size |-> NoPayload, lsn |-> l] \in Chunk
BY StreamAssumption DEF Chunk, NoPayload

\* The chunk an append inserts, whichever kind it is.
Appended(c) ==
    /\ c \in Chunk /\ c.size.rows <= TargetRows /\ c.lsn \in 1 .. wal
    /\ \/ c.kind = "data" /\ DataLsnAccepted(c.lsn)
       \/ c.kind = "frontier" /\ Kind = "operator" /\ FrontierLsnAccepted(c.lsn)
    /\ InsertChunk(c)

\* Both append actions insert one acceptable chunk.
LEMMA AppendsInsert ==
    ASSUME TypeOK, AppendData \/ AppendFrontier
    PROVE  \E c : Appended(c)
<1>1. wal \in Nat /\ 1 .. wal \subseteq Lsn
  BY StreamAssumption DEF TypeOK, Lsn
<1>2. CASE AppendData
  <2>1. PICK p \in Payloads, l \in 1 .. wal :
            /\ WithinTarget(p) /\ DataLsnAccepted(l)
            /\ InsertChunk([kind |-> "data", size |-> p, lsn |-> l])
    BY <1>2 DEF AppendData
  <2> DEFINE c == [kind |-> "data", size |-> p, lsn |-> l]
  <2>2. c \in Chunk
    BY <1>1, ChunkFields
  <2>3. c.size.rows <= TargetRows
    BY <2>1 DEF WithinTarget
  <2>4. Appended(c)
    BY <2>1, <2>2, <2>3 DEF Appended
  <2> QED  BY <2>4
<1>3. CASE AppendFrontier
  <2>1. PICK l \in 1 .. wal :
            /\ Kind = "operator" /\ FrontierLsnAccepted(l)
            /\ InsertChunk([kind |-> "frontier", size |-> NoPayload, lsn |-> l])
    BY <1>3 DEF AppendFrontier
  <2> DEFINE c == [kind |-> "frontier", size |-> NoPayload, lsn |-> l]
  <2>2. c \in Chunk
    BY <1>1, ChunkFields
  <2>3. c.size.rows <= TargetRows
    BY StreamAssumption DEF NoPayload
  <2>4. Appended(c)
    BY <2>1, <2>2, <2>3 DEF Appended
  <2> QED  BY <2>4
<1> QED  BY <1>2, <1>3
-----------------------------------------------------------------------------
(* Retention and accounting *)

\* The inductive invariant for retention: the collector deletes a prefix only
\* because running sums grow, and the counters stay natural only because they
\* are differences of those sums.
StorageInv == TypeOK /\ UnreadRetained /\ SumsSound /\ BufferBounded

\* gc_effect_stream deletes the retained chunks below RetainedFrom, and no
\* cursor is below it.
LEMMA GarbagePrefix ==
    ASSUME StorageInv
    PROVE  /\ RetainedFrom \in first .. next
           /\ Garbage = first .. (RetainedFrom - 1)
           /\ Cardinality(Garbage) = RetainedFrom - first
           /\ \A c \in Attached : RetainedFrom <= consumers[c].next
<1>1. /\ next \in Nat \ {0} /\ first \in 1 .. next /\ Retained = first .. (next - 1)
      /\ \A c \in Attached : consumers[c].next \in first .. next
  BY DEF StorageInv, TypeOK, UnreadRetained
<1>2. Garbage \in SUBSET (0 .. next) /\ Garbage \subseteq first .. (next - 1)
  BY <1>1 DEF Garbage
<1>3. \A i \in Garbage : i < SlowestNext
  BY DEF Garbage
<1>4. \A c \in Attached : SlowestNext <= consumers[c].next
  <2> DEFINE S == {consumers[d].next : d \in Attached}
  <2>1. S \in SUBSET Nat
    BY <1>1
  <2> SUFFICES ASSUME NEW c \in Attached PROVE SlowestNext <= consumers[c].next
    OBVIOUS
  <2>2. consumers[c].next \in S /\ Attached # {}
    OBVIOUS
  <2>3. Min(S) <= consumers[c].next
    BY <2>1, <2>2, MinOfNats
  <2> QED  BY <2>2, <2>3 DEF SlowestNext
<1>5. SlowestNext \in Nat
  <2>1. CASE Attached = {}
    BY <1>1, <2>1 DEF SlowestNext
  <2>2. CASE Attached # {}
    <3> DEFINE S == {consumers[d].next : d \in Attached}
    <3>1. S \in SUBSET Nat /\ S # {}
      BY <1>1, <2>2
    <3> QED  BY <2>2, <3>1, MinOfNats DEF SlowestNext
  <2> QED  BY <2>1, <2>2
<1>6. CASE Garbage = {}
  BY <1>1, <1>6, FS_EmptySet DEF RetainedFrom
<1>7. CASE Garbage # {}
  <2> DEFINE last == Max(Garbage)
  <2>1. last \in Garbage /\ \A i \in Garbage : last >= i
    BY <1>1, <1>2, <1>7, BoundedMax
  <2>2. RetainedFrom = last + 1 /\ last \in first .. (next - 1)
    BY <1>2, <1>7, <2>1 DEF RetainedFrom
  <2>3. \A i \in first .. last : i \in Garbage
    <3> SUFFICES ASSUME NEW i \in first .. last, i # first PROVE i \in Garbage
      <4>1. first \in Retained /\ first < SlowestNext /\ first < first + GcChunks
        BY <1>1, <1>3, <1>5, <2>1, <2>2, StreamAssumption
      <4>2. first \in Garbage
        BY <4>1 DEF Garbage
      <4> QED  BY <4>2
    <3>1. last # first /\ i \in Retained /\ i < first + GcChunks
      BY <1>1, <1>2, <2>1, <2>2, StreamAssumption DEF Garbage
    <3>2. Rows(first, last) <= GcRows /\ Bytes(first, last) <= GcBytes
      BY <2>1, <3>1 DEF Garbage
    <3>3. total[i].rows <= total[last].rows /\ total[i].bytes <= total[last].bytes
      BY <1>1, <2>2 DEF StorageInv, SumsSound
    <3>4. /\ total[i].rows \in Nat /\ total[last].rows \in Nat /\ total[first - 1].rows \in Nat
          /\ total[i].bytes \in Nat /\ total[last].bytes \in Nat /\ total[first - 1].bytes \in Nat
      <4>1. total \in [0 .. (next - 1) -> [rows : Nat, bytes : Nat]]
        BY DEF StorageInv, TypeOK
      <4>2. i \in 0 .. (next - 1) /\ last \in 0 .. (next - 1) /\ first - 1 \in 0 .. (next - 1)
        BY <1>1, <2>2
      <4> HIDE DEF last
      <4> QED  BY <4>1, <4>2
    <3>5. Rows(first, i) <= GcRows /\ Bytes(first, i) <= GcBytes
      BY <3>2, <3>3, <3>4, StreamAssumption DEF Rows, Bytes
    <3>6. i < SlowestNext
      BY <1>1, <1>3, <1>5, <2>1, <2>2
    <3> QED  BY <3>1, <3>5, <3>6 DEF Garbage
  <2>4. Garbage = first .. last
    <3>1. \A i \in Garbage : i \in first .. last
      BY <1>1, <1>2, <2>1, <2>2
    <3> QED  BY <2>3, <3>1
  <2>5. Cardinality(first .. last) = last - first + 1
    BY <1>1, <2>2, FS_Interval
  <2>6. \A c \in Attached : last + 1 <= consumers[c].next
    <3> SUFFICES ASSUME NEW c \in Attached PROVE last + 1 <= consumers[c].next
      OBVIOUS
    <3>1. last < SlowestNext /\ SlowestNext <= consumers[c].next
      BY <1>3, <1>4, <2>1
    <3> QED  BY <1>1, <1>5, <2>2, <3>1
  <2> QED  BY <1>1, <2>2, <2>4, <2>5, <2>6
<1> QED  BY <1>6, <1>7

\* The storage invariant of a stream that has just been created.
LEMMA StorageInit == Init => StorageInv
<1> SUFFICES ASSUME Init PROVE StorageInv
  OBVIOUS
<1> USE StreamAssumption
<1>1. /\ chunks = <<>> /\ next = 1 /\ first = 1 /\ latestData = 0 /\ frontier = 0
      /\ buffered = [chunks |-> 0, rows |-> 0, bytes |-> 0] /\ backpressured = FALSE
      /\ log = <<>> /\ total = [i \in {0} |-> NoPayload]
      /\ published = 0 /\ wal \in Lsn /\ wal >= 1
  BY DEF Init, NothingBuffered, Lsn
<1>2. /\ Attached \subseteq Consumers /\ consumers \in [Attached -> Cursor]
      /\ \A c \in Attached : consumers[c].next = 1
      /\ delivered \in [Attached -> Seq(Chunk)]
  <2>1. CASE Kind = "operator"
    BY <2>1 DEF Init, Attached, AttachedCursor, Cursor, Lsn
  <2>2. CASE Kind = "source"
    BY <2>2 DEF Init, Attached
  <2> QED  BY <2>1, <2>2
<1>3. Retained = {} /\ chunks \in [Retained -> Chunk]
  BY <1>1 DEF Retained
<1>4. total \in [0 .. 0 -> [rows : Nat, bytes : Nat]] /\ total[0] = NoPayload
  BY <1>1 DEF NoPayload
<1>5. TypeOK
  <2>1. next \in Nat \ {0} /\ first \in 1 .. next /\ next - 1 = 0 /\ Retained \subseteq 1 .. (next - 1)
    BY <1>1, <1>3
  <2>2. latestData \in Lsn /\ frontier \in Lsn /\ published \in 0 .. wal
    BY <1>1 DEF Lsn
  <2>3. buffered \in [chunks : Nat, rows : Nat, bytes : Nat] /\ backpressured \in BOOLEAN
    BY <1>1
  <2>4. log \in Seq(Chunk) /\ Len(log) = next - 1
    BY <1>1
  <2> QED  BY <1>1, <1>2, <1>3, <1>4, <2>1, <2>2, <2>3, <2>4 DEF TypeOK
<1>6. UnreadRetained
  BY <1>1, <1>2, <1>3 DEF UnreadRetained
<1>7. SumsSound
  BY <1>1, <1>4 DEF SumsSound, NoPayload, Rows, Bytes
<1>8. BufferBounded
  BY <1>1 DEF BufferBounded, AtHighWatermark
<1> QED  BY <1>5, <1>6, <1>7, <1>8 DEF StorageInv

\* An append extends the stored chunks, the log and the running sums by one.
LEMMA AppendEffect ==
    ASSUME StorageInv, NEW c, Appended(c)
    PROVE  /\ Retained' = first .. next
           /\ chunks' \in [first .. next -> Chunk]
           /\ \A i \in Retained : chunks'[i] = chunks[i]
           /\ chunks'[next] = c
           /\ log' \in Seq(Chunk) /\ Len(log') = next
           /\ \A i \in 1 .. (next - 1) : log'[i] = log[i]
           /\ log'[next] = c
           /\ total' \in [0 .. next -> [rows : Nat, bytes : Nat]]
           /\ \A i \in 0 .. (next - 1) : total'[i] = total[i]
           /\ total'[next].rows = total[next - 1].rows + c.size.rows
           /\ total'[next].bytes = total[next - 1].bytes + c.size.bytes
<1>1. c \in Chunk /\ c.size.rows \in Nat /\ c.size.bytes \in Nat
  BY ChunkFields DEF Appended
<1>2. /\ next \in Nat \ {0} /\ first \in 1 .. next
      /\ Retained = first .. (next - 1)
  BY DEF StorageInv, TypeOK, UnreadRetained
<1>3. /\ Retained' = first .. next
      /\ chunks' \in [first .. next -> Chunk]
      /\ \A i \in Retained : chunks'[i] = chunks[i]
      /\ chunks'[next] = c
  <2>1. chunks' = [i \in Retained \cup {next} |-> IF i = next THEN c ELSE chunks[i]]
    BY DEF Appended, InsertChunk
  <2>2. Retained \cup {next} = first .. next
    BY <1>2
  <2>3. \A i \in Retained : chunks[i] \in Chunk
    BY DEF StorageInv, TypeOK
  <2>4. \A i \in Retained : i # next
    BY <1>2
  <2>5. DOMAIN chunks' = first .. next
    BY <2>1, <2>2
  <2>6. \A i \in Retained : chunks'[i] = chunks[i]
    BY <2>1, <2>4
  <2>7. chunks'[next] = c
    BY <2>1
  <2>8. \A i \in first .. next : chunks'[i] \in Chunk
    BY <1>1, <2>2, <2>3, <2>6, <2>7
  <2>9. chunks' \in [first .. next -> Chunk]
    BY <2>1, <2>2, <2>5, <2>8
  <2> QED  BY <2>5, <2>6, <2>7, <2>9 DEF Retained
<1>4. /\ log' \in Seq(Chunk) /\ Len(log') = next
      /\ \A i \in 1 .. (next - 1) : log'[i] = log[i]
      /\ log'[next] = c
  <2>1. log' = Append(log, c)
    BY DEF Appended, InsertChunk
  <2>2. log \in Seq(Chunk) /\ Len(log) = next - 1
    BY DEF StorageInv, TypeOK
  <2> HIDE DEF Chunk
  <2> QED  BY <1>1, <1>2, <2>1, <2>2
<1>5. /\ total' \in [0 .. next -> [rows : Nat, bytes : Nat]]
      /\ \A i \in 0 .. (next - 1) : total'[i] = total[i]
      /\ total'[next].rows = total[next - 1].rows + c.size.rows
      /\ total'[next].bytes = total[next - 1].bytes + c.size.bytes
  <2> DEFINE sum == [rows  |-> total[next - 1].rows + c.size.rows,
                     bytes |-> total[next - 1].bytes + c.size.bytes]
  <2>1. total' = [i \in 0 .. next |-> IF i < next THEN total[i] ELSE sum]
    BY DEF Appended, InsertChunk
  <2>2. \A i \in 0 .. (next - 1) : total[i] \in [rows : Nat, bytes : Nat]
    BY DEF StorageInv, TypeOK
  <2>3. sum \in [rows : Nat, bytes : Nat]
    BY <1>1, <1>2, <2>2
  <2>4. /\ sum.rows = total[next - 1].rows + c.size.rows
        /\ sum.bytes = total[next - 1].bytes + c.size.bytes
    OBVIOUS
  <2> HIDE DEF sum
  <2>5. \A i \in 0 .. (next - 1) : i < next /\ i \in 0 .. next
    BY <1>2
  <2>6. next \in 0 .. next /\ ~(next < next)
    BY <1>2
  <2>7. \A i \in 0 .. (next - 1) : total'[i] = total[i]
    BY <2>1, <2>5
  <2>8. total'[next] = sum
    BY <2>1, <2>6
  <2>9. \A i \in 0 .. next : total'[i] \in [rows : Nat, bytes : Nat]
    BY <1>2, <2>2, <2>3, <2>7, <2>8
  <2>10. total' \in [0 .. next -> [rows : Nat, bytes : Nat]]
    BY <2>1, <2>9
  <2> QED  BY <2>4, <2>7, <2>8, <2>10
<1> QED  BY <1>3, <1>4, <1>5

\* Inserting a chunk keeps the storage invariant.
LEMMA StorageAppend ==
    ASSUME StorageInv, NEW c, Appended(c)
    PROVE  StorageInv'
<1>1. /\ c \in Chunk /\ c.size.rows \in Nat /\ c.size.bytes \in Nat /\ c.lsn \in Lsn
      /\ c.size.rows <= TargetRows
  BY ChunkFields DEF Appended
<1>2. /\ next' = next + 1
      /\ UNCHANGED <<first, consumers, wal, published, delivered>>
  BY DEF Appended, InsertChunk, envVars
<1>3. /\ next \in Nat \ {0} /\ first \in 1 .. next
      /\ Retained = first .. (next - 1)
      /\ total \in [0 .. (next - 1) -> [rows : Nat, bytes : Nat]]
  BY DEF StorageInv, TypeOK, UnreadRetained
<1>4. /\ buffered.chunks \in Nat /\ buffered.rows \in Nat /\ buffered.bytes \in Nat
      /\ buffered' = [chunks |-> buffered.chunks + 1,
                      rows |-> buffered.rows + c.size.rows,
                      bytes |-> buffered.bytes + c.size.bytes]
      /\ backpressured' = AtHighWatermark(buffered')
  BY DEF StorageInv, TypeOK, Appended, InsertChunk
<1>5. /\ buffered'.chunks = buffered.chunks + 1
      /\ buffered'.rows = buffered.rows + c.size.rows
      /\ buffered'.bytes = buffered.bytes + c.size.bytes
      /\ buffered' \in [chunks : Nat, rows : Nat, bytes : Nat]
  BY <1>1, <1>4
<1>6. TypeOK'
  <2>1. latestData' \in Lsn /\ frontier' \in Lsn /\ wal' \in Lsn /\ published' \in 0 .. wal'
    BY <1>1, <1>2 DEF StorageInv, TypeOK, Appended, InsertChunk
  <2>2. backpressured' \in BOOLEAN
    BY <1>4 DEF AtHighWatermark
  <2>3. /\ Attached' \subseteq Consumers /\ consumers' \in [Attached' -> Cursor]
        /\ delivered' \in [Attached' -> Seq(Chunk)]
    BY <1>2 DEF StorageInv, TypeOK, Attached
  <2>4. /\ next' \in Nat \ {0} /\ first' \in 1 .. next' /\ next' - 1 = next
        /\ first .. next \subseteq 1 .. next
    BY <1>2, <1>3
  <2> QED  BY <1>5, <2>1, <2>2, <2>3, <2>4, AppendEffect DEF TypeOK
<1>7. UnreadRetained'
  <2>1. Retained' = first' .. (next' - 1)
    BY <1>2, <1>3, AppendEffect
  <2>2. \A d \in Attached' : consumers'[d].next \in first' .. next'
    BY <1>2, <1>3 DEF StorageInv, UnreadRetained, Attached
  <2>3. \A i \in Retained' : chunks'[i] = log'[i]
    BY <1>3, AppendEffect DEF StorageInv, UnreadRetained
  <2> QED  BY <2>1, <2>2, <2>3 DEF UnreadRetained
<1>8. SumsSound'
  <2>1. ASSUME NEW i \in 0 .. (next' - 1), NEW j \in 0 .. (next' - 1), i <= j
        PROVE  total'[i].rows <= total'[j].rows /\ total'[i].bytes <= total'[j].bytes
    <3>0. /\ next - 1 \in 0 .. (next - 1) /\ i \in 0 .. next /\ j \in 0 .. next
          /\ total[next - 1].rows \in Nat /\ total[next - 1].bytes \in Nat
      BY <1>2, <1>3
    <3>1. CASE j # next
      <4>1. i \in 0 .. (next - 1) /\ j \in 0 .. (next - 1)
        BY <1>3, <2>1, <3>0, <3>1
      <4>2. total[i].rows <= total[j].rows /\ total[i].bytes <= total[j].bytes
        BY <2>1, <4>1 DEF StorageInv, SumsSound
      <4> QED  BY <4>1, <4>2, AppendEffect
    <3>2. CASE j = next /\ i # next
      <4>1. i \in 0 .. (next - 1) /\ i <= next - 1
        BY <1>3, <2>1, <3>0, <3>2
      <4>2. total[i].rows <= total[next - 1].rows /\ total[i].bytes <= total[next - 1].bytes
        BY <3>0, <4>1 DEF StorageInv, SumsSound
      <4>3. total[i].rows \in Nat /\ total[i].bytes \in Nat /\ total'[i] = total[i]
        BY <1>3, <4>1, AppendEffect
      <4>4. /\ total'[j].rows = total[next - 1].rows + c.size.rows
            /\ total'[j].bytes = total[next - 1].bytes + c.size.bytes
        BY <3>2, AppendEffect
      <4> QED  BY <1>1, <3>0, <4>2, <4>3, <4>4
    <3>3. CASE i = next /\ j = next
      <4>1. total'[next].rows \in Nat /\ total'[next].bytes \in Nat
        <5>1. next \in 0 .. next
          BY <1>3
        <5>2. total'[next] \in [rows : Nat, bytes : Nat]
          BY <5>1, AppendEffect
        <5> QED  BY <5>2
      <4> QED  BY <3>3, <4>1
    <3> QED  BY <3>1, <3>2, <3>3
  <2>2. first - 1 \in 0 .. (next - 1) /\ next - 1 \in 0 .. (next - 1) /\ next' - 1 = next
    BY <1>2, <1>3
  <2>3. /\ total'[first - 1] = total[first - 1]
        /\ total[first - 1].rows \in Nat /\ total[first - 1].bytes \in Nat
        /\ total[next - 1].rows \in Nat /\ total[next - 1].bytes \in Nat
    BY <1>3, <2>2, AppendEffect
  <2>4. /\ buffered.chunks = next - first
        /\ buffered.rows = total[next - 1].rows - total[first - 1].rows
        /\ buffered.bytes = total[next - 1].bytes - total[first - 1].bytes
    BY DEF StorageInv, SumsSound, Rows, Bytes
  <2>5. /\ total'[next].rows = total[next - 1].rows + c.size.rows
        /\ total'[next].bytes = total[next - 1].bytes + c.size.bytes
    BY AppendEffect
  <2>6. /\ buffered'.chunks = next' - first'
        /\ buffered'.rows = total'[next].rows - total'[first - 1].rows
        /\ buffered'.bytes = total'[next].bytes - total'[first - 1].bytes
    <3>1. buffered'.chunks = next' - first'
      BY <1>2, <1>3, <1>5, <2>4
    <3>2. buffered'.rows = total'[next].rows - total'[first - 1].rows
      BY <1>1, <1>5, <2>3, <2>4, <2>5
    <3>3. buffered'.bytes = total'[next].bytes - total'[first - 1].bytes
      BY <1>1, <1>5, <2>3, <2>4, <2>5
    <3> QED  BY <3>1, <3>2, <3>3
  <2>7. /\ buffered'.rows = total'[next' - 1].rows - total'[first' - 1].rows
        /\ buffered'.bytes = total'[next' - 1].bytes - total'[first' - 1].bytes
    BY <1>2, <2>2, <2>6
  <2> QED  BY <2>1, <2>6, <2>7 DEF SumsSound, Rows, Bytes
<1>9. BufferBounded'
  <2>1. buffered.chunks < HighChunks /\ buffered.rows < HighRows
    BY <1>4, StreamAssumption DEF StorageInv, BufferBounded, AtHighWatermark, Appended, InsertChunk
  <2>2. /\ HighChunks \in Nat /\ HighRows \in Nat /\ TargetRows \in Nat
    BY StreamAssumption
  <2>3. buffered'.chunks <= HighChunks /\ buffered'.rows < HighRows + TargetRows
    BY <1>1, <1>4, <1>5, <2>1, <2>2
  <2> QED  BY <1>4, <2>3 DEF BufferBounded
<1> QED  BY <1>6, <1>7, <1>8, <1>9 DEF StorageInv

\* A cursor advance leaves the stream alone and keeps every cursor within it.
LEMMA StorageConsume ==
    ASSUME StorageInv, NEW c \in Consumers, Consume(c)
    PROVE  StorageInv'
<1>1. PICK n \in 0 .. 1, f \in Lsn : c \in Attached /\ Advance(c, n, f)
  BY DEF Consume
<1>2. UNCHANGED <<chunks, next, first, latestData, frontier, buffered, backpressured,
                  wal, published, log, total>>
  BY <1>1 DEF Advance, streamVars, envVars, history
<1>3. /\ consumers[c].next + n <= next
      /\ consumers[c].next .. (consumers[c].next + n - 1) \subseteq Retained
  BY <1>1 DEF Advance, AdvanceAccepted
<1>4. /\ consumers \in [Attached -> Cursor] /\ consumers[c] \in Cursor
      /\ consumers[c].next \in first .. next /\ next \in Nat /\ first \in Nat
  BY <1>1 DEF StorageInv, TypeOK, UnreadRetained
<1>5. /\ Attached' = Attached
      /\ consumers' \in [Attached -> Cursor]
      /\ \A d \in Attached : d # c => consumers'[d] = consumers[d]
      /\ consumers'[c].next = consumers[c].next + n
  <2> DEFINE moved == [next |-> consumers[c].next + n,
                       activation |-> consumers[c].activation, frontier |-> f]
  <2>1. consumers' = [consumers EXCEPT ![c] = moved]
    BY <1>1 DEF Advance
  <2>2. moved \in Cursor
    BY <1>1, <1>4 DEF Cursor
  <2>3. moved.next = consumers[c].next + n
    OBVIOUS
  <2> HIDE DEF moved
  <2>4. DOMAIN consumers' = DOMAIN consumers
    BY <2>1
  <2> QED  BY <1>1, <1>4, <2>1, <2>2, <2>3, <2>4 DEF Attached
<1>6. delivered' \in [Attached -> Seq(Chunk)]
  <2> DEFINE read == [i \in 1 .. n |-> chunks[consumers[c].next + i - 1]]
  <2>1. delivered' = [delivered EXCEPT ![c] = @ \o read]
    BY <1>1 DEF Advance
  <2>2. \A i \in 1 .. n : consumers[c].next + i - 1 \in Retained
    <3>1. consumers[c].next \in Nat
      BY <1>1, SMTT(30) DEF StorageInv, TypeOK, UnreadRetained
    <3> QED  BY <1>1, <1>3, <3>1
  <2>3. \A i \in Retained : chunks[i] \in Chunk
    BY DEF StorageInv, TypeOK
  <2>4. read \in Seq(Chunk)
    <3>1. read \in [1 .. n -> Chunk] /\ n \in Nat
      BY <1>1, <2>2, <2>3
    <3> HIDE DEF read
    <3> QED  BY <3>1
  <2>5. delivered \in [Attached -> Seq(Chunk)]
    BY DEF StorageInv, TypeOK
  <2> HIDE DEF read
  <2>6. delivered[c] \o read \in Seq(Chunk)
    BY <1>1, <2>4, <2>5
  <2> QED  BY <2>1, <2>5, <2>6
<1>7. TypeOK'
  BY <1>2, <1>5, <1>6 DEF StorageInv, TypeOK, Retained, Attached
<1>8. UnreadRetained'
  <2>1. consumers'[c].next \in first .. next
    BY <1>1, <1>3, <1>4, <1>5
  <2> QED  BY <1>2, <1>5, <2>1 DEF StorageInv, UnreadRetained, Retained
<1>9. SumsSound' /\ BufferBounded'
  BY <1>2 DEF StorageInv, SumsSound, BufferBounded, AtHighWatermark, Rows, Bytes
<1> QED  BY <1>7, <1>8, <1>9 DEF StorageInv

\* A consumer that joins at the tail, or leaves, disturbs no other cursor.
LEMMA StorageAttach ==
    ASSUME StorageInv, NEW c \in Consumers, Attach(c)
    PROVE  StorageInv'
<1>1. UNCHANGED <<chunks, next, first, latestData, frontier, buffered, backpressured,
                  wal, published, log, total>>
  BY DEF Attach, streamVars, envVars, history
<1>2. AttachedCursor(wal) \in Cursor /\ AttachedCursor(wal).next = next
  BY DEF StorageInv, TypeOK, Attach, AttachedCursor, Cursor
<1>3. /\ Attached' = Attached \cup {c} /\ c \notin Attached
      /\ \A d \in Attached : consumers'[d] = consumers[d]
      /\ consumers'[c] = AttachedCursor(wal)
      /\ consumers' \in [Attached' -> Cursor]
  <2>1. /\ c \notin Attached
        /\ consumers' = [d \in Attached \cup {c} |->
                            IF d = c THEN AttachedCursor(wal) ELSE consumers[d]]
    BY DEF Attach
  <2>2. \A d \in Attached : consumers[d] \in Cursor
    BY DEF StorageInv, TypeOK
  <2> HIDE DEF AttachedCursor, Cursor
  <2>3. Attached' = Attached \cup {c}
    BY <2>1 DEF Attached
  <2> QED  BY <1>2, <2>1, <2>2, <2>3
<1>4. delivered' \in [Attached' -> Seq(Chunk)]
  <2>1. /\ delivered' = [d \in Attached \cup {c} |-> IF d = c THEN <<>> ELSE delivered[d]]
        /\ delivered \in [Attached -> Seq(Chunk)]
        /\ <<>> \in Seq(Chunk)
    BY DEF Attach, StorageInv, TypeOK
  <2> QED  BY <1>3, <2>1
<1>5. TypeOK'
  BY <1>1, <1>3, <1>4 DEF StorageInv, TypeOK, Retained
<1>6. UnreadRetained'
  BY <1>1, <1>2, <1>3 DEF StorageInv, UnreadRetained, TypeOK, Retained
<1>7. SumsSound' /\ BufferBounded'
  BY <1>1 DEF StorageInv, SumsSound, BufferBounded, AtHighWatermark, Rows, Bytes
<1> QED  BY <1>5, <1>6, <1>7 DEF StorageInv

\* Removing a consumer keeps the storage invariant.
LEMMA StorageDetach ==
    ASSUME StorageInv, NEW c \in Consumers, Detach(c)
    PROVE  StorageInv'
<1>1. /\ consumers' = [d \in Attached \ {c} |-> consumers[d]]
      /\ delivered' = [d \in Attached \ {c} |-> delivered[d]]
      /\ UNCHANGED <<wal, published>>
  BY DEF Detach, envVars
<1>2. /\ Attached' = Attached \ {c}
      /\ consumers' \in [Attached' -> Cursor] /\ delivered' \in [Attached' -> Seq(Chunk)]
      /\ \A d \in Attached' : consumers'[d] = consumers[d]
  <2>1. Attached' = Attached \ {c}
    BY <1>1 DEF Attached
  <2> QED  BY <1>1, <2>1 DEF StorageInv, TypeOK
<1>3. CASE Attached # {c}
  <2>1. UNCHANGED <<chunks, next, first, latestData, frontier, buffered, backpressured, log, total>>
    BY <1>3 DEF Detach, streamVars, history
  <2>2. TypeOK'
    BY <1>1, <1>2, <2>1 DEF StorageInv, TypeOK, Retained
  <2>3. UnreadRetained' /\ SumsSound' /\ BufferBounded'
    BY <1>2, <2>1 DEF StorageInv, UnreadRetained, SumsSound, BufferBounded,
                      AtHighWatermark, Rows, Bytes, Retained
  <2> QED  BY <2>2, <2>3 DEF StorageInv
<1>4. CASE Attached = {c}
  <2>1. /\ chunks' = <<>> /\ next' = 1 /\ first' = 1 /\ latestData' = 0 /\ frontier' = 0
        /\ buffered' = [chunks |-> 0, rows |-> 0, bytes |-> 0] /\ backpressured' = FALSE
        /\ log' = <<>> /\ total' = [i \in {0} |-> NoPayload]
    BY <1>4 DEF Detach, DropStream, NothingBuffered
  <2>2. Attached' = {}
    BY <1>2, <1>4
  <2>3. Retained' = {} /\ chunks' \in [Retained' -> Chunk]
    BY <2>1 DEF Retained
  <2>4. total' \in [0 .. 0 -> [rows : Nat, bytes : Nat]] /\ total'[0] = NoPayload
    BY <2>1 DEF NoPayload
  <2>5. TypeOK'
    <3>1. next' \in Nat \ {0} /\ first' \in 1 .. next' /\ next' - 1 = 0 /\ Retained' \subseteq 1 .. (next' - 1)
      BY <2>1, <2>3
    <3>2. latestData' \in Lsn /\ frontier' \in Lsn /\ wal' \in Lsn /\ published' \in 0 .. wal'
      BY <1>1, <2>1, StreamAssumption DEF Lsn, StorageInv, TypeOK
    <3>3. buffered' \in [chunks : Nat, rows : Nat, bytes : Nat] /\ backpressured' \in BOOLEAN
      BY <2>1
    <3>4. log' \in Seq(Chunk) /\ Len(log') = next' - 1 /\ Attached' \subseteq Consumers
      BY <2>1, <2>2
    <3> QED  BY <1>2, <2>3, <2>4, <3>1, <3>2, <3>3, <3>4 DEF TypeOK
  <2>6. UnreadRetained'
    BY <2>1, <2>2, <2>3 DEF UnreadRetained
  <2>7. SumsSound'
    BY <2>1, <2>4 DEF SumsSound, NoPayload, Rows, Bytes
  <2>8. BufferBounded'
    BY <2>1, StreamAssumption DEF BufferBounded, AtHighWatermark
  <2> QED  BY <2>5, <2>6, <2>7, <2>8 DEF StorageInv
<1> QED  BY <1>3, <1>4

\* The collector deletes a prefix no cursor needs, and the counters shrink by
\* exactly what it deletes.
LEMMA StorageGc ==
    ASSUME StorageInv, Gc
    PROVE  StorageInv'
<1> DEFINE r == RetainedFrom
<1>1. /\ next \in Nat \ {0} /\ first \in 1 .. next /\ Retained = first .. (next - 1)
      /\ total \in [0 .. (next - 1) -> [rows : Nat, bytes : Nat]]
      /\ buffered.chunks \in Nat /\ buffered.rows \in Nat /\ buffered.bytes \in Nat
  BY DEF StorageInv, TypeOK, UnreadRetained
<1>2. /\ r \in first .. next /\ Garbage = first .. (r - 1)
      /\ Cardinality(Garbage) = r - first
      /\ \A c \in Attached : r <= consumers[c].next
  BY GarbagePrefix
<1>3. /\ UNCHANGED <<next, latestData, frontier, consumers, wal, published, log, total, delivered>>
      /\ first' = r
      /\ chunks' = [i \in Retained \ Garbage |-> chunks[i]]
      /\ buffered' = Remaining
      /\ backpressured' = (backpressured /\ ~AtLowWatermark(Remaining))
  BY DEF Gc, envVars, history
<1> HIDE DEF r
<1>4. /\ Retained' = r .. (next - 1) /\ Retained' \subseteq Retained
      /\ \A i \in Retained' : chunks'[i] = chunks[i]
      /\ chunks' \in [Retained' -> Chunk]
  <2>1. Retained \ Garbage = r .. (next - 1)
    BY <1>1, <1>2, SMTT(30)
  <2>2. Retained' = r .. (next - 1) /\ Retained' \subseteq Retained
    BY <1>3, <2>1 DEF Retained
  <2>3. \A i \in Retained : chunks[i] \in Chunk
    BY DEF StorageInv, TypeOK
  <2> QED  BY <1>3, <2>1, <2>2, <2>3
<1>5. /\ first - 1 \in 0 .. (next - 1) /\ r - 1 \in 0 .. (next - 1) /\ next - 1 \in 0 .. (next - 1)
      /\ first - 1 <= r - 1 /\ r - 1 <= next - 1
  BY <1>1, <1>2
<1>6. /\ total[first - 1].rows \in Nat /\ total[r - 1].rows \in Nat /\ total[next - 1].rows \in Nat
      /\ total[first - 1].bytes \in Nat /\ total[r - 1].bytes \in Nat /\ total[next - 1].bytes \in Nat
  BY <1>1, <1>5
<1>7. /\ total[first - 1].rows <= total[r - 1].rows /\ total[r - 1].rows <= total[next - 1].rows
      /\ total[first - 1].bytes <= total[r - 1].bytes /\ total[r - 1].bytes <= total[next - 1].bytes
  BY <1>5 DEF StorageInv, SumsSound
<1>8. /\ buffered.chunks = next - first
      /\ buffered.rows = total[next - 1].rows - total[first - 1].rows
      /\ buffered.bytes = total[next - 1].bytes - total[first - 1].bytes
  BY DEF StorageInv, SumsSound, Rows, Bytes
<1>9. buffered' = [chunks |-> buffered.chunks - (r - first),
                   rows   |-> buffered.rows - (total[r - 1].rows - total[first - 1].rows),
                   bytes  |-> buffered.bytes - (total[r - 1].bytes - total[first - 1].bytes)]
  BY <1>2, <1>3 DEF Remaining, Rows, Bytes, r
<1>10. /\ buffered'.chunks = buffered.chunks - (r - first)
       /\ buffered'.rows = buffered.rows - (total[r - 1].rows - total[first - 1].rows)
       /\ buffered'.bytes = buffered.bytes - (total[r - 1].bytes - total[first - 1].bytes)
  BY <1>9
<1>11. /\ buffered'.chunks = next - r /\ buffered'.chunks \in Nat
       /\ buffered'.chunks <= buffered.chunks
  <2>1. next \in Nat /\ first \in Nat /\ r \in Nat /\ first <= r /\ r <= next
    BY <1>1, <1>2
  <2>2. buffered'.chunks = (next - first) - (r - first) /\ buffered.chunks = next - first
    BY <1>8, <1>10
  <2> QED  BY <2>1, <2>2
<1>12. /\ buffered'.rows = total[next - 1].rows - total[r - 1].rows /\ buffered'.rows \in Nat
       /\ buffered'.rows <= buffered.rows
  BY <1>6, <1>7, <1>8, <1>10
<1>13. /\ buffered'.bytes = total[next - 1].bytes - total[r - 1].bytes /\ buffered'.bytes \in Nat
       /\ buffered'.bytes <= buffered.bytes
  BY <1>6, <1>7, <1>8, <1>10
<1>14. TypeOK'
  <2>1. buffered' \in [chunks : Nat, rows : Nat, bytes : Nat]
    BY <1>9, <1>10, <1>11, <1>12, <1>13
  <2>2. backpressured' \in BOOLEAN
    BY <1>3 DEF AtLowWatermark, StorageInv, TypeOK
  <2>3. first' \in 1 .. next' /\ next' \in Nat \ {0} /\ Retained' \subseteq 1 .. (next' - 1)
    BY <1>1, <1>2, <1>3, <1>4
  <2>4. /\ latestData' \in Lsn /\ frontier' \in Lsn /\ wal' \in Lsn /\ published' \in 0 .. wal'
        /\ log' \in Seq(Chunk) /\ Len(log') = next' - 1
        /\ total' \in [0 .. (next' - 1) -> [rows : Nat, bytes : Nat]]
        /\ Attached' \subseteq Consumers /\ consumers' \in [Attached' -> Cursor]
        /\ delivered' \in [Attached' -> Seq(Chunk)]
    BY <1>3 DEF StorageInv, TypeOK, Attached
  <2> QED  BY <1>4, <2>1, <2>2, <2>3, <2>4 DEF TypeOK
<1>15. UnreadRetained'
  <2>1. \A c \in Attached' : consumers'[c].next \in first' .. next'
    BY <1>1, <1>2, <1>3 DEF StorageInv, UnreadRetained, Attached
  <2>2. \A i \in Retained' : chunks'[i] = log'[i]
    BY <1>3, <1>4 DEF StorageInv, UnreadRetained
  <2> QED  BY <1>3, <1>4, <2>1, <2>2 DEF UnreadRetained
<1>16. SumsSound'
  <2>1. \A i, j \in 0 .. (next' - 1) : i <= j =>
          total'[i].rows <= total'[j].rows /\ total'[i].bytes <= total'[j].bytes
    BY <1>3 DEF StorageInv, SumsSound
  <2> QED  BY <1>3, <1>11, <1>12, <1>13, <2>1 DEF SumsSound, Rows, Bytes
<1>17. BufferBounded'
  <2>1. /\ HighChunks \in Nat /\ HighRows \in Nat /\ HighBytes \in Nat /\ TargetRows \in Nat
        /\ LowChunks \in Nat /\ LowRows \in Nat /\ LowBytes \in Nat
        /\ LowChunks < HighChunks /\ LowRows < HighRows /\ LowBytes < HighBytes
    BY StreamAssumption
  <2>2. buffered'.chunks <= HighChunks /\ buffered'.rows < HighRows + TargetRows
    BY <1>1, <1>11, <1>12, <2>1, SMTT(30) DEF StorageInv, BufferBounded
  <2>3. ASSUME ~backpressured' PROVE ~AtHighWatermark(buffered')
    <3>1. CASE ~backpressured
      <4>1. /\ buffered.chunks < HighChunks /\ buffered.rows < HighRows /\ buffered.bytes < HighBytes
        BY <1>1, <2>1, <3>1, SMTT(30) DEF StorageInv, BufferBounded, AtHighWatermark
      <4>2. buffered.chunks \in Nat /\ buffered.rows \in Nat /\ buffered.bytes \in Nat
        BY <1>1
      <4>3. buffered'.chunks < HighChunks
        BY <1>11, <2>1, <4>1, <4>2
      <4>4. buffered'.rows < HighRows
        BY <1>12, <2>1, <4>1, <4>2
      <4>5. buffered'.bytes < HighBytes
        BY <1>13, <2>1, <4>1, <4>2
      <4> QED  BY <1>11, <1>12, <1>13, <2>1, <4>3, <4>4, <4>5 DEF AtHighWatermark
    <3>2. CASE AtLowWatermark(Remaining)
      <4>1. AtLowWatermark(buffered')
        BY <1>3, <3>2
      <4> QED  BY <1>11, <1>12, <1>13, <2>1, <4>1 DEF AtHighWatermark, AtLowWatermark
    <3> QED  BY <1>3, <2>3, <3>1, <3>2 DEF StorageInv, TypeOK
  <2> QED  BY <2>2, <2>3 DEF BufferBounded
<1> QED  BY <1>14, <1>15, <1>16, <1>17 DEF StorageInv

\* The environment of a source stream touches nothing stored.
LEMMA StorageEnvironment ==
    ASSUME StorageInv, WriteWal \/ PublishFrontier \/ UNCHANGED vars
    PROVE  StorageInv'
<1>1. UNCHANGED <<chunks, next, first, latestData, frontier, buffered, backpressured,
                  consumers, log, total, delivered>>
  BY DEF WriteWal, PublishFrontier, vars, streamVars, history
<1>2. wal' \in Lsn /\ published' \in 0 .. wal'
  <2>1. wal \in Lsn /\ published \in 0 .. wal
    BY DEF StorageInv, TypeOK
  <2>2. CASE WriteWal
    BY <2>1, <2>2, StreamAssumption DEF WriteWal, Lsn
  <2>3. CASE PublishFrontier
    BY <2>1, <2>3 DEF PublishFrontier, Lsn
  <2>4. CASE UNCHANGED vars
    BY <2>1, <2>4 DEF vars, envVars
  <2> QED  BY <2>2, <2>3, <2>4
<1>3. TypeOK' /\ UnreadRetained' /\ SumsSound' /\ BufferBounded'
  BY <1>1, <1>2 DEF StorageInv, TypeOK, UnreadRetained, SumsSound, BufferBounded,
                    AtHighWatermark, Rows, Bytes, Retained, Attached
<1> QED  BY <1>3 DEF StorageInv

\* Every operation of the stream preserves storage and accounting.
LEMMA StorageStep == StorageInv /\ [Next]_vars => StorageInv'
<1> SUFFICES ASSUME StorageInv, [Next]_vars PROVE StorageInv'
  OBVIOUS
<1>1. CASE AppendData \/ AppendFrontier
  <2>1. PICK c : Appended(c)
    BY <1>1, AppendsInsert DEF StorageInv
  <2> QED  BY <2>1, StorageAppend
<1>2. CASE Gc
  BY <1>2, StorageGc
<1>3. CASE WriteWal \/ PublishFrontier \/ UNCHANGED vars
  BY <1>3, StorageEnvironment
<1>4. ASSUME NEW c \in Consumers, Attach(c) PROVE StorageInv'
  BY <1>4, StorageAttach
<1>5. ASSUME NEW c \in Consumers, Detach(c) PROVE StorageInv'
  BY <1>5, StorageDetach
<1>6. ASSUME NEW c \in Consumers, Consume(c) PROVE StorageInv'
  BY <1>6, StorageConsume
<1> QED  BY <1>1, <1>2, <1>3, <1>4, <1>5, <1>6 DEF Next

\* The storage invariant holds in every reachable state.
LEMMA StorageInvariance == Spec => []StorageInv
BY StorageInit, StorageStep, PTL DEF Spec

\* Type correctness of effect_streams, its chunks and its consumers, in
\* particular that no counter of sql/00_catalog.sql ever becomes negative.
THEOREM TypeCorrect == Spec => []TypeOK
<1>1. StorageInv => TypeOK
  BY DEF StorageInv
<1> QED  BY <1>1, StorageInvariance, PTL

\* gc_effect_stream never deletes a chunk some consumer has still to read, and
\* what is stored is what was appended.
THEOREM RetentionSafe == Spec => []UnreadRetained
<1>1. StorageInv => UnreadRetained
  BY DEF StorageInv
<1> QED  BY <1>1, StorageInvariance, PTL

\* Backpressure bounds the buffer of every stream, for all watermarks that
\* satisfy the CHECK constraints of effect_streams.
THEOREM BackpressureSafe == Spec => []BufferBounded
<1>1. StorageInv => BufferBounded
  BY DEF StorageInv
<1> QED  BY <1>1, StorageInvariance, PTL
-----------------------------------------------------------------------------
(* Causal frontiers *)

\* The inductive invariant for frontiers: what the stream row remembers of its
\* chunks is what the LSN checks compare with.
FrontierInv == StorageInv /\ LsnsSound /\ FrontierPromise /\ ConsumerFrontierSound

\* The frontier invariant of a stream that has just been created.
LEMMA FrontierInit == Init => FrontierInv
<1> SUFFICES ASSUME Init PROVE FrontierInv
  OBVIOUS
<1>1. StorageInv
  BY StorageInit
<1>2. log = <<>> /\ next = 1 /\ latestData = 0 /\ frontier = 0 /\ wal \in Nat
  BY StreamAssumption DEF Init
<1>3. \A c \in Attached : Kind = "operator" /\ consumers[c].frontier = 0 /\ consumers[c].next = 1
  <2>1. CASE Kind = "operator"
    BY <2>1 DEF Init, Attached, AttachedCursor
  <2>2. CASE Kind = "source"
    BY <2>2 DEF Init, Attached
  <2> QED  BY <2>1, <2>2, StreamAssumption
<1>4. LsnsSound
  BY <1>2, <1>3 DEF LsnsSound
<1>5. FrontierPromise /\ ConsumerFrontierSound
  BY <1>2, <1>3 DEF FrontierPromise, ConsumerFrontierSound
<1> QED  BY <1>1, <1>4, <1>5 DEF FrontierInv

\* The types the LSN comparisons rest on.
LEMMA LsnTypes ==
    ASSUME FrontierInv
    PROVE  /\ next \in Nat \ {0} /\ Len(log) = next - 1
           /\ latestData \in Nat /\ frontier \in Nat /\ wal \in Nat /\ published \in Nat
           /\ \A i \in 1 .. (next - 1) : log[i].lsn \in Nat /\ log[i].lsn >= 1
                                         /\ log[i].kind \in {"data", "frontier"}
           /\ \A c \in Attached : /\ consumers[c].frontier \in Nat
                                  /\ consumers[c].activation \in Nat
                                  /\ consumers[c].next \in 1 .. next
<1>1. next \in Nat \ {0} /\ Len(log) = next - 1 /\ log \in Seq(Chunk) /\ first \in 1 .. next
  BY DEF FrontierInv, StorageInv, TypeOK
<1>2. \A i \in 1 .. (next - 1) : log[i] \in Chunk
  BY <1>1
<1>3. \A i \in 1 .. (next - 1) : log[i].lsn \in Nat /\ log[i].kind \in {"data", "frontier"}
  BY <1>2, ChunkFields, StreamAssumption DEF Lsn
<1>4. \A i \in 1 .. (next - 1) : log[i].lsn >= 1
  BY <1>1 DEF FrontierInv, LsnsSound
<1>5. latestData \in Nat /\ frontier \in Nat /\ wal \in Nat /\ published \in Nat
  BY StreamAssumption DEF FrontierInv, StorageInv, TypeOK, Lsn
<1>6. \A c \in Attached : consumers[c] \in Cursor /\ consumers[c].next \in first .. next
  BY DEF FrontierInv, StorageInv, TypeOK, UnreadRetained
<1>7. \A c \in Attached : /\ consumers[c].frontier \in Nat /\ consumers[c].activation \in Nat
                          /\ consumers[c].next \in 1 .. next
  BY <1>1, <1>6, StreamAssumption DEF Cursor, Lsn
<1> QED  BY <1>1, <1>3, <1>4, <1>5, <1>7

\* What the producer may append next lies above every frontier already
\* published and above every consumer's frontier.
LEMMA AcceptedAboveFrontiers ==
    ASSUME FrontierInv, NEW l \in Nat, l >= 1, DataLsnAccepted(l)
    PROVE  /\ \A i \in 1 .. (next - 1) : log[i].kind = "frontier" => l > log[i].lsn
           /\ \A c \in Attached : \/ l > consumers[c].frontier
                                  \/ Kind = "source" /\ l <= consumers[c].activation
<1>1. \A i \in 1 .. (next - 1) : log[i].kind = "frontier" =>
          Kind = "operator" /\ log[i].lsn <= frontier
  BY LsnTypes DEF FrontierInv, LsnsSound
<1>2. \A i \in 1 .. (next - 1) : log[i].kind = "frontier" => l > log[i].lsn
  BY <1>1, LsnTypes DEF DataLsnAccepted
<1>3. ASSUME NEW c \in Attached
      PROVE  \/ l > consumers[c].frontier
             \/ Kind = "source" /\ l <= consumers[c].activation
  <2>1. CASE Kind = "operator"
    <3>1. \/ consumers[c].frontier = 0
          \/ \E i \in 1 .. (consumers[c].next - 1) :
                log[i].kind = "frontier" /\ log[i].lsn = consumers[c].frontier
      BY <2>1 DEF FrontierInv, LsnsSound
    <3>2. \A i \in 1 .. (consumers[c].next - 1) : i \in 1 .. (next - 1)
      BY LsnTypes
    <3> QED  BY <1>2, <3>1, <3>2, LsnTypes
  <2>2. CASE Kind = "source"
    <3>1. \/ consumers[c].frontier = consumers[c].activation
          \/ consumers[c].frontier <= published
      BY <2>2 DEF FrontierInv, LsnsSound
    <3>2. published # 0 => l > published
      BY <2>2 DEF DataLsnAccepted
    <3> QED  BY <2>2, <3>1, <3>2, LsnTypes
  <2> QED  BY <2>1, <2>2, StreamAssumption
<1> QED  BY <1>2, <1>3

\* Inserting a chunk keeps the frontier invariant.
LEMMA FrontierAppend ==
    ASSUME FrontierInv, NEW c, Appended(c)
    PROVE  FrontierInv'
<1>1. StorageInv'
  BY StorageAppend DEF FrontierInv
<1>2. /\ next' = next + 1 /\ UNCHANGED <<consumers, wal, published>>
      /\ latestData' = (IF c.kind = "data" /\ c.lsn > latestData THEN c.lsn ELSE latestData)
      /\ frontier' = (IF c.kind = "frontier" THEN c.lsn ELSE frontier)
  BY DEF Appended, InsertChunk, envVars
<1>3. /\ Len(log') = next /\ log'[next] = c
      /\ \A i \in 1 .. (next - 1) : log'[i] = log[i]
  BY AppendEffect DEF FrontierInv
<1>4. /\ c.lsn \in Nat /\ c.lsn >= 1 /\ c.lsn <= wal
      /\ \/ c.kind = "data" /\ DataLsnAccepted(c.lsn)
         \/ c.kind = "frontier" /\ Kind = "operator" /\ FrontierLsnAccepted(c.lsn)
  BY LsnTypes DEF Appended
<1>5. \A i \in 1 .. (next - 1) : log[i].kind = "frontier" => c.lsn > log[i].lsn
  <2>1. CASE c.kind = "data" /\ DataLsnAccepted(c.lsn)
    BY <1>4, <2>1, AcceptedAboveFrontiers
  <2>2. CASE c.kind = "frontier" /\ FrontierLsnAccepted(c.lsn)
    <3>1. \A i \in 1 .. (next - 1) : log[i].kind = "frontier" => log[i].lsn <= frontier
      BY LsnTypes DEF FrontierInv, LsnsSound
    <3> QED  BY <1>4, <2>2, <3>1, LsnTypes DEF FrontierLsnAccepted
  <2> QED  BY <1>4, <2>1, <2>2
<1>6. \A d \in Attached : \/ c.lsn > consumers[d].frontier
                          \/ Kind = "source" /\ c.lsn <= consumers[d].activation
  <2>1. CASE c.kind = "data" /\ DataLsnAccepted(c.lsn)
    BY <1>4, <2>1, AcceptedAboveFrontiers
  <2>2. CASE c.kind = "frontier" /\ Kind = "operator"
    <3> SUFFICES ASSUME NEW d \in Attached PROVE c.lsn > consumers[d].frontier
      OBVIOUS
    <3>1. \/ consumers[d].frontier = 0
          \/ \E i \in 1 .. (consumers[d].next - 1) :
                log[i].kind = "frontier" /\ log[i].lsn = consumers[d].frontier
      BY <2>2 DEF FrontierInv, LsnsSound
    <3>2. \A i \in 1 .. (consumers[d].next - 1) : i \in 1 .. (next - 1)
      BY LsnTypes
    <3> QED  BY <1>4, <1>5, <3>1, <3>2, LsnTypes
  <2> QED  BY <1>4, <2>1, <2>2
<1>7. \A i \in 1 .. next : i \in 1 .. (next - 1) \/ i = next
  BY LsnTypes
<1>8. LsnsSound'
  <2>1. \A i \in 1 .. Len(log') :
          /\ log'[i].lsn \in 1 .. wal'
          /\ log'[i].kind = "data" => log'[i].lsn <= latestData'
          /\ log'[i].kind = "frontier" => Kind = "operator" /\ log'[i].lsn <= frontier'
    <3> SUFFICES ASSUME NEW i \in 1 .. next
                 PROVE  /\ log'[i].lsn \in 1 .. wal
                        /\ log'[i].kind = "data" => log'[i].lsn <= latestData'
                        /\ log'[i].kind = "frontier" => Kind = "operator" /\ log'[i].lsn <= frontier'
      BY <1>2, <1>3
    <3>1. CASE i \in 1 .. (next - 1)
      <4>1. /\ log[i].lsn \in 1 .. wal
            /\ log[i].kind = "data" => log[i].lsn <= latestData
            /\ log[i].kind = "frontier" => Kind = "operator" /\ log[i].lsn <= frontier
        BY <3>1, LsnTypes DEF FrontierInv, LsnsSound
      <4>2. latestData <= latestData'
        BY <1>2, <1>4, LsnTypes
      <4>3. log[i].kind = "frontier" => log[i].lsn <= frontier'
        BY <1>2, <1>4, <1>5, <3>1, <4>1, LsnTypes
      <4>4. log'[i] = log[i] /\ latestData' \in Nat
        BY <1>2, <1>3, <1>4, <3>1, LsnTypes
      <4> QED  BY <3>1, <4>1, <4>2, <4>3, <4>4, LsnTypes
    <3>2. CASE i = next
      BY <1>2, <1>3, <1>4, <3>2, LsnTypes
    <3> QED  BY <1>7, <3>1, <3>2
  <2>2. latestData' <= wal' /\ frontier' <= wal'
    BY <1>2, <1>4 DEF FrontierInv, LsnsSound
  <2>3. ASSUME Kind = "source", NEW i \in 1 .. Len(log'), NEW j \in 1 .. Len(log'), i <= j
        PROVE  log'[i].lsn <= log'[j].lsn
    <3>1. CASE j \in 1 .. (next - 1)
      <4>1. i \in 1 .. (next - 1)
        BY <1>3, <2>3, <3>1, LsnTypes
      <4> QED  BY <1>3, <2>3, <3>1, <4>1, LsnTypes DEF FrontierInv, LsnsSound
    <3>2. CASE j = next /\ i \in 1 .. (next - 1)
      <4>1. c.kind = "data" /\ c.lsn >= latestData
        BY <1>4, <2>3 DEF DataLsnAccepted
      <4>2. log[i].kind = "data" /\ log[i].lsn <= latestData
        BY <2>3, <3>2, LsnTypes DEF FrontierInv, LsnsSound
      <4> QED  BY <1>3, <1>4, <3>2, <4>1, <4>2, LsnTypes
    <3>3. CASE j = next /\ i = next
      BY <1>3, <1>4, <3>3
    <3> QED  BY <1>3, <1>7, <3>1, <3>2, <3>3
  <2>4. Kind = "source" => frontier' = 0
    BY <1>2, <1>4 DEF FrontierInv, LsnsSound
  <2>5. Kind = "operator" => \A d \in Attached :
          \/ consumers[d].frontier = 0
          \/ \E i \in 1 .. (consumers[d].next - 1) :
                log'[i].kind = "frontier" /\ log'[i].lsn = consumers[d].frontier
    <3> SUFFICES ASSUME Kind = "operator", NEW d \in Attached, consumers[d].frontier # 0
                 PROVE  \E i \in 1 .. (consumers[d].next - 1) :
                            log'[i].kind = "frontier" /\ log'[i].lsn = consumers[d].frontier
      OBVIOUS
    <3>1. PICK i \in 1 .. (consumers[d].next - 1) :
              log[i].kind = "frontier" /\ log[i].lsn = consumers[d].frontier
      BY DEF FrontierInv, LsnsSound
    <3>2. i \in 1 .. (next - 1)
      BY <3>1, LsnTypes
    <3> QED  BY <1>3, <3>1, <3>2
  <2>6. Kind = "source" => \A d \in Attached :
                /\ consumers[d].activation <= consumers[d].frontier
                /\ consumers[d].activation <= wal
                /\ \/ consumers[d].frontier = consumers[d].activation
                   \/ consumers[d].frontier <= published
    BY DEF FrontierInv, LsnsSound
  <2> QED  BY <1>2, <2>1, <2>2, <2>3, <2>4, <2>5, <2>6 DEF LsnsSound, Attached
<1>9. FrontierPromise'
  <2> SUFFICES ASSUME NEW i \in 1 .. next, log'[i].kind = "frontier"
               PROVE  /\ \A j \in 1 .. (i - 1) : log'[j].lsn <= log'[i].lsn
                      /\ \A j \in (i + 1) .. next : log'[j].lsn > log'[i].lsn
    BY <1>3 DEF FrontierPromise
  <2>1. CASE i \in 1 .. (next - 1)
    <3>1. /\ \A j \in 1 .. (i - 1) : log[j].lsn <= log[i].lsn
          /\ \A j \in (i + 1) .. (next - 1) : log[j].lsn > log[i].lsn
      BY <1>3, <2>1, LsnTypes DEF FrontierInv, FrontierPromise
    <3>2. \A j \in 1 .. (i - 1) : j \in 1 .. (next - 1)
      BY <2>1, LsnTypes
    <3>3. \A j \in (i + 1) .. next :
            \/ j \in 1 .. (next - 1) /\ j \in (i + 1) .. (next - 1)
            \/ j = next
      BY <2>1, LsnTypes
    <3>4. c.lsn > log[i].lsn
      BY <1>3, <1>5, <2>1
    <3> QED  BY <1>3, <2>1, <3>1, <3>2, <3>3, <3>4
  <2>2. CASE i = next
    <3>1. c.kind = "frontier" /\ FrontierLsnAccepted(c.lsn)
      BY <1>3, <1>4, <2>2
    <3>2. \A j \in 1 .. (next - 1) : log[j].lsn <= c.lsn
      <4> SUFFICES ASSUME NEW j \in 1 .. (next - 1) PROVE log[j].lsn <= c.lsn
        OBVIOUS
      <4>1. log[j].kind = "data" => log[j].lsn <= latestData
        BY LsnTypes DEF FrontierInv, LsnsSound
      <4>2. c.lsn >= latestData
        BY <3>1 DEF FrontierLsnAccepted
      <4> QED  BY <1>4, <1>5, <4>1, <4>2, LsnTypes
    <3>3. (i + 1) .. next = {}
      BY <2>2, LsnTypes
    <3> QED  BY <1>3, <2>2, <3>2, <3>3
  <2> QED  BY <1>7, <2>1, <2>2
<1>10. ConsumerFrontierSound'
  <2> SUFFICES ASSUME NEW d \in Attached, NEW i \in consumers[d].next .. next
               PROVE  \/ log'[i].lsn > consumers[d].frontier
                      \/ Kind = "source" /\ log'[i].lsn <= consumers[d].activation
    BY <1>2, LsnTypes DEF ConsumerFrontierSound, Attached
  <2>1. CASE i = next
    BY <1>3, <1>6, <2>1
  <2>2. CASE i # next
    <3>1. i \in consumers[d].next .. (next - 1) /\ i \in 1 .. (next - 1)
      BY <2>2, LsnTypes
    <3> QED  BY <1>3, <3>1 DEF FrontierInv, ConsumerFrontierSound
  <2> QED  BY <2>1, <2>2
<1> QED  BY <1>1, <1>8, <1>9, <1>10 DEF FrontierInv

\* The frontier a consumer takes is the old one or one published by a chunk it
\* reads now (operator) or by the generation (source), and every chunk it has
\* still to read lies above it.
LEMMA AdvancedFrontier ==
    ASSUME FrontierInv, NEW c \in Attached, NEW n \in 0 .. 1, NEW f \in Lsn,
           AdvanceAccepted(c, n, f)
    PROVE  /\ f >= consumers[c].frontier
           /\ consumers[c].next + n <= next
           /\ Kind = "source" => f = consumers[c].frontier \/ f <= published
           /\ Kind = "operator" =>
                \/ f = consumers[c].frontier
                \/ /\ n = 1 /\ consumers[c].next \in 1 .. (next - 1)
                   /\ log[consumers[c].next].kind = "frontier"
                   /\ log[consumers[c].next].lsn = f
           /\ \A i \in (consumers[c].next + n) .. (next - 1) :
                \/ log[i].lsn > f
                \/ Kind = "source" /\ log[i].lsn <= consumers[c].activation
<1> DEFINE k == consumers[c].next
<1>1. /\ k \in 1 .. next /\ k + n <= next /\ f \in Nat /\ f >= consumers[c].frontier
      /\ k .. (k + n - 1) \subseteq Retained
  BY LsnTypes, StreamAssumption DEF AdvanceAccepted, Lsn
<1>2. /\ Retained = first .. (next - 1) /\ k \in first .. next /\ first \in 1 .. next
      /\ \A i \in Retained : chunks[i] = log[i]
  BY DEF FrontierInv, StorageInv, UnreadRetained, TypeOK
<1> HIDE DEF k
<1>3. CASE Kind = "source"
  <2>1. /\ f > consumers[c].frontier => f <= published
        /\ SkipsNoChunk(k + n, f)
    BY <1>3 DEF AdvanceAccepted, k
  <2>2. f = consumers[c].frontier \/ f <= published
    BY <1>1, <2>1, LsnTypes
  <2>3. ASSUME NEW i \in (k + n) .. (next - 1)
        PROVE  log[i].lsn > f
    <3> DEFINE later == {j \in Retained : j >= k + n}
    <3>1. k + n \in later /\ later \in SUBSET Nat /\ i \in 1 .. (next - 1) /\ k + n \in 1 .. (next - 1)
      BY <1>1, <1>2, <2>3, LsnTypes, SMTT(30)
    <3>2. Min(later) = k + n
      <4>1. Min(later) \in later /\ Min(later) <= k + n
        BY <3>1, MinOfNats
      <4> QED  BY <3>1, <4>1
    <3>3. chunks[k + n].lsn > f /\ chunks[k + n] = log[k + n]
      BY <1>2, <2>1, <3>1, <3>2 DEF SkipsNoChunk
    <3>4. log[k + n].lsn <= log[i].lsn
      BY <1>1, <1>3, <2>3, <3>1, LsnTypes DEF FrontierInv, LsnsSound
    <3> QED  BY <1>1, <3>1, <3>3, <3>4, LsnTypes
  <2> QED  BY <1>1, <1>3, <2>2, <2>3 DEF k
<1>4. CASE Kind = "operator"
  <2> DEFINE read == {j \in k .. (k + n - 1) : chunks[j].kind = "frontier"}
             S == {consumers[c].frontier} \cup {chunks[j].lsn : j \in read}
  <2>1. f = Max(S)
    BY <1>4 DEF AdvanceAccepted, DerivedFrontier, k
  <2>2. \A j \in read : j = k /\ n = 1 /\ k \in 1 .. (next - 1) /\ chunks[j] = log[k]
    BY <1>1, <1>2
  <2>3. \A j \in read : chunks[j].lsn \in 0 .. MaxLsn
    <3>1. \A j \in 1 .. (next - 1) : log[j].lsn \in 0 .. MaxLsn
      <4>1. \A j \in 1 .. (next - 1) : log[j].lsn \in 1 .. wal
        BY LsnTypes DEF FrontierInv, LsnsSound
      <4>2. wal \in 0 .. MaxLsn
        BY DEF FrontierInv, StorageInv, TypeOK, Lsn
      <4> QED  BY <4>1, <4>2, StreamAssumption
    <3> QED  BY <2>2, <3>1
  <2>4. S \in SUBSET (0 .. MaxLsn) /\ S # {}
    <3>1. consumers[c].frontier \in 0 .. MaxLsn
      BY DEF FrontierInv, StorageInv, TypeOK, Cursor, Lsn
    <3> QED  BY <2>3, <3>1
  <2>5. f \in S
    BY <2>1, <2>4, BoundedMax, StreamAssumption
  <2>6. \/ f = consumers[c].frontier
        \/ /\ n = 1 /\ k \in 1 .. (next - 1)
           /\ log[k].kind = "frontier" /\ log[k].lsn = f
    BY <2>2, <2>5
  <2>7. ASSUME NEW i \in (k + n) .. (next - 1) PROVE log[i].lsn > f
    <3>1. i \in k .. (next - 1) /\ i \in 1 .. (next - 1)
      BY <1>1, <2>7, LsnTypes
    <3>2. log[i].lsn > consumers[c].frontier
      BY <1>4, <3>1 DEF FrontierInv, ConsumerFrontierSound, k
    <3>3. CASE n = 1 /\ k \in 1 .. (next - 1) /\ log[k].kind = "frontier" /\ log[k].lsn = f
      <4>1. i \in (k + 1) .. Len(log) /\ k \in 1 .. Len(log)
        BY <1>1, <2>7, <3>3, LsnTypes
      <4> QED  BY <3>3, <4>1 DEF FrontierInv, FrontierPromise
    <3> QED  BY <2>6, <3>2, <3>3
  <2> QED  BY <1>1, <1>4, <2>6, <2>7 DEF k
<1> QED  BY <1>3, <1>4, StreamAssumption

\* advance_effect_stream_consumer keeps the frontier invariant.
LEMMA FrontierConsume ==
    ASSUME FrontierInv, NEW c \in Consumers, Consume(c)
    PROVE  FrontierInv'
<1>1. PICK n \in 0 .. 1, f \in Lsn : c \in Attached /\ Advance(c, n, f)
  BY DEF Consume
<1>2. StorageInv'
  BY StorageConsume DEF FrontierInv
<1>3. UNCHANGED <<next, latestData, frontier, wal, published, log>>
  BY <1>1 DEF Advance, streamVars, envVars, history
<1>4. /\ Attached' = Attached
      /\ \A d \in Attached : d # c => consumers'[d] = consumers[d]
      /\ consumers'[c] = [next |-> consumers[c].next + n,
                          activation |-> consumers[c].activation, frontier |-> f]
  <2>1. consumers' = [consumers EXCEPT ![c] =
            [next |-> @.next + n, activation |-> @.activation, frontier |-> f]]
    BY <1>1 DEF Advance
  <2> QED  BY <1>1, <2>1 DEF Attached
<1>5. AdvanceAccepted(c, n, f)
  BY <1>1 DEF Advance
<1>6. LsnsSound'
  <2>1. Kind = "source" => \A d \in Attached' :
            /\ consumers'[d].activation <= consumers'[d].frontier
            /\ consumers'[d].activation <= wal'
            /\ \/ consumers'[d].frontier = consumers'[d].activation
               \/ consumers'[d].frontier <= published'
    <3> SUFFICES ASSUME Kind = "source", NEW d \in Attached
                 PROVE  /\ consumers'[d].activation <= consumers'[d].frontier
                        /\ consumers'[d].activation <= wal
                        /\ \/ consumers'[d].frontier = consumers'[d].activation
                           \/ consumers'[d].frontier <= published
      BY <1>3, <1>4
    <3>1. /\ consumers[d].activation <= consumers[d].frontier
          /\ consumers[d].activation <= wal
          /\ \/ consumers[d].frontier = consumers[d].activation
             \/ consumers[d].frontier <= published
      BY DEF FrontierInv, LsnsSound
    <3>2. CASE d # c
      BY <1>4, <3>1, <3>2
    <3>3. CASE d = c
      <4>1. f >= consumers[c].frontier /\ (f = consumers[c].frontier \/ f <= published)
        BY <1>1, <1>5, AdvancedFrontier
      <4>2. f \in Nat
        BY <1>1, StreamAssumption DEF Lsn
      <4> QED  BY <1>1, <1>4, <3>1, <3>3, <4>1, <4>2, LsnTypes, SMTT(30)
    <3> QED  BY <3>2, <3>3
  <2>2. Kind = "operator" => \A d \in Attached' :
            \/ consumers'[d].frontier = 0
            \/ \E i \in 1 .. (consumers'[d].next - 1) :
                  log'[i].kind = "frontier" /\ log'[i].lsn = consumers'[d].frontier
    <3> SUFFICES ASSUME Kind = "operator", NEW d \in Attached
                 PROVE  \/ consumers'[d].frontier = 0
                        \/ \E i \in 1 .. (consumers'[d].next - 1) :
                              log[i].kind = "frontier" /\ log[i].lsn = consumers'[d].frontier
      BY <1>3, <1>4
    <3>1. \/ consumers[d].frontier = 0
          \/ \E i \in 1 .. (consumers[d].next - 1) :
                log[i].kind = "frontier" /\ log[i].lsn = consumers[d].frontier
      BY DEF FrontierInv, LsnsSound
    <3>2. CASE d # c
      BY <1>4, <3>1, <3>2
    <3>3. CASE d = c
      <4>1. consumers'[c].frontier = f /\ consumers'[c].next = consumers[c].next + n
        BY <1>4
      <4>2. 1 .. (consumers[c].next - 1) \subseteq 1 .. (consumers[c].next + n - 1)
        BY <1>1, LsnTypes
      <4>3. CASE f = consumers[c].frontier
        <5>1. CASE consumers[c].frontier = 0
          BY <3>3, <4>1, <4>3, <5>1
        <5>2. CASE \E i \in 1 .. (consumers[c].next - 1) :
                      log[i].kind = "frontier" /\ log[i].lsn = consumers[c].frontier
          <6>1. PICK i \in 1 .. (consumers[c].next - 1) :
                    log[i].kind = "frontier" /\ log[i].lsn = consumers[c].frontier
            BY <5>2
          <6>2. i \in 1 .. (consumers'[c].next - 1)
            <7>1. i \in 1 .. (consumers[c].next + n - 1)
              BY <4>2, <6>1
            <7>2. consumers'[c].next - 1 = consumers[c].next + n - 1
              BY <4>1, <1>1, LsnTypes, SMTT(30)
            <7> QED  BY <7>1, <7>2
          <6> QED  BY <3>3, <4>1, <4>3, <6>1, <6>2
        <5> QED  BY <3>1, <3>3, <5>1, <5>2
      <4>4. CASE /\ n = 1 /\ consumers[c].next \in 1 .. (next - 1)
                 /\ log[consumers[c].next].kind = "frontier"
                 /\ log[consumers[c].next].lsn = f
        <5>1. consumers[c].next \in 1 .. (consumers[c].next + n - 1)
          BY <4>4
        <5> QED  BY <3>3, <4>1, <4>4, <5>1
      <4> QED  BY <1>1, <1>5, <4>3, <4>4, AdvancedFrontier
    <3> QED  BY <3>2, <3>3
  <2> QED  BY <1>3, <2>1, <2>2 DEF FrontierInv, LsnsSound
<1>7. FrontierPromise'
  BY <1>3 DEF FrontierInv, FrontierPromise
<1>8. ConsumerFrontierSound'
  <2> SUFFICES ASSUME NEW d \in Attached, NEW i \in consumers'[d].next .. (next - 1)
               PROVE  \/ log[i].lsn > consumers'[d].frontier
                      \/ Kind = "source" /\ log[i].lsn <= consumers'[d].activation
    BY <1>3, <1>4 DEF ConsumerFrontierSound
  <2>1. CASE d # c
    BY <1>4, <2>1 DEF FrontierInv, ConsumerFrontierSound
  <2>2. CASE d = c
    <3>1. i \in (consumers[c].next + n) .. (next - 1)
      BY <1>4, <2>2
    <3>2. \/ log[i].lsn > f
          \/ Kind = "source" /\ log[i].lsn <= consumers[c].activation
      BY <1>1, <1>5, <3>1, AdvancedFrontier
    <3> QED  BY <1>4, <2>2, <3>2
  <2> QED  BY <2>1, <2>2
<1> QED  BY <1>2, <1>6, <1>7, <1>8 DEF FrontierInv

\* A consumer attached to a source stream keeps the frontier invariant.
LEMMA FrontierAttach ==
    ASSUME FrontierInv, NEW c \in Consumers, Attach(c)
    PROVE  FrontierInv'
<1>1. StorageInv'
  BY StorageAttach DEF FrontierInv
<1>2. Kind = "source" /\ UNCHANGED <<next, latestData, frontier, wal, published, log>>
  BY DEF Attach, streamVars, envVars, history
<1>3. /\ Attached' = Attached \cup {c}
      /\ consumers'[c] = [next |-> next, activation |-> wal, frontier |-> wal]
      /\ \A d \in Attached : consumers'[d] = consumers[d]
  <2>1. /\ c \notin Attached
        /\ consumers' = [d \in Attached \cup {c} |->
              IF d = c THEN [next |-> next, activation |-> wal, frontier |-> wal] ELSE consumers[d]]
    BY <1>2 DEF Attach, AttachedCursor
  <2>2. Attached' = Attached \cup {c}
    BY <2>1 DEF Attached
  <2> QED  BY <2>1, <2>2
<1>4. /\ consumers'[c].next = next /\ consumers'[c].activation = wal /\ consumers'[c].frontier = wal
  BY <1>3
<1>5. LsnsSound'
  <2>1. \A d \in Attached' :
            /\ consumers'[d].activation <= consumers'[d].frontier
            /\ consumers'[d].activation <= wal'
            /\ \/ consumers'[d].frontier = consumers'[d].activation
               \/ consumers'[d].frontier <= published'
    BY <1>2, <1>3, <1>4, LsnTypes DEF FrontierInv, LsnsSound
  <2> QED  BY <1>2, <2>1 DEF FrontierInv, LsnsSound
<1>6. FrontierPromise'
  BY <1>2 DEF FrontierInv, FrontierPromise
<1>7. ConsumerFrontierSound'
  <2>1. next .. (next - 1) = {}
    BY LsnTypes
  <2> QED  BY <1>2, <1>3, <1>4, <2>1 DEF FrontierInv, ConsumerFrontierSound
<1> QED  BY <1>1, <1>5, <1>6, <1>7 DEF FrontierInv

\* Removing a consumer keeps the frontier invariant.
LEMMA FrontierDetach ==
    ASSUME FrontierInv, NEW c \in Consumers, Detach(c)
    PROVE  FrontierInv'
<1>1. StorageInv'
  BY StorageDetach DEF FrontierInv
<1>2. /\ Kind = "source" /\ UNCHANGED <<wal, published>>
      /\ Attached' = Attached \ {c}
      /\ \A d \in Attached' : consumers'[d] = consumers[d]
  <2>1. consumers' = [d \in Attached \ {c} |-> consumers[d]]
    BY DEF Detach
  <2>2. Attached' = Attached \ {c}
    BY <2>1 DEF Attached
  <2> QED  BY <2>1, <2>2 DEF Detach, envVars
<1>3. CASE Attached # {c}
  <2>1. UNCHANGED <<next, latestData, frontier, log>>
    BY <1>3 DEF Detach, streamVars, history
  <2> QED  BY <1>1, <1>2, <2>1 DEF FrontierInv, LsnsSound, FrontierPromise, ConsumerFrontierSound
<1>4. CASE Attached = {c}
  <2>1. log' = <<>> /\ next' = 1 /\ latestData' = 0 /\ frontier' = 0 /\ Attached' = {}
    BY <1>2, <1>4 DEF Detach, DropStream
  <2>2. LsnsSound'
    BY <1>2, <2>1, LsnTypes DEF LsnsSound
  <2>3. FrontierPromise' /\ ConsumerFrontierSound'
    BY <2>1 DEF FrontierPromise, ConsumerFrontierSound
  <2> QED  BY <1>1, <2>2, <2>3 DEF FrontierInv
<1> QED  BY <1>3, <1>4

\* Garbage collection, the write-ahead log and the published frontier keep
\* the frontier invariant.
LEMMA FrontierOther ==
    ASSUME FrontierInv, Gc \/ WriteWal \/ PublishFrontier \/ UNCHANGED vars
    PROVE  FrontierInv'
<1>1. StorageInv'
  BY StorageGc, StorageEnvironment DEF FrontierInv
<1>2. UNCHANGED <<next, latestData, frontier, consumers, log>>
  BY DEF Gc, WriteWal, PublishFrontier, vars, streamVars, history
<1>3. wal' \in Nat /\ wal' >= wal /\ published' \in Nat /\ published' >= published
  <2>1. CASE Gc \/ UNCHANGED vars
    BY <2>1, LsnTypes DEF Gc, vars, envVars
  <2>2. CASE WriteWal
    BY <2>2, LsnTypes DEF WriteWal
  <2>3. CASE PublishFrontier
    <3>1. PICK l \in (published + 1) .. wal : published' = l
      BY <2>3 DEF PublishFrontier
    <3>2. wal' = wal
      BY <2>3 DEF PublishFrontier
    <3> QED  BY <3>1, <3>2, LsnTypes
  <2> QED  BY <2>1, <2>2, <2>3
<1>4. LsnsSound'
  <2>1. \A i \in 1 .. Len(log') :
          /\ log'[i].lsn \in 1 .. wal'
          /\ log'[i].kind = "data" => log'[i].lsn <= latestData'
          /\ log'[i].kind = "frontier" => Kind = "operator" /\ log'[i].lsn <= frontier'
    <3>1. \A i \in 1 .. Len(log) : log[i].lsn \in 1 .. wal'
      BY <1>3, LsnTypes DEF FrontierInv, LsnsSound
    <3> QED  BY <1>2, <3>1 DEF FrontierInv, LsnsSound
  <2>2. latestData' <= wal' /\ frontier' <= wal'
    BY <1>2, <1>3, LsnTypes DEF FrontierInv, LsnsSound
  <2>3. Kind = "source" => \A d \in Attached' :
            /\ consumers'[d].activation <= consumers'[d].frontier
            /\ consumers'[d].activation <= wal'
            /\ \/ consumers'[d].frontier = consumers'[d].activation
               \/ consumers'[d].frontier <= published'
    BY <1>2, <1>3, LsnTypes DEF FrontierInv, LsnsSound, Attached
  <2> QED  BY <1>2, <2>1, <2>2, <2>3 DEF FrontierInv, LsnsSound, Attached
<1>5. FrontierPromise' /\ ConsumerFrontierSound'
  BY <1>2 DEF FrontierInv, FrontierPromise, ConsumerFrontierSound, Attached
<1> QED  BY <1>1, <1>4, <1>5 DEF FrontierInv

\* Every step keeps the frontier invariant.
LEMMA FrontierStep == FrontierInv /\ [Next]_vars => FrontierInv'
<1> SUFFICES ASSUME FrontierInv, [Next]_vars PROVE FrontierInv'
  OBVIOUS
<1>1. CASE AppendData \/ AppendFrontier
  <2>1. PICK c : Appended(c)
    BY <1>1, AppendsInsert DEF FrontierInv, StorageInv
  <2> QED  BY <2>1, FrontierAppend
<1>2. CASE Gc \/ WriteWal \/ PublishFrontier \/ UNCHANGED vars
  BY <1>2, FrontierOther
<1>3. ASSUME NEW c \in Consumers, Attach(c) PROVE FrontierInv'
  BY <1>3, FrontierAttach
<1>4. ASSUME NEW c \in Consumers, Detach(c) PROVE FrontierInv'
  BY <1>4, FrontierDetach
<1>5. ASSUME NEW c \in Consumers, Consume(c) PROVE FrontierInv'
  BY <1>5, FrontierConsume
<1> QED  BY <1>1, <1>2, <1>3, <1>4, <1>5 DEF Next

\* The frontier invariant holds in every reachable state.
LEMMA FrontierInvariance == Spec => []FrontierInv
BY FrontierInit, FrontierStep, PTL DEF Spec

\* A published causal frontier is never contradicted by later data
\* (append_effect_stream_chunk), and advance_effect_stream_consumer never lets a
\* consumer's durable frontier cover a chunk that it has not read or that the
\* producer may still append.
THEOREM FrontierSafe == Spec => []FrontiersSound
<1>1. ASSUME FrontierInv PROVE FrontiersSound
  <2>1. FrontierPromise /\ ConsumerFrontierSound
    BY <1>1 DEF FrontierInv
  <2>2. \A l \in 1 .. MaxLsn : l \in Nat /\ l >= 1
    BY StreamAssumption
  <2>3. NoDataBelowFrontier
    BY <1>1, <2>2, AcceptedAboveFrontiers DEF NoDataBelowFrontier
  <2> QED  BY <2>1, <2>3 DEF FrontiersSound
<1> QED  BY <1>1, FrontierInvariance, PTL
-----------------------------------------------------------------------------
(* Readers see an append-only log *)

\* A cursor advance hands over at most the one entry at the cursor.
LEMMA FanoutConsume ==
    ASSUME StorageInv, NEW c \in Consumers, Consume(c)
    PROVE  Fanout!Read(c) \/ UNCHANGED Fanout!vars
<1> DEFINE pos == [d \in Attached |-> consumers[d].next]
<1>1. PICK n \in 0 .. 1, f \in Lsn : c \in Attached /\ Advance(c, n, f)
  BY DEF Consume
<1>2. UNCHANGED log
  BY <1>1 DEF Advance, history
<1>3. /\ consumers[c].next + n <= next
      /\ consumers[c].next .. (consumers[c].next + n - 1) \subseteq Retained
  BY <1>1 DEF Advance, AdvanceAccepted
<1>4. /\ next \in Nat /\ consumers[c].next \in Nat \ {0} /\ Len(log) = next - 1
      /\ \A i \in Retained : chunks[i] = log[i]
      /\ delivered \in [Attached -> Seq(Chunk)]
  BY <1>1 DEF StorageInv, TypeOK, UnreadRetained, Cursor
<1>5. /\ Attached' = Attached
      /\ \A d \in Attached : d # c => consumers'[d].next = consumers[d].next
      /\ consumers'[c].next = consumers[c].next + n
  <2>1. consumers' = [consumers EXCEPT ![c] =
            [next |-> @.next + n, activation |-> @.activation, frontier |-> f]]
    BY <1>1 DEF Advance
  <2> QED  BY <1>1, <2>1 DEF Attached
<1>6. pos' = [pos EXCEPT ![c] = @ + n]
  BY <1>1, <1>5
<1>7. delivered' = [delivered EXCEPT ![c] =
          @ \o [i \in 1 .. n |-> chunks[consumers[c].next + i - 1]]]
  BY <1>1 DEF Advance
<1>8. CASE n = 0
  <2>1. pos' = pos
    <3>1. \A d \in Attached : consumers'[d].next = consumers[d].next
      BY <1>4, <1>5, <1>8
    <3> QED  BY <1>5, <3>1
  <2>2. delivered[c] \o [i \in 1 .. n |-> chunks[consumers[c].next + i - 1]] = delivered[c]
    <3>1. [i \in 1 .. 0 |-> chunks[consumers[c].next + i - 1]] = <<>>
      OBVIOUS
    <3>2. delivered[c] \in Seq(Chunk)
      BY <1>1, <1>4
    <3>3. delivered[c] \o <<>> = delivered[c]
      BY <3>2
    <3> QED  BY <1>8, <3>1, <3>3
  <2>3. delivered' = delivered
    BY <1>1, <1>4, <1>7, <2>2
  <2> QED  BY <1>2, <2>1, <2>3 DEF Fanout!vars
<1>9. CASE n = 1
  <2> DEFINE k == consumers[c].next
  <2>1. k \in 1 .. Len(log) /\ chunks[k] = log[k]
    BY <1>3, <1>4, <1>9
  <2>2. pos[c] = k /\ c \in DOMAIN pos
    BY <1>1
  <2>3. delivered[c] \o [i \in 1 .. n |-> chunks[k + i - 1]] = Append(delivered[c], log[k])
    <3>1. [i \in 1 .. 1 |-> chunks[k + i - 1]] = <<chunks[k]>>
      BY <1>4
    <3>2. delivered[c] \in Seq(Chunk) /\ log[k] \in Chunk
      <4>1. log \in Seq(Chunk)
        BY DEF StorageInv, TypeOK
      <4> QED  BY <1>1, <1>4, <2>1, <4>1
    <3>3. delivered[c] \o <<log[k]>> = Append(delivered[c], log[k])
      BY <3>2
    <3> QED  BY <1>9, <2>1, <3>1, <3>3
  <2>4. delivered' = [delivered EXCEPT ![c] = Append(@, log[pos[c]])]
    BY <1>1, <1>4, <1>7, <2>2, <2>3
  <2>5. pos[c] \in 1 .. Len(log) /\ pos' = [pos EXCEPT ![c] = @ + 1]
    BY <1>6, <1>9, <2>1, <2>2
  <2> QED  BY <1>2, <2>2, <2>4, <2>5 DEF Fanout!Read, Fanout!Joined
<1> QED  BY <1>1, <1>8, <1>9

\* Every step of the stream is a step of the abstract log, or leaves it alone.
LEMMA FanoutStep == StorageInv /\ [Next]_vars => [Fanout!Next]_(Fanout!vars)
<1> SUFFICES ASSUME StorageInv, [Next]_vars
             PROVE  Fanout!Next \/ UNCHANGED Fanout!vars
  BY DEF Fanout!vars
<1> DEFINE pos == [d \in Attached |-> consumers[d].next]
<1>1. CASE AppendData \/ AppendFrontier
  <2>1. PICK c : Appended(c)
    BY <1>1, AppendsInsert DEF StorageInv
  <2>2. c \in Chunk /\ log' = Append(log, c) /\ UNCHANGED <<consumers, delivered>>
    BY <2>1 DEF Appended, InsertChunk
  <2>3. pos' = pos
    BY <2>2 DEF Attached
  <2>4. Fanout!Write(c)
    BY <2>2, <2>3 DEF Fanout!Write
  <2> QED  BY <2>2, <2>4 DEF Fanout!Next
<1>2. CASE Gc \/ WriteWal \/ PublishFrontier \/ UNCHANGED vars
  <2>1. UNCHANGED <<consumers, log, delivered>>
    BY <1>2 DEF Gc, WriteWal, PublishFrontier, vars, history
  <2>2. pos' = pos
    BY <2>1 DEF Attached
  <2> QED  BY <2>1, <2>2 DEF Fanout!vars
<1>3. ASSUME NEW c \in Consumers, Attach(c) PROVE Fanout!Join(c)
  <2>1. /\ c \notin Attached /\ UNCHANGED log
        /\ consumers' = [d \in Attached \cup {c} |->
              IF d = c THEN AttachedCursor(wal) ELSE consumers[d]]
        /\ delivered' = [d \in Attached \cup {c} |-> IF d = c THEN <<>> ELSE delivered[d]]
    BY <1>3 DEF Attach, history
  <2>2. Attached' = Attached \cup {c}
    BY <2>1 DEF Attached
  <2>3. AttachedCursor(wal).next = Len(log) + 1
    BY <1>3 DEF Attach, AttachedCursor, StorageInv, TypeOK
  <2>4. \A d \in Attached \cup {c} : consumers'[d].next =
            IF d = c THEN Len(log) + 1 ELSE consumers[d].next
    BY <2>1, <2>3
  <2>5. pos' = [d \in Attached \cup {c} |-> IF d = c THEN Len(log) + 1 ELSE pos[d]]
    BY <2>1, <2>2, <2>4
  <2>6. DOMAIN pos = Attached
    OBVIOUS
  <2> QED  BY <1>3, <2>1, <2>5, <2>6 DEF Fanout!Join, Fanout!Joined
<1>4. ASSUME NEW c \in Consumers, Detach(c) PROVE Fanout!Leave(c)
  <2>1. /\ c \in Attached
        /\ consumers' = [d \in Attached \ {c} |-> consumers[d]]
        /\ delivered' = [d \in Attached \ {c} |-> delivered[d]]
        /\ log' = IF Attached = {c} THEN <<>> ELSE log
    BY <1>4 DEF Detach, DropStream, history
  <2>2. Attached' = Attached \ {c}
    BY <2>1 DEF Attached
  <2>3. pos' = [d \in Attached \ {c} |-> pos[d]] /\ DOMAIN pos = Attached
    BY <2>1, <2>2
  <2> QED  BY <2>1, <2>3 DEF Fanout!Leave, Fanout!Joined
<1>5. ASSUME NEW c \in Consumers, Consume(c)
      PROVE  Fanout!Next \/ UNCHANGED Fanout!vars
  BY <1>5, FanoutConsume DEF Fanout!Next
<1> QED  BY <1>1, <1>2, <1>3, <1>4, <1>5 DEF Next, Fanout!Next

\* An EffectStream implements the append-only log its readers rely on: every
\* step is an append, a join at the tail, the hand-over of exactly the next
\* entry, a departure, or invisible.
THEOREM ImplementsFanoutLog == Spec => RefinesFanoutLog
<1>1. Init => Fanout!Init
  <2> SUFFICES ASSUME Init PROVE Fanout!Init
    OBVIOUS
  <2>1. /\ Attached \subseteq Consumers
        /\ \A c \in Attached : consumers[c].next = 1
    BY StorageInit DEF StorageInv, TypeOK, UnreadRetained, Init
  <2>2. log = <<>> /\ delivered = [c \in Attached |-> <<>>]
    BY DEF Init
  <2> DEFINE pos == [d \in Attached |-> consumers[d].next]
  <2>3. DOMAIN pos = Attached /\ pos = [d \in Attached |-> 1]
    BY <2>1
  <2> QED  BY <2>1, <2>2, <2>3 DEF Fanout!Init, Fanout!Joined
<1> QED  BY <1>1, FanoutStep, StorageInvariance, PTL DEF Spec, Fanout!Spec, RefinesFanoutLog
-----------------------------------------------------------------------------
(* Delivery *)

\* The part of the log handed to a consumer ends at its cursor, and what came
\* before it is backlog.
Handed(got, cursor, entries) ==
    LET start == cursor.next - Len(got)
    IN  /\ start >= 1
        /\ \A i \in 1 .. Len(got) : got[i] = entries[start + i - 1]
        /\ \A i \in 1 .. (start - 1) : entries[i].lsn <= cursor.activation

\* Delivery is inductive together with retention and the LSNs of the log.
DeliveryInv == FrontierInv /\ \A c \in Attached : Handed(delivered[c], consumers[c], log)

\* What is delivered is as long as the cursor has moved, and is taken from the
\* log that is there.
LEMMA DeliveredTypes ==
    ASSUME DeliveryInv, NEW c \in Attached
    PROVE  /\ Len(delivered[c]) \in Nat /\ delivered[c] \in Seq(Chunk)
           /\ consumers[c].next \in 1 .. next /\ next \in Nat /\ Len(log) = next - 1
           /\ consumers[c].next - Len(delivered[c]) >= 1
<1>1. delivered[c] \in Seq(Chunk)
  BY DEF DeliveryInv, FrontierInv, StorageInv, TypeOK
<1>2. consumers[c].next - Len(delivered[c]) >= 1
  BY DEF DeliveryInv, Handed
<1> QED  BY <1>1, <1>2, LsnTypes DEF DeliveryInv

\* No consumer has been handed anything in the initial state.
LEMMA DeliveryInit == Init => DeliveryInv
<1> SUFFICES ASSUME Init PROVE DeliveryInv
  OBVIOUS
<1>1. FrontierInv
  BY FrontierInit
<1>2. \A c \in Attached : delivered[c] = <<>> /\ consumers[c].next = 1
  <2>1. next = 1 /\ \A c \in Attached : delivered[c] = <<>>
    BY DEF Init
  <2> QED  BY <1>1, <2>1, LsnTypes
<1> QED  BY <1>1, <1>2 DEF DeliveryInv, Handed

\* A log that only grows, under unchanged cursors, keeps what was delivered.
LEMMA DeliveryKept ==
    ASSUME DeliveryInv, NEW c \in Attached, consumers'[c] = consumers[c],
           delivered'[c] = delivered[c], \A i \in 1 .. (next - 1) : log'[i] = log[i]
    PROVE  Handed(delivered[c], consumers[c], log)'
<1> DEFINE got == delivered[c]
           start == consumers[c].next - Len(got)
<1>1. /\ Len(got) \in Nat /\ consumers[c].next \in 1 .. next /\ next \in Nat /\ start >= 1
  BY DeliveredTypes
<1>2. /\ \A i \in 1 .. Len(got) : got[i] = log[start + i - 1]
      /\ \A i \in 1 .. (start - 1) : log[i].lsn <= consumers[c].activation
  BY DEF DeliveryInv, Handed
<1>3. \A i \in 1 .. Len(got) : start + i - 1 \in 1 .. (next - 1)
  BY <1>1, SMTT(30)
<1>4. \A i \in 1 .. (start - 1) : i \in 1 .. (next - 1)
  BY <1>1
<1> HIDE DEF start
<1>5. /\ \A i \in 1 .. Len(got) : got[i] = log'[start + i - 1]
      /\ \A i \in 1 .. (start - 1) : log'[i].lsn <= consumers[c].activation
  BY <1>2, <1>3, <1>4
<1> QED  BY <1>1, <1>5 DEF Handed, start

\* advance_effect_stream_consumer hands over the chunk at the cursor: it is
\* still stored, and unchanged.
LEMMA DeliveryConsume ==
    ASSUME DeliveryInv, NEW c \in Consumers, Consume(c)
    PROVE  DeliveryInv'
<1>1. PICK n \in 0 .. 1, f \in Lsn : c \in Attached /\ Advance(c, n, f)
  BY DEF Consume
<1>2. FrontierInv'
  BY FrontierConsume DEF DeliveryInv
<1>3. /\ UNCHANGED log
      /\ consumers' = [consumers EXCEPT ![c] =
            [next |-> @.next + n, activation |-> @.activation, frontier |-> f]]
      /\ delivered' = [delivered EXCEPT ![c] =
            @ \o [i \in 1 .. n |-> chunks[consumers[c].next + i - 1]]]
  BY <1>1 DEF Advance, history
<1>4. Attached' = Attached
  BY <1>3 DEF Attached
<1>5. DOMAIN delivered = Attached /\ \A i \in Retained : chunks[i] = log[i]
  BY DEF DeliveryInv, FrontierInv, StorageInv, TypeOK, UnreadRetained
<1>6. ASSUME NEW d \in Attached, d # c PROVE Handed(delivered[d], consumers[d], log)'
  <2>1. consumers'[d] = consumers[d]
    BY <1>3, <1>6 DEF Attached
  <2>2. delivered'[d] = delivered[d]
    BY <1>3, <1>5, <1>6
  <2> QED  BY <1>3, <2>1, <2>2, DeliveryKept
<1>7. Handed(delivered[c], consumers[c], log)'
  <2> DEFINE got == delivered[c]
             k == consumers[c].next
             start == k - Len(got)
             read == [i \in 1 .. n |-> chunks[k + i - 1]]
  <2>1. /\ Len(got) \in Nat /\ k \in 1 .. next /\ next \in Nat /\ start >= 1
        /\ got \in Seq(Chunk)
    BY <1>1, DeliveredTypes
  <2>2. /\ \A i \in 1 .. Len(got) : got[i] = log[start + i - 1]
        /\ \A i \in 1 .. (start - 1) : log[i].lsn <= consumers[c].activation
    BY <1>1 DEF DeliveryInv, Handed
  <2>3. k .. (k + n - 1) \subseteq Retained
    BY <1>1 DEF Advance, AdvanceAccepted
  <2>4. \A i \in 1 .. n : read[i] = log[k + i - 1]
    <3>1. \A i \in 1 .. n : k + i - 1 \in k .. (k + n - 1)
      BY <2>1
    <3> QED  BY <1>5, <2>3, <3>1
  <2>5. read \in Seq({log[k + i - 1] : i \in 1 .. n}) /\ Len(read) = n
    BY <2>4
  <2> DEFINE E == Chunk \cup {log[k + i - 1] : i \in 1 .. n}
  <2>6. got \in Seq(E) /\ read \in Seq(E)
    <3>1. \A i \in 1 .. Len(got) : got[i] \in Chunk
      BY <2>1
    <3> QED  BY <2>1, <2>4, <2>5, <3>1
  <2> HIDE DEF read, E
  <2>7. /\ Len(got \o read) = Len(got) + n
        /\ \A i \in 1 .. Len(got) + n : (got \o read)[i] =
              IF i <= Len(got) THEN got[i] ELSE read[i - Len(got)]
    BY <2>1, <2>5, <2>6, ConcatProperties
  <2>8. /\ delivered'[c] = got \o read /\ consumers'[c].next = k + n
        /\ consumers'[c].activation = consumers[c].activation
    <3>1. delivered'[c] = got \o read
      BY <1>1, <1>3, <1>5 DEF read
    <3>2. /\ consumers'[c].next = k + n
          /\ consumers'[c].activation = consumers[c].activation
      BY <1>1, <1>3 DEF Attached
    <3> QED  BY <3>1, <3>2
  <2>9. ASSUME NEW i \in 1 .. Len(got) + n PROVE (got \o read)[i] = log[start + i - 1]
    <3>1. CASE i <= Len(got)
      BY <2>1, <2>2, <2>7, <3>1
    <3>2. CASE ~(i <= Len(got))
      <4>1. i - Len(got) \in 1 .. n /\ k + (i - Len(got)) - 1 = start + i - 1
        BY <2>1, <3>2
      <4>2. (got \o read)[i] = read[i - Len(got)]
        BY <2>7, <3>2
      <4> HIDE DEF start
      <4> QED  BY <2>4, <4>1, <4>2
    <3> QED  BY <3>1, <3>2
  <2>10. (k + n) - Len(got \o read) = start
    BY <2>1, <2>7, SMTT(30)
  <2> HIDE DEF start, k, got
  <2> QED  BY <1>3, <2>1, <2>2, <2>7, <2>8, <2>9, <2>10 DEF Handed
<1> QED  BY <1>2, <1>4, <1>6, <1>7 DEF DeliveryInv

\* Every step keeps what was delivered: a consumer that attaches starts at the
\* tail, and every chunk before it committed at or before its activation.
LEMMA DeliveryStep == DeliveryInv /\ [Next]_vars => DeliveryInv'
<1> SUFFICES ASSUME DeliveryInv, [Next]_vars PROVE DeliveryInv'
  OBVIOUS
<1>1. FrontierInv /\ FrontierInv'
  BY FrontierStep DEF DeliveryInv
<1>2. CASE AppendData \/ AppendFrontier
  <2>1. PICK c : Appended(c)
    BY <1>1, <1>2, AppendsInsert DEF FrontierInv, StorageInv
  <2>2. UNCHANGED <<consumers, delivered>> /\ \A i \in 1 .. (next - 1) : log'[i] = log[i]
    BY <1>1, <2>1, AppendEffect DEF FrontierInv, Appended, InsertChunk
  <2>3. Attached' = Attached
    BY <2>2 DEF Attached
  <2> QED  BY <1>1, <2>2, <2>3, DeliveryKept DEF DeliveryInv
<1>3. CASE Gc \/ WriteWal \/ PublishFrontier \/ UNCHANGED vars
  <2>1. UNCHANGED <<consumers, delivered, log>>
    BY <1>3 DEF Gc, WriteWal, PublishFrontier, vars, history
  <2>2. Attached' = Attached
    BY <2>1 DEF Attached
  <2> QED  BY <1>1, <2>1, <2>2, DeliveryKept DEF DeliveryInv
<1>4. ASSUME NEW c \in Consumers, Attach(c) PROVE DeliveryInv'
  <2>1. /\ c \notin Attached /\ UNCHANGED log /\ Kind = "source"
        /\ consumers' = [d \in Attached \cup {c} |->
              IF d = c THEN AttachedCursor(wal) ELSE consumers[d]]
        /\ delivered' = [d \in Attached \cup {c} |-> IF d = c THEN <<>> ELSE delivered[d]]
    BY <1>4 DEF Attach, history
  <2>2. Attached' = Attached \cup {c}
    BY <2>1 DEF Attached
  <2>3. ASSUME NEW d \in Attached PROVE Handed(delivered[d], consumers[d], log)'
    BY <2>1, <2>3, DeliveryKept
  <2>4. Handed(delivered[c], consumers[c], log)'
    <3>1. /\ delivered'[c] = <<>> /\ consumers'[c].next = next
          /\ consumers'[c].activation = wal
      BY <2>1 DEF AttachedCursor
    <3>2. \A i \in 1 .. (next - 1) : log[i].lsn <= wal
      <4>1. \A i \in 1 .. Len(log) : log[i].lsn \in 1 .. wal
        BY <1>1 DEF FrontierInv, LsnsSound
      <4> QED  BY <1>1, <4>1, LsnTypes
    <3>3. next \in Nat /\ next >= 1
      BY <1>1, LsnTypes
    <3> QED  BY <2>1, <3>1, <3>2, <3>3 DEF Handed
  <2> QED  BY <1>1, <2>2, <2>3, <2>4 DEF DeliveryInv
<1>5. ASSUME NEW c \in Consumers, Detach(c) PROVE DeliveryInv'
  <2>1. /\ consumers' = [d \in Attached \ {c} |-> consumers[d]]
        /\ delivered' = [d \in Attached \ {c} |-> delivered[d]]
        /\ Attached # {c} => UNCHANGED log
    BY <1>5 DEF Detach, history
  <2>2. Attached' = Attached \ {c}
    BY <2>1 DEF Attached
  <2>3. ASSUME NEW d \in Attached \ {c} PROVE Handed(delivered[d], consumers[d], log)'
    BY <1>5, <2>1, DeliveryKept DEF Detach
  <2> QED  BY <1>1, <2>2, <2>3 DEF DeliveryInv
<1>6. ASSUME NEW c \in Consumers, Consume(c) PROVE DeliveryInv'
  BY <1>6, DeliveryConsume
<1> QED  BY <1>2, <1>3, <1>4, <1>5, <1>6 DEF Next

\* Whatever the interleaving of appends, collections, arrivals and departures,
\* a consumer has been handed the chunks its cursor moved through, in order and
\* without a gap, and what it was not handed committed at or before its
\* activation (attach_effect_stream_consumer, advance_effect_stream_consumer).
THEOREM NothingIsMissed == Spec => []NothingMissed
<1>1. ASSUME DeliveryInv PROVE NothingMissed
  <2> SUFFICES ASSUME NEW c \in Attached
               PROVE  LET start == consumers[c].next - Len(delivered[c])
                      IN  /\ start >= 1
                          /\ delivered[c] = SubSeq(log, start, consumers[c].next - 1)
                          /\ \A i \in 1 .. (start - 1) : log[i].lsn <= consumers[c].activation
    BY DEF NothingMissed
  <2> DEFINE got == delivered[c]
             k == consumers[c].next
             start == k - Len(got)
  <2>1. /\ Len(got) \in Nat /\ got \in Seq(Chunk) /\ k \in 1 .. next /\ next \in Nat
        /\ Len(log) = next - 1 /\ start >= 1
    BY <1>1, DeliveredTypes
  <2>2. /\ \A i \in 1 .. Len(got) : got[i] = log[start + i - 1]
        /\ \A i \in 1 .. (start - 1) : log[i].lsn <= consumers[c].activation
    BY <1>1 DEF DeliveryInv, Handed
  <2>3. log \in Seq(Chunk)
    BY <1>1 DEF DeliveryInv, FrontierInv, StorageInv, TypeOK
  <2>4. /\ (k - 1) - start + 1 = Len(got) /\ start \in 1 .. Len(log) + 1
        /\ k - 1 \in (start - 1) .. Len(log)
    <3>1. k \in Nat /\ k - 1 <= Len(log) /\ Len(log) \in Nat
      BY <2>1
    <3> HIDE DEF got, k
    <3> QED  BY <2>1, <3>1
  <2>5. got = SubSeq(log, start, k - 1)
    <3> HIDE DEF got, k, start
    <3>1. /\ SubSeq(log, start, k - 1) \in Seq(Chunk)
          /\ Len(SubSeq(log, start, k - 1)) = Len(got)
          /\ \A i \in 1 .. Len(got) : SubSeq(log, start, k - 1)[i] = log[start + i - 1]
      BY <2>1, <2>3, <2>4, SubSeqProperties
    <3> QED  BY <2>1, <2>2, <3>1, SeqEqual
  <2> QED  BY <2>1, <2>2, <2>5
<1> QED  BY <1>1, DeliveryInit, DeliveryStep, PTL DEF Spec
-----------------------------------------------------------------------------
(* Accounting *)

\* Each running sum adds the size of one chunk of the log.
TotalsExact ==
    \A i \in 1 .. (next - 1) :
        /\ total[i].rows = total[i - 1].rows + log[i].size.rows
        /\ total[i].bytes = total[i - 1].bytes + log[i].size.bytes

AccountingInv == StorageInv /\ TotalsExact

\* There is nothing to add up in the initial state.
LEMMA AccountingInit == Init => AccountingInv
BY StorageInit DEF Init, AccountingInv, TotalsExact

\* Only an append adds a running sum.
LEMMA AccountingStep == AccountingInv /\ [Next]_vars => AccountingInv'
<1> SUFFICES ASSUME AccountingInv, [Next]_vars PROVE AccountingInv'
  OBVIOUS
<1>1. StorageInv /\ StorageInv' /\ TotalsExact
  BY StorageStep DEF AccountingInv
<1>2. next \in Nat \ {0}
  BY <1>1 DEF StorageInv, TypeOK
<1>3. ASSUME UNCHANGED <<next, log, total>> PROVE TotalsExact'
  BY <1>1, <1>3 DEF TotalsExact
<1>4. CASE AppendData \/ AppendFrontier
  <2>1. PICK c : Appended(c)
    BY <1>1, <1>4, AppendsInsert DEF StorageInv
  <2>2. next' - 1 = next
    BY <1>2, <2>1 DEF Appended, InsertChunk
  <2>3. ASSUME NEW i \in 1 .. next
        PROVE  /\ total'[i].rows = total'[i - 1].rows + log'[i].size.rows
               /\ total'[i].bytes = total'[i - 1].bytes + log'[i].size.bytes
    <3>1. CASE i = next
      <4>1. next - 1 \in 0 .. (next - 1)
        BY <1>2
      <4>2. total'[next - 1] = total[next - 1] /\ log'[next] = c
        BY <1>1, <2>1, <4>1, AppendEffect
      <4> QED  BY <1>1, <2>1, <3>1, <4>2, AppendEffect
    <3>2. CASE i # next
      <4>1. i \in 1 .. (next - 1) /\ i \in 0 .. (next - 1) /\ i - 1 \in 0 .. (next - 1)
        BY <1>2, <3>2
      <4>2. total'[i] = total[i] /\ total'[i - 1] = total[i - 1] /\ log'[i] = log[i]
        BY <1>1, <2>1, <4>1, AppendEffect
      <4> QED  BY <1>1, <4>1, <4>2 DEF TotalsExact
    <3> QED  BY <3>1, <3>2
  <2>4. TotalsExact'
    BY <2>2, <2>3 DEF TotalsExact
  <2> QED  BY <1>1, <2>4 DEF AccountingInv
<1>5. CASE Gc \/ WriteWal \/ PublishFrontier \/ UNCHANGED vars
  BY <1>1, <1>3, <1>5
     DEF Gc, WriteWal, PublishFrontier, vars, history, streamVars, AccountingInv
<1>6. ASSUME NEW c \in Consumers, Attach(c) \/ Consume(c) PROVE AccountingInv'
  <2>1. UNCHANGED <<next, log, total>>
    BY <1>6 DEF Attach, Consume, Advance, history, streamVars
  <2> QED  BY <1>1, <1>3, <2>1 DEF AccountingInv
<1>7. ASSUME NEW c \in Consumers, Detach(c) PROVE AccountingInv'
  <2>1. UNCHANGED <<next, log, total>> \/ next' = 1
    BY <1>7 DEF Detach, DropStream, history, streamVars
  <2> QED  BY <1>1, <1>3, <2>1 DEF AccountingInv, TotalsExact
<1> QED  BY <1>4, <1>5, <1>6, <1>7 DEF Next

\* The sizes of the stored chunks add up to the difference of two running sums.
LEMMA StoredSums ==
    ASSUME AccountingInv
    PROVE  /\ SetSum([i \in Retained |-> chunks[i].size.rows], Retained) = Rows(first, next - 1)
           /\ SetSum([i \in Retained |-> chunks[i].size.bytes], Retained) = Bytes(first, next - 1)
<1>1. /\ next \in Nat \ {0} /\ first \in 1 .. next /\ Retained = first .. (next - 1)
      /\ \A i \in Retained : chunks[i] = log[i]
      /\ total \in [0 .. (next - 1) -> [rows : Nat, bytes : Nat]]
      /\ log \in Seq(Chunk) /\ Len(log) = next - 1
  BY DEF AccountingInv, StorageInv, TypeOK, UnreadRetained
<1> DEFINE n == next - 1
<1>2. n \in Nat /\ first \in 1 .. n + 1 /\ Retained = first .. n /\ IsFiniteSet(Retained)
  BY <1>1, FS_Interval
<1>3. \A i \in 1 .. n : log[i].size.rows \in Nat /\ log[i].size.bytes \in Nat
  BY <1>1, ChunkFields, SMTT(30)
<1>4. \A i \in 0 .. n : total[i].rows \in Int /\ total[i].bytes \in Int
  <2>1. \A i \in 0 .. n : total[i] \in [rows : Nat, bytes : Nat]
    BY <1>1
  <2> QED  BY <2>1
<1>5. \A i \in 1 .. n : /\ total[i].rows = total[i - 1].rows + log[i].size.rows
                        /\ total[i].bytes = total[i - 1].bytes + log[i].size.bytes
  BY DEF AccountingInv, TotalsExact
<1>6. \A i \in Retained : i \in 1 .. n
  BY <1>2
<1> DEFINE rowsTo == [i \in 0 .. n |-> total[i].rows]
           bytesTo == [i \in 0 .. n |-> total[i].bytes]
           rowsOf == [i \in 1 .. n |-> log[i].size.rows]
           bytesOf == [i \in 1 .. n |-> log[i].size.bytes]
<1>7. \A i \in 1 .. n : i - 1 \in 0 .. n /\ i \in 0 .. n
  BY <1>2
<1>8. first - 1 \in 0 .. n /\ n \in 0 .. n
  BY <1>2
<1> HIDE DEF n
<1>9. /\ \A i \in 0 .. n : rowsTo[i] \in Int /\ bytesTo[i] \in Int
      /\ \A i \in 1 .. n : /\ rowsOf[i] \in Int /\ rowsTo[i] = rowsTo[i - 1] + rowsOf[i]
                           /\ bytesOf[i] \in Int /\ bytesTo[i] = bytesTo[i - 1] + bytesOf[i]
  BY <1>3, <1>4, <1>5, <1>7
<1>10. /\ rowsTo[n] - rowsTo[first - 1] = Rows(first, n)
       /\ bytesTo[n] - bytesTo[first - 1] = Bytes(first, n)
  BY <1>8 DEF Rows, Bytes
<1>11. SetSum(rowsOf, Retained) = Rows(first, n)
  <2> HIDE DEF rowsOf, rowsTo
  <2>1. SetSum(rowsOf, first .. n) = rowsTo[n] - rowsTo[first - 1]
    BY <1>2, <1>9, IntervalSum
  <2> QED  BY <1>2, <1>10, <2>1
<1>12. SetSum(bytesOf, Retained) = Bytes(first, n)
  <2> HIDE DEF bytesOf, bytesTo
  <2>1. SetSum(bytesOf, first .. n) = bytesTo[n] - bytesTo[first - 1]
    BY <1>2, <1>9, IntervalSum
  <2> QED  BY <1>2, <1>10, <2>1
<1> DEFINE storedRows == [i \in Retained |-> chunks[i].size.rows]
           storedBytes == [i \in Retained |-> chunks[i].size.bytes]
<1>13. \A i \in Retained : /\ storedRows[i] \in Int /\ storedRows[i] = rowsOf[i]
                           /\ storedBytes[i] \in Int /\ storedBytes[i] = bytesOf[i]
  <2> SUFFICES ASSUME NEW i \in Retained
               PROVE  /\ chunks[i].size.rows \in Int /\ chunks[i].size.rows = rowsOf[i]
                      /\ chunks[i].size.bytes \in Int /\ chunks[i].size.bytes = bytesOf[i]
    OBVIOUS
  <2>1. chunks[i] = log[i] /\ i \in 1 .. n
    BY <1>1, <1>6
  <2> QED  BY <1>3, <2>1
<1>14. /\ SetSum(storedRows, Retained) = SetSum(rowsOf, Retained)
       /\ SetSum(storedBytes, Retained) = SetSum(bytesOf, Retained)
  <2> HIDE DEF storedRows, storedBytes, rowsOf, bytesOf
  <2> QED  BY <1>2, <1>13, SetSumAgree
<1> QED  BY <1>11, <1>12, <1>14 DEF n

\* The sums as CountersExact writes them.
LEMMA StoredSizes ==
    ASSUME AccountingInv
    PROVE  /\ MapThenSumSet(LAMBDA i : chunks[i].size.rows, Retained) = Rows(first, next - 1)
           /\ MapThenSumSet(LAMBDA i : chunks[i].size.bytes, Retained) = Bytes(first, next - 1)
<1> DEFINE S == Retained
           rowsOf == [i \in S |-> chunks[i].size.rows]
           bytesOf == [i \in S |-> chunks[i].size.bytes]
           SumsRows(f) == f = [s \in SUBSET S |->
               IF s = {} THEN 0 ELSE chunks[Chosen(s)].size.rows + f[s \ {Chosen(s)}]]
           SumsBytes(f) == f = [s \in SUBSET S |->
               IF s = {} THEN 0 ELSE chunks[Chosen(s)].size.bytes + f[s \ {Chosen(s)}]]
           rows == CHOOSE f : SumsRows(f)
           bytes == CHOOSE f : SumsBytes(f)
<1>1. IsFiniteSet(S) /\ \A i \in S : rowsOf[i] \in Int /\ bytesOf[i] \in Int
  <2>1. S = first .. (next - 1) /\ chunks \in [S -> Chunk] /\ first \in Int /\ next - 1 \in Int
    BY DEF AccountingInv, StorageInv, TypeOK, UnreadRetained
  <2>2. IsFiniteSet(S)
    BY <2>1, FS_Interval
  <2>3. \A i \in S : chunks[i].size.rows \in Int /\ chunks[i].size.bytes \in Int
    BY <2>1, ChunkFields
  <2> QED  BY <2>2, <2>3
<1>2. \A s \in SUBSET S : s # {} => /\ rowsOf[Chosen(s)] = chunks[Chosen(s)].size.rows
                                    /\ bytesOf[Chosen(s)] = chunks[Chosen(s)].size.bytes
  BY ChosenIn
<1> HIDE DEF S, rowsOf, bytesOf
<1>3. ASSUME NEW f PROVE SumsRows(f) <=> IsSummation(f, rowsOf, S)
  BY <1>2 DEF IsSummation
<1>4. ASSUME NEW f PROVE SumsBytes(f) <=> IsSummation(f, bytesOf, S)
  BY <1>2 DEF IsSummation
<1>5. PICK f \in [SUBSET S -> Int] : IsSummation(f, rowsOf, S) /\ SetSum(rowsOf, S) = f[S]
  BY <1>1, SetSumDef
<1>6. PICK g \in [SUBSET S -> Int] : IsSummation(g, bytesOf, S) /\ SetSum(bytesOf, S) = g[S]
  BY <1>1, SetSumDef
<1>7. SumsRows(rows)
  <2>1. SumsRows(f)
    BY <1>3, <1>5, Zenon
  <2> QED  BY <2>1, Zenon
<1>8. SumsBytes(bytes)
  <2>1. SumsBytes(g)
    BY <1>4, <1>6, Zenon
  <2> QED  BY <2>1, Zenon
<1>9. /\ MapThenSumSet(LAMBDA i : chunks[i].size.rows, S) = rows[S]
      /\ MapThenSumSet(LAMBDA i : chunks[i].size.bytes, S) = bytes[S]
  BY Zenon DEF MapThenSumSet, MapThenFoldSet, Chosen
<1> HIDE DEF rows, bytes, SumsRows, SumsBytes
<1>10. /\ IsSummation(rows, rowsOf, S) /\ IsSummation(bytes, bytesOf, S)
       /\ S \in SUBSET (S \cap S)
  BY <1>3, <1>4, <1>7, <1>8
<1>11. rows[S] = SetSum(rowsOf, S) /\ bytes[S] = SetSum(bytesOf, S)
  BY <1>1, <1>5, <1>6, <1>10, SummationUnique
<1>12. SetSum(rowsOf, S) = Rows(first, next - 1) /\ SetSum(bytesOf, S) = Bytes(first, next - 1)
  BY StoredSums DEF S, rowsOf, bytesOf
<1> QED  BY <1>9, <1>11, <1>12 DEF S

\* buffered_chunks, buffered_rows and buffered_bytes, which every append and
\* every collection maintains by difference, never drift from what is stored.
THEOREM CountersAreExact == Spec => []CountersExact
<1>1. ASSUME AccountingInv PROVE CountersExact
  <2>1. /\ buffered.chunks = next - first /\ buffered.rows = Rows(first, next - 1)
        /\ buffered.bytes = Bytes(first, next - 1)
        /\ buffered \in [chunks : Nat, rows : Nat, bytes : Nat]
        /\ Retained = first .. (next - 1) /\ next \in Nat \ {0} /\ first \in 1 .. next
    BY <1>1 DEF AccountingInv, StorageInv, SumsSound, TypeOK, UnreadRetained
  <2>2. Cardinality(Retained) = next - first
    <3>1. first \in Int /\ next - 1 \in Int
      BY <2>1
    <3>2. Cardinality(first .. (next - 1)) =
            IF first > next - 1 THEN 0 ELSE (next - 1) - first + 1
      BY <3>1, FS_Interval
    <3> QED  BY <2>1, <3>2
  <2>3. /\ MapThenSumSet(LAMBDA i : chunks[i].size.rows, Retained) = buffered.rows
        /\ MapThenSumSet(LAMBDA i : chunks[i].size.bytes, Retained) = buffered.bytes
    BY <1>1, <2>1, StoredSizes
  <2>4. buffered = [chunks |-> buffered.chunks, rows |-> buffered.rows,
                    bytes |-> buffered.bytes]
    BY <2>1
  <2> QED  BY <2>1, <2>2, <2>3, <2>4, Zenon DEF CountersExact
<1> QED  BY <1>1, AccountingInit, AccountingStep, PTL DEF Spec
=============================================================================
