---------------------------- MODULE OperatorStage ----------------------------
(***************************************************************************)
(* What every stateful operator with one input shares (execution/step.rs,  *)
(* execution/stream.rs, execution/contract.rs): the input EffectStream and *)
(* the cursor on it, the output EffectStream, the admission progress, the  *)
(* typed continuation and the operator's state relations.                  *)
(*                                                                         *)
(* KernelRunner::run runs one kernel transition, an action here.  Several  *)
(* in a row that do no row work may share a transaction (step_quantum);    *)
(* all are separate here, and each has the whole budget as in the code.  A *)
(* crash before a commit leaves no trace.  A transition that fails is      *)
(* disabled: it fails again after every restart.  That a full output       *)
(* stream delays a step, and byte budgets next to row budgets, are left    *)
(* out.                                                                    *)
(***************************************************************************)
EXTENDS ChunkLog

CONSTANTS
    Key,          \* [Rows -> key]: the DISTINCT, GROUP BY or PARTITION BY key
    Rank,         \* [Rows -> Nat]: the ORDER BY value, or the canonical row key
    TargetRows,   \* target_chunk_rows of the output stream
    AdmissionCap, \* admission_row_interval_cap
    Inputs,       \* payloads the upstream stage may emit
    MaxLsn,       \* bound: LSNs 1 .. MaxLsn
    MaxChunks     \* bound: chunks the upstream stage emits

ASSUME StageAssumption ==
    /\ DOMAIN Key = Rows /\ Rank \in [Rows -> Nat]
    /\ TargetRows \in Nat \ {0} /\ AdmissionCap \in Nat /\ AdmissionCap >= BatchRows
    /\ Inputs \subseteq Seq(Effect) \ {<<>>}
    /\ MaxLsn \in Nat /\ MaxChunks \in Nat

VARIABLES
    in,     \* the input stream: every chunk, [kind, lsn, rows]
    cur,    \* [next, frontier]: next_chunk_seq, consumed_frontier_lsn
    adm,    \* admitted_rows of the checkpoint
    cont,   \* the continuation row; its shape is the operator's
    st,     \* the state relations; their shape is the operator's
    out     \* the output stream: every chunk

stageVars == <<in, cur, adm, cont, st, out>>

Keys == {Key[r] : r \in Rows}

\* The key of a row, and all keys, where there may be no GROUP BY or PARTITION
\* BY: then all rows share one key.
OneKey == "all"
KeyOf(keyed, r) == IF keyed THEN Key[r] ELSE OneKey
KeysOf(keyed) == IF keyed THEN Keys ELSE {OneKey}

\* The input up to an LSN.
TableAt(lsn) ==
    LET Below(c) == c.lsn <= lsn
        closed == SelectSeq(in, Below)
    IN [r \in Rows |-> Net(Effects(closed, Len(closed)), r)]

StageInit ==
    /\ in = <<>> /\ out = <<>>
    /\ cur = [next |-> 1, frontier |-> 0]
    /\ adm = 0
    /\ cont = None
-----------------------------------------------------------------------------
\* The upstream stage publishes.
Upstream ==
    /\ Len(in) < MaxChunks
    /\ \E lsn \in 1 .. MaxLsn :
         \E chunk \in {Data(lsn, rows) : rows \in Inputs} \cup {Frontier(lsn)} :
           /\ Accepted(in, chunk)
           /\ Retracts(in, chunk.rows)
           /\ in' = Append(in, chunk)
    /\ UNCHANGED <<cur, adm, cont, st, out>>

Pending == cur.next <= Len(in)
CursorChunk == in[cur.next]
AtData == Pending /\ CursorChunk.kind = "data"
AtFrontier == Pending /\ CursorChunk.kind = "frontier"

\* The next page of the chunk at the cursor from row ordinal `at` on: at most
\* max_input_rows effects.
InputPage(at) ==
    SubSeq(CursorChunk.rows, at + 1, Min({Len(CursorChunk.rows), at + BatchRows}))

\* Whether a page may be applied to a bag: multiplicities never fall below 0
\* on the way (status 'negative' otherwise).
Applicable(bag, page) ==
    \A k \in 1 .. Len(page) :
        bag[page[k].row] + Net(SubSeq(page, 1, k), page[k].row) >= 0
Applied(bag, page) == [r \in Rows |-> bag[r] + Net(page, r)]

\* record_output_append and commit: one chunk, at an LSN that does not move
\* backwards, or the transition fails.
Emit(chunk) ==
    /\ Accepted(out, chunk)
    /\ out' = Append(out, chunk)

\* The effects that replace a published row, if any, by another one.
Legs(old, new) ==
    LET minus == IF old # None /\ old # new THEN <<[row |-> old, w |-> -1]>> ELSE <<>>
        plus == IF new # None /\ old # new THEN <<[row |-> new, w |-> 1]>> ELSE <<>>
    IN minus \o plus

\* advance_input past the chunk at the cursor.
Advance(frontier) == cur' = [next |-> cur.next + 1, frontier |-> frontier]

\* append_frontier and advance_input.
ForwardFrontier ==
    /\ Emit(Frontier(CursorChunk.lsn))
    /\ Advance(CursorChunk.lsn)

\* crossed_admission_threshold: quantum, 2*quantum, 4*quantum ... up to the cap,
\* then multiples of the cap.
Threshold(before) ==
    IF before >= AdmissionCap THEN (before \div AdmissionCap + 1) * AdmissionCap
    ELSE LET doubled == {BatchRows * 2 ^ k : k \in 0 .. AdmissionCap}
         IN Min({AdmissionCap} \cup {t \in doubled : t > before})

\* AdmissionProgress::record: TRUE once the admitted rows cross the threshold.
Drains(rows) == adm + rows >= Threshold(adm)

\* Rows that leave the bag lose their row_id; rows that enter it get later ones.
RowIds(ids, old, new) ==
    LET Stays(r) == new[r] > 0
    IN SelectSeq(ids, Stays) \o SetToSeq({r \in Rows : new[r] > 0 /\ old[r] = 0})

\* A sequence of rows by a value, and by row_id where the values are equal.
SortedBy(rows, value) ==
    LET Position(r) == CHOOSE i \in DOMAIN rows : rows[i] = r
        Before(p, q) == \/ value[p] < value[q]
                        \/ value[p] = value[q] /\ Position(p) < Position(q)
    IN SortSeq(rows, Before)
-----------------------------------------------------------------------------
\* Operators that drain in epochs: AfterDrain and the target of an admission.
Input(phase, at) == [phase |-> phase, at |-> at]
ToInput(at) == [to |-> "apply", at |-> at]
ToIdle == [to |-> "idle", at |-> 0]
ToFrontier == [to |-> "frontier", at |-> 0]
AfterDrain(after) == IF after.to = "idle" THEN None ELSE Input(after.to, after.at)

\* Where the page at `at` leads: whether to a drain, and where that or the
\* page itself goes on.  When the page ends its chunk, the chunk after it is
\* looked at, so that a frontier that is already there is drained for.
AdmissionTarget(at) ==
    LET next == at + Len(InputPage(at))
        ends == next = Len(CursorChunk.rows)
        seesFrontier == ends /\ cur.next < Len(in) /\ in[cur.next + 1].kind = "frontier"
    IN [drains |-> seesFrontier \/ Drains(Len(InputPage(at))),
        after |-> IF seesFrontier THEN ToFrontier ELSE IF ends THEN ToIdle ELSE ToInput(next)]

\* record_admission, and advance_input when the page ends its chunk.
Admit(at) ==
    /\ adm' = adm + Len(InputPage(at))
    /\ IF at + Len(InputPage(at)) = Len(CursorChunk.rows)
       THEN Advance(cur.frontier) ELSE UNCHANGED cur
-----------------------------------------------------------------------------
\* The multiplicity of row r after the first n chunks of the output.
Published(n, r) == Net(Effects(out, n), r)

\* The output, up to its last frontier, is a result of the query on the input
\* up to that frontier; results(table) is a set of sets of [row, n].
ExactAtFrontier(results(_)) ==
    LET n == Max({0} \cup Of(out, "frontier"))
        emitted == Effects(out, n)
        rows == {emitted[i].row : i \in DOMAIN emitted}
        left == {[row |-> r, n |-> Net(emitted, r)] : r \in rows}
    IN n > 0 => {e \in left : e.n # 0} \in results(TableAt(out[n].lsn))

\* Every chunk deletes only rows that were there before it.
Retractable ==
    \A i \in DOMAIN out : \A j \in DOMAIN out[i].rows :
        LET r == out[i].rows[j].row
        IN Copies(out[i].rows, r, -1) <= Published(i - 1, r)

\* The upstream stage closes every LSN before it goes on to a later one.
LsnsClosed ==
    \A i, j \in Of(in, "data") :
        in[i].lsn < in[j].lsn => \E k \in i + 1 .. j - 1 : in[k].kind = "frontier"
=============================================================================
