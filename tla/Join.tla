-------------------------------- MODULE Join --------------------------------
(***************************************************************************)
(* The Join kernel (execution/join): two input streams, an arrangement of  *)
(* the rows of each side, one output stream.  An input row is joined with  *)
(* the candidates of the opposite side page by page; every arranged row    *)
(* carries how many opposite rows match it and for how many the condition  *)
(* is unknown, so that outer, semi and anti joins know when a row enters   *)
(* or leaves the result on its own.                                        *)
(*                                                                         *)
(* A step is one transaction: transitions follow one another until the     *)
(* input chunk is finished or the quantum is used up.  The transaction is  *)
(* a record t that the transitions transform; t.ok is FALSE once one of    *)
(* them returned an error, and then the step is disabled, because it fails *)
(* again after every restart.  An inner join takes a small chunk whole.    *)
(* Candidates are found by row_id; no row of the opposite side comes or    *)
(* goes while an input row is being joined, so their positions serve.      *)
(***************************************************************************)
EXTENDS ChunkLog

CONSTANTS
    Kinds,        \* the join kinds a plan may have
    LeftRows, RightRows,
    Truth,        \* [LeftRows -> [RightRows -> {"true", "false", "unknown"}]]
    Keyed,        \* TRUE: candidates are looked up by equi-keys
    Inputs,       \* per side the payloads the upstream stage may emit
    TargetRows,   \* target_chunk_rows of the output stream
    Transitions,  \* transitions of one quantum (64 in the code)
    MaxLsn,       \* bound: LSNs 1 .. MaxLsn
    MaxChunks     \* bound: chunks both upstream stages emit together

JoinKind == {"inner", "left", "right", "full", "semi", "anti", "null_aware_anti"}
Side == {"left", "right"}
Opposite(side) == IF side = "left" THEN "right" ELSE "left"
RowsOf(side) == IF side = "left" THEN LeftRows ELSE RightRows
OutRow(side, row, other) ==
    IF side = "left" THEN [left |-> row, right |-> other] ELSE [left |-> other, right |-> row]
OutRows == [left : LeftRows \cup {None}, right : RightRows \cup {None}]
TruthOf(side, row, other) == IF side = "left" THEN Truth[row][other] ELSE Truth[other][row]

ASSUME JoinAssumption ==
    /\ Kinds \subseteq JoinKind
    /\ Truth \in [LeftRows -> [RightRows -> {"true", "false", "unknown"}]]
    /\ \A side \in Side : Inputs[side] \subseteq Seq([row : RowsOf(side), w : Int \ {0}]) \ {<<>>}
    /\ TargetRows \in Nat \ {0} /\ Transitions \in Nat \ {0}
    /\ MaxLsn \in Nat /\ MaxChunks \in Nat

VARIABLES
    kind,   \* the join kind of the plan
    in,     \* per side the input stream
    cur,    \* per side [next, frontier]
    arr,    \* per side the arrangement in row_id order: [row, n, m, u]
    cont,   \* the continuation row
    out     \* the output stream

joinVars == <<kind, in, cur, arr, cont, out>>

JoinInit ==
    /\ kind \in Kinds
    /\ in = [side \in Side |-> <<>>]
    /\ cur = [side \in Side |-> [next |-> 1, frontier |-> 0]]
    /\ arr = [side \in Side |-> <<>>]
    /\ cont = None
    /\ out = <<>>

\* The upstream stage of one side publishes; the sides do not wait for each other.
Upstream ==
    /\ Len(in["left"]) + Len(in["right"]) < MaxChunks
    /\ \E side \in Side, lsn \in 1 .. MaxLsn :
         \E chunk \in {Data(lsn, rows) : rows \in Inputs[side]} \cup {Frontier(lsn)} :
           /\ Accepted(in[side], chunk)
           /\ Retracts(in[side], chunk.rows)
           /\ in' = [in EXCEPT ![side] = Append(@, chunk)]
    /\ UNCHANGED <<kind, cur, arr, cont, out>>
-----------------------------------------------------------------------------
HasChunk(side) == cur[side].next <= Len(in[side])
CursorChunk(side) == in[side][cur[side].next]
OutputBudget == Min({BatchRows, TargetRows})

\* The smaller LSN first, the left one of two equal ones; a chunk that is alone
\* is taken at once.
NextSide ==
    CASE HasChunk("left") /\ HasChunk("right") ->
           IF CursorChunk("left").lsn <= CursorChunk("right").lsn THEN "left" ELSE "right"
      [] HasChunk("left") /\ ~HasChunk("right") -> "left"
      [] ~HasChunk("left") -> "right"

pair_enabled == kind \in {"inner", "left", "right", "full"}

candidate_side_is_output(side) ==
    \/ kind = "full"
    \/ kind \in {"left", "semi", "anti", "null_aware_anti"} /\ side = "left"
    \/ kind = "right" /\ side = "right"

candidate_eligible(m, u) ==
    \/ kind \in {"left", "right", "full", "anti"} /\ m = 0
    \/ kind = "semi" /\ m > 0
    \/ kind = "null_aware_anti" /\ m = 0 /\ u = 0

current_side_is_eligible(side, m, u) ==
    candidate_side_is_output(side) /\ candidate_eligible(m, u)

\* The position of a row in an arrangement, 0 when it is not arranged.
Position(rows, row) == Max({0} \cup {i \in DOMAIN rows : rows[i].row = row})
Own(t, side, row) ==
    LET i == Position(t.arr[side], row)
    IN IF i = 0 THEN None ELSE t.arr[side][i]

\* The positions of the candidates of an input row after position `after`.
Candidates(t, side, row, after) ==
    LET rows == t.arr[Opposite(side)]
    IN Ascending({i \in after + 1 .. Len(rows) :
                    ~Keyed \/ TruthOf(side, row, rows[i].row) # "false"}, Len(rows))

\* apply_match_delta: the counts of an arranged row after w opposite rows.
Counted(entry, truth, w) ==
    [entry EXCEPT !.m = @ + (IF truth = "true" THEN w ELSE 0),
                  !.u = @ + (IF truth = "unknown" THEN w ELSE 0)]
-----------------------------------------------------------------------------
Opened(side, at) == [phase |-> "preflight", side |-> side, at |-> at]
Event(t) == CursorChunk(t.cont.side).rows[t.cont.at + 1]
Fail(t) == [t EXCEPT !.ok = FALSE, !.stop = TRUE]

\* open_next_input
Open(t) ==
    LET side == NextSide
    IN [t EXCEPT !.cont = IF CursorChunk(side).kind = "data" THEN Opened(side, 0)
                          ELSE [phase |-> "frontier", side |-> side]]

\* step_preflight: the row must be able to lose what the event takes.
Preflight(t) ==
    LET side == t.cont.side
        own == Own(t, side, Event(t).row)
    IN IF (IF own = None THEN 0 ELSE own.n) + Event(t).w < 0 THEN Fail(t)
       ELSE [t EXCEPT !.cont = [phase |-> "probe", side |-> side, at |-> t.cont.at,
                                own |-> own, after |-> 0, m |-> 0, u |-> 0, pend |-> None]]

\* Mutant: the candidate's own row does not follow its eligibility.
PairsOnly(side, event, entry) ==
    LET truth == TruthOf(side, event.row, entry.row)
    IN IF truth = "true" /\ pair_enabled
       THEN <<[row |-> OutRow(side, event.row, entry.row), w |-> event.w * entry.n]>> ELSE <<>>

\* classify_candidate: the pair, then the candidate on its own when the event
\* makes it enter or leave the result.
classify_candidate(side, event, entry) ==
    LET truth == TruthOf(side, event.row, entry.row)
        new == Counted(entry, truth, event.w)
        was == candidate_eligible(entry.m, entry.u)
        is == candidate_eligible(new.m, new.u)
        pair == IF truth = "true" /\ pair_enabled
                THEN <<[row |-> OutRow(side, event.row, entry.row), w |-> event.w * entry.n]>>
                ELSE <<>>
        alone == IF candidate_side_is_output(Opposite(side)) /\ was # is
                 THEN <<[row |-> OutRow(side, None, entry.row),
                         w |-> IF is THEN entry.n ELSE -entry.n]>>
                 ELSE <<>>
    IN pair \o alone

\* Mutant: a candidate that was left between its two actions begins anew.
RestartCandidate(c, i, acts) == acts

\* A pending candidate has its pair action behind it.
Remaining(c, i, acts) == IF i = 1 /\ c.pend # None THEN Tail(acts) ELSE acts

\* plan_actions, one candidate of the page: its actions, its counts and the
\* event's progress; p.stop when an action does not fit.
Classified(t, p, i, at, room) ==
    LET side == t.cont.side
        event == Event(t)
        entry == p.side[at]
        truth == TruthOf(side, event.row, entry.row)
        new == Counted(entry, truth, event.w)
        todo == Remaining(t.cont, i, classify_candidate(side, event, entry))
        fits == room - Len(p.rows)
        resumed == i = 1 /\ t.cont.pend # None
        valid == new.m >= 0 /\ new.u >= 0 /\ (resumed => t.cont.pend = entry)
    IN IF ~valid THEN [p EXCEPT !.ok = FALSE, !.stop = TRUE]
       ELSE IF Len(todo) > fits
       THEN [p EXCEPT !.stop = TRUE, !.rows = @ \o SubSeq(todo, 1, fits),
              !.cont.pend = IF resumed \/ fits > 0 THEN entry ELSE None]
       ELSE [p EXCEPT !.rows = @ \o todo, !.side[at] = new,
              !.cont = [Counted(@, truth, entry.n) EXCEPT !.after = at]]

\* plan_actions, the loop.
Planned(t, page, room) ==
    LET start == [rows |-> <<>>, side |-> t.arr[Opposite(t.cont.side)], ok |-> TRUE,
                  stop |-> FALSE, cont |-> [t.cont EXCEPT !.pend = None]]
        step[i \in 0 .. Len(page)] ==
          IF i = 0 THEN start
          ELSE LET p == step[i - 1]
               IN IF p.stop THEN p ELSE Classified(t, p, i, page[i], room)
    IN step[Len(page)]

\* step_candidates and probe_candidates: one page of candidates.
Probe(t) ==
    LET side == t.cont.side
        all == Candidates(t, side, Event(t).row, t.cont.after)
        page == SubSeq(all, 1, Min({Len(all), BatchRows - t.used}))
        p == Planned(t, page, OutputBudget - Len(t.rows))
        done == ~p.stop /\ Len(page) = Len(all)
    IN IF ~p.ok THEN Fail(t)
       ELSE [t EXCEPT !.rows = @ \o p.rows, !.lsn = CursorChunk(side).lsn,
                      !.arr[Opposite(side)] = p.side, !.used = @ + Len(page),
                      !.cont = IF done THEN [p.cont EXCEPT !.phase = "finalize"] ELSE p.cont]

\* apply_own_change: insert, update or delete the row of the event.
OwnChange(rows, event, m, u) ==
    LET i == Position(rows, event.row)
    IN IF i = 0 THEN Append(rows, [row |-> event.row, n |-> event.w, m |-> m, u |-> u])
       ELSE IF rows[i].n + event.w = 0 THEN RemoveAt(rows, i)
       ELSE [rows EXCEPT ![i].n = @ + event.w]

NextRow(t) ==
    LET side == t.cont.side
    IN IF t.cont.at + 1 < Len(CursorChunk(side).rows)
       THEN [t EXCEPT !.cont = Opened(side, t.cont.at + 1)]
       ELSE [t EXCEPT !.cont = None, !.cur[side].next = @ + 1, !.stop = TRUE]

\* step_finalize and plan_finalize: the arranged row must be as it was, with
\* the counts that the finished scan of its candidates adds up to.
Finalize(t) ==
    LET side == t.cont.side
        event == Event(t)
        own == Own(t, side, event.row)
        alone == IF current_side_is_eligible(side, t.cont.m, t.cont.u)
                 THEN <<[row |-> OutRow(side, event.row, None), w |-> event.w]>> ELSE <<>>
    IN IF own # t.cont.own \/ (own # None /\ ~(own.m = t.cont.m /\ own.u = t.cont.u)) THEN Fail(t)
       ELSE NextRow([t EXCEPT !.rows = @ \o alone, !.lsn = CursorChunk(side).lsn,
                              !.used = @ + 1,
                              !.arr[side] = OwnChange(@, event, t.cont.m, t.cont.u)])

\* Mutant: the frontier of the side that is ahead.
GreaterFrontier(left, right) == Max({left.frontier, right.frontier})

minimum(left, right) == Min({left.frontier, right.frontier})

\* step_frontier and plan_frontier: the output frontier is what both inputs
\* have completed, unless effects beyond it have been published already.
PassFrontier(t) ==
    LET side == t.cont.side
        lsn == CursorChunk(side).lsn
        new == [t.cur EXCEPT ![side] = [next |-> @.next + 1, frontier |-> lsn]]
        complete == minimum(new["left"], new["right"])
        publish == complete > LastLsn(out, "frontier") /\ LastLsn(out, "data") <= complete
    IN IF lsn <= t.cur[side].frontier THEN Fail(t)
       ELSE [t EXCEPT !.cur = new, !.cont = None, !.stop = TRUE,
                      !.frontier = IF publish THEN complete ELSE 0]

Transition(t) ==
    CASE t.cont = None -> Open(t)
      [] t.cont # None /\ t.cont.phase = "preflight" -> Preflight(t)
      [] t.cont # None /\ t.cont.phase = "probe" -> Probe(t)
      [] t.cont # None /\ t.cont.phase = "finalize" -> Finalize(t)
      [] t.cont # None /\ t.cont.phase = "frontier" -> PassFrontier(t)

Begun == [cont |-> cont, cur |-> cur, arr |-> arr, rows |-> <<>>, lsn |-> 0, frontier |-> 0,
          used |-> 0, ok |-> TRUE, stop |-> FALSE]

\* The quantum has a transition, an input row and an output row left.
Continues(t) == ~t.stop /\ t.used < BatchRows /\ Len(t.rows) < OutputBudget

\* step: transitions until one of them ends the transaction or the quantum.
Quantum ==
    LET after[n \in 0 .. Transitions] ==
          IF n = 0 THEN Begun
          ELSE LET t == after[n - 1] IN IF Continues(t) THEN Transition(t) ELSE t
    IN after[Transitions]
-----------------------------------------------------------------------------
\* append_inner_page: all pairs of a chunk, in input and then row_id order.
Pairs(side) ==
    LET rows == CursorChunk(side).rows
        others == arr[Opposite(side)]
        matched(e) == Ascending({i \in DOMAIN others :
                                   TruthOf(side, e.row, others[i].row) = "true"}, Len(others))
        of(e) == [k \in DOMAIN matched(e) |->
                    LET c == others[matched(e)[k]]
                    IN [row |-> OutRow(side, e.row, c.row), w |-> e.w * c.n]]
    IN FlattenSeq([i \in DOMAIN rows |-> of(rows[i])])

\* measure_inner_page: an inner join at a chunk that fits whole.
InnerPageTaken ==
    /\ kind = "inner" /\ cont = None
    /\ CursorChunk(NextSide).kind = "data"
    /\ Len(CursorChunk(NextSide).rows) <= BatchRows
    /\ Len(Pairs(NextSide)) <= OutputBudget

\* Mutant: the page forgets how many rows match the candidates.
NoPageCounts(side, rows) == arr[Opposite(side)]

\* update_inner_page_candidates
PageCounts(side, rows) ==
    [i \in DOMAIN arr[Opposite(side)] |->
        LET c == arr[Opposite(side)][i]
            Weight(truth) == Total([j \in DOMAIN rows |->
              IF TruthOf(side, rows[j].row, c.row) = truth THEN rows[j].w ELSE 0])
        IN [c EXCEPT !.m = @ + Weight("true"), !.u = @ + Weight("unknown")]]

\* apply_inner_page_own_state: the net of every row of the page.  A row that
\* is not arranged and has no net weight is counted as valid but mutates
\* nothing, and the page fails.
PageOwn(side, rows) ==
    LET old == arr[side]
        touched == {rows[i].row : i \in DOMAIN rows}
        n(r) == (IF Position(old, r) = 0 THEN 0 ELSE old[Position(old, r)].n) + Net(rows, r)
        Weight(r, truth) == Total([j \in DOMAIN arr[Opposite(side)] |->
          LET c == arr[Opposite(side)][j] IN IF TruthOf(side, r, c.row) = truth THEN c.n ELSE 0])
        entry(r) == [row |-> r, n |-> n(r), m |-> Weight(r, "true"), u |-> Weight(r, "unknown")]
        new == [i \in DOMAIN old |-> IF old[i].row \in touched THEN entry(old[i].row) ELSE old[i]]
        fresh == SetToSeq({r \in touched : Position(old, r) = 0})
        kept == Ascending({i \in DOMAIN new : new[i].n > 0}, Len(new))
    IN [k \in DOMAIN kept |-> new[kept[k]]] \o [i \in DOMAIN fresh |-> entry(fresh[i])]

PageValid(side, rows) ==
    /\ \A i \in DOMAIN arr[Opposite(side)] :
         PageCounts(side, rows)[i].m >= 0 /\ PageCounts(side, rows)[i].u >= 0
    /\ \A k \in 1 .. Len(rows) :
         LET i == Position(arr[side], rows[k].row)
             n == IF i = 0 THEN 0 ELSE arr[side][i].n
         IN n + Net(SubSeq(rows, 1, k), rows[k].row) >= 0
    /\ \A k \in DOMAIN rows :
         Position(arr[side], rows[k].row) = 0 => Net(rows, rows[k].row) # 0

\* execute_inner_page
InnerPage ==
    LET side == NextSide
        rows == CursorChunk(side).rows
    IN [Begun EXCEPT !.rows = Pairs(side), !.lsn = CursorChunk(side).lsn,
                     !.arr[Opposite(side)] = PageCounts(side, rows),
                     !.arr[side] = PageOwn(side, rows),
                     !.cur[side].next = @ + 1, !.ok = PageValid(side, rows)]
-----------------------------------------------------------------------------
Runnable == cont # None \/ HasChunk("left") \/ HasChunk("right")

Transaction == IF InnerPageTaken THEN InnerPage ELSE Quantum

\* What the transaction publishes, and whether the output stream takes it.
Output(t) == IF t.rows # <<>> THEN <<Data(t.lsn, t.rows)>>
             ELSE IF t.frontier # 0 THEN <<Frontier(t.frontier)>> ELSE <<>>
Published(t) == \A i \in DOMAIN Output(t) : Accepted(out, Output(t)[i])

JoinStep ==
    /\ Runnable
    /\ \E t \in {Transaction} :
         /\ t.ok /\ Published(t)
         /\ cont' = t.cont /\ cur' = t.cur /\ arr' = t.arr
         /\ out' = out \o Output(t)
    /\ UNCHANGED <<kind, in>>
-----------------------------------------------------------------------------
\* The rows of one side that have been consumed, and the query on both: in
\* words of SQL, not of counts.
Consumed(side) ==
    LET effects == Effects(in[side], cur[side].next - 1)
    IN [r \in RowsOf(side) |-> Net(effects, r)]

Alone(side, row, other) ==
    LET Some(truth) == \E o \in RowsOf(Opposite(side)) :
                         other[o] > 0 /\ TruthOf(side, row, o) = truth
    IN CASE kind \in {"inner", "left", "right", "full"} ->
              ~Some("true") /\ kind \in {side, "full"}
         [] kind = "semi" -> side = "left" /\ Some("true")
         [] kind = "anti" -> side = "left" /\ ~Some("true")
         [] kind = "null_aware_anti" -> side = "left" /\ ~Some("true") /\ ~Some("unknown")

JoinQuery(left, right, row) ==
    LET l == row.left
        r == row.right
    IN CASE l # None /\ r # None ->
              IF pair_enabled /\ Truth[l][r] = "true" THEN left[l] * right[r] ELSE 0
         [] l # None /\ r = None -> IF Alone("left", l, right) THEN left[l] ELSE 0
         [] l = None /\ r # None -> IF Alone("right", r, left) THEN right[r] ELSE 0
         [] l = None /\ r = None -> 0
=============================================================================
