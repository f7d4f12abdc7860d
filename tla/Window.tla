------------------------------- MODULE Window -------------------------------
(***************************************************************************)
(* The Window kernel (execution/window).  Input pages are applied to a bag *)
(* and make their partitions dirty.  A drain recomputes one dirty          *)
(* partition after the other: its copies are enumerated in order, grouped  *)
(* into peers, given their frames and then, function by function, values;  *)
(* the rows built this way are the candidates, the difference to the       *)
(* visible rows is published, and the work relations are emptied.  Every   *)
(* part of it is paged.                                                    *)
(*                                                                         *)
(* st = [bag, ids, parts, ordered, peers, frames, acc, ntile, cand,        *)
(* visible]: multiplicities; the rows present in entry_id order; the       *)
(* partitions in partition_id order, [key, dirty, lsn, n]; the ordered     *)
(* copies, [row, peer, vals]; first and last ordinal of every peer group;  *)
(* the intervals of every frame; the accumulator of the aggregate and the  *)
(* state of the ntile under way; candidates, and the visible rows of every *)
(* partition.  An SQL value is <<v>>, and <<>> for NULL.                   *)
(***************************************************************************)
EXTENDS VisibleDiff

CONSTANTS
    Functions,    \* the window functions in order, by name
    Frame,        \* [mode, start, end, exclude]; a bound is [kind, n], n < 0 PRECEDING
    Argument,     \* [Rows -> <<>> or <<n>>]: the argument of sum and of ntile
    Partitioned,  \* FALSE: no PARTITION BY, one partition that is never deleted
    FoldItems     \* WINDOW_FOLD_WORK_ITEM_CAP

Natives == {"row_number", "rank", "dense_rank", "cume_dist", "lag", "first_value",
            "last_value", "nth_value", "ntile"}

WindowInit ==
    /\ StageInit
    /\ st = [bag |-> NoRows, ids |-> <<>>,
             parts |-> IF Partitioned THEN <<>>
                       ELSE [i \in 1 .. 1 |-> [key |-> OneKey,
                                               dirty |-> FALSE, lsn |-> 0, n |-> 0]],
             ordered |-> <<>>, peers |-> <<>>, frames |-> <<>>,
             acc |-> None, ntile |-> None, cand |-> <<>>,
             visible |-> [k \in KeysOf(Partitioned) |-> <<>>]]

\* A phase of the drain of one partition: sub is the ordinal of the function
\* or of the work relation, at the cursor.
Work(phase, key, sub, at, after) ==
    [phase |-> phase, key |-> key, sub |-> sub, at |-> at, after |-> after]
Turn(phase, at) == [cont EXCEPT !.phase = phase, !.at = at]

\* The dirty partitions from position i on, and the drain from the first one.
DirtyFrom(parts, i) == {j \in i .. Len(parts) : parts[j].dirty}
Begin(parts, i, after) ==
    IF DirtyFrom(parts, i) = {} THEN AfterDrain(after)
    ELSE Work("enumerate", parts[Min(DirtyFrom(parts, i))].key, 0, 0, after)

\* start_window_continuation
Loaded ==
    IF cont # None THEN cont
    ELSE IF AtData THEN Input("apply", 0)
    ELSE Begin(st.parts, 1, ToFrontier)

Runnable == cont # None \/ Pending
In(phase) == Runnable /\ Loaded.phase = phase

\* The partition under way; it is dirty, or the step fails.
Current == CHOOSE i \in DOMAIN st.parts : st.parts[i].key = Loaded.key
Held == \E i \in DOMAIN st.parts : st.parts[i].key = Loaded.key /\ st.parts[i].dirty

\* Partitions touched by a page: known or new, they are dirty from now on.
Touched(page, lsn) ==
    LET keys == {KeyOf(Partitioned, page[i].row) : i \in DOMAIN page}
        known == {st.parts[i].key : i \in DOMAIN st.parts}
        fresh == SetToSeq(keys \ known)
        all == st.parts \o [i \in DOMAIN fresh |->
                  [key |-> fresh[i], dirty |-> TRUE, lsn |-> 0, n |-> 0]]
        delta(k) == Total([i \in DOMAIN page |->
                             IF KeyOf(Partitioned, page[i].row) = k THEN page[i].w ELSE 0])
    IN [i \in DOMAIN all |->
          IF all[i].key \in keys
          THEN [all[i] EXCEPT !.dirty = TRUE, !.lsn = Max({@, lsn}), !.n = @ + delta(all[i].key)]
          ELSE all[i]]

\* run_window_admission.  The foreign key of the ordered copies (ON DELETE
\* RESTRICT) keeps their rows.
Apply ==
    /\ In("apply")
    /\ \E page \in {InputPage(Loaded.at)} :
       \E parts \in {Touched(page, CursorChunk.lsn)} :
         /\ Applicable(st.bag, page)
         /\ st' = [st EXCEPT !.bag = Applied(@, page), !.parts = parts,
                             !.ids = RowIds(@, st.bag, Applied(st.bag, page))]
         /\ \A i \in DOMAIN st.ordered : Applied(st.bag, page)[st.ordered[i].row] > 0
         /\ LET target == AdmissionTarget(Loaded.at)
            IN cont' = IF target.drains THEN Begin(parts, 1, target.after)
                       ELSE AfterDrain(target.after)
    /\ Admit(Loaded.at)
    /\ UNCHANGED <<in, out>>
-----------------------------------------------------------------------------
\* The ordinals of the page after the cursor, of n rows in all.
Ordinals(at, n) == at + 1 .. Least(n, at + BatchRows)
UpTo(at, n) == Least(n, at + BatchRows)

\* run_window_enumeration: the copies of the partition's rows in order.
PartitionCopies(k) ==
    LET Mine(r) == KeyOf(Partitioned, r) = k
        order == SortedBy(SelectSeq(st.ids, Mine), Rank)
    IN FlattenSeq([i \in DOMAIN order |-> [j \in 1 .. st.bag[order[i]] |-> order[i]]])

Enumerate ==
    /\ In("enumerate") /\ Held
    /\ Loaded.at > 0 => Loaded.at = Len(st.ordered)
    /\ \E copies \in {PartitionCopies(Loaded.key)} :
         LET to == UpTo(Loaded.at, Len(copies))
             page == [i \in 1 .. to - Loaded.at |->
                        [row |-> copies[Loaded.at + i], peer |-> 0, vals |-> <<>>]]
         IN /\ st' = [st EXCEPT !.ordered = @ \o page]
            /\ cont' = IF to < Len(copies) THEN [Loaded EXCEPT !.at = to]
                       ELSE [Loaded EXCEPT !.phase = "peers", !.at = 0]
    /\ UNCHANGED <<in, cur, adm, out>>

\* `marked`: row i begins a peer group; the row before it may be on an earlier
\* page.
StartsPeer(at, i) ==
    i = 1 \/ Rank[st.ordered[i].row] # Rank[st.ordered[i - 1].row]

\* run_window_peers: numbers the peer groups and widens their ranges.
Peers ==
    /\ In("peers") /\ Held
    /\ LET at == Loaded.at
           to == UpTo(at, Len(st.ordered))
           base == IF at = 0 THEN 0 ELSE st.ordered[at].peer
           peer(i) == base + Cardinality({j \in at + 1 .. i : StartsPeer(at, j)})
           ordered == [i \in DOMAIN st.ordered |->
                         IF i \in Ordinals(at, to) THEN [st.ordered[i] EXCEPT !.peer = peer(i)]
                         ELSE st.ordered[i]]
           members(p) == {i \in Ordinals(at, to) : ordered[i].peer = p}
           last == Max({base} \cup {ordered[i].peer : i \in Ordinals(at, to)})
       IN /\ at > 0 => base > 0
          /\ st' = [st EXCEPT !.ordered = ordered,
                      !.peers = [p \in 1 .. last |->
                        IF p > Len(@) THEN [first |-> Min(members(p)), last |-> Max(members(p))]
                        ELSE [@[p] EXCEPT !.last = Max({@} \cup members(p))]]]
          /\ cont' = IF to < Len(st.ordered) THEN Turn("peers", to) ELSE Turn("frames", 0)
    /\ UNCHANGED <<in, cur, adm, out>>
-----------------------------------------------------------------------------
\* window_frame_base_expressions: first and last ordinal of the frame of row i
\* among n, before the exclusion.
FrameStart(i, n) ==
    LET p == st.ordered[i].peer
        groups == Len(st.peers)
        off == Frame.start.n
    IN CASE Frame.start.kind = "unbounded" -> 1
         [] Frame.start.kind = "current" -> IF Frame.mode = "rows" THEN i ELSE st.peers[p].first
         [] Frame.start.kind = "offset" /\ Frame.mode = "rows" ->
              IF off <= 0 THEN Max({1, i + off}) ELSE Min({n + 1, i + off})
         [] Frame.start.kind = "offset" /\ Frame.mode = "groups" ->
              LET q == IF off <= 0 THEN Max({1, p + off}) ELSE p + off
              IN IF q <= groups THEN st.peers[q].first ELSE n + 1

FrameEnd(i, n) ==
    LET p == st.ordered[i].peer
        groups == Len(st.peers)
        off == Frame.end.n
    IN CASE Frame.end.kind = "unbounded" -> n
         [] Frame.end.kind = "current" -> IF Frame.mode = "rows" THEN i ELSE st.peers[p].last
         [] Frame.end.kind = "offset" /\ Frame.mode = "rows" ->
              IF off <= 0 THEN Max({0, i + off}) ELSE Min({n, i + off})
         [] Frame.end.kind = "offset" /\ Frame.mode = "groups" ->
              IF p + off < 1 THEN 0 ELSE IF p + off > groups THEN n ELSE st.peers[p + off].last

\* window_frame_intervals: what the exclusion leaves of the frame, as the
\* intervals that are not empty, in order.
Intervals(i, n) ==
    LET s == FrameStart(i, n)
        e == FrameEnd(i, n)
        g == st.peers[st.ordered[i].peer]
        raw == CASE Frame.exclude = "none" -> << <<s, e>> >>
                 [] Frame.exclude = "row" -> << <<s, Min({e, i - 1})>>, <<Max({s, i + 1}), e>> >>
                 [] Frame.exclude = "group" ->
                      << <<s, Min({e, g.first - 1})>>, <<Max({s, g.last + 1}), e>> >>
                 [] Frame.exclude = "ties" ->
                      << <<s, Min({e, g.first - 1})>>, <<Max({s, i}), Min({e, i})>>,
                         <<Max({s, g.last + 1}), e>> >>
        NonEmpty(v) == v[1] <= v[2]
    IN SelectSeq(raw, NonEmpty)

\* first_function_phase: the next function, or the diff after the last one.
FunctionPhase(sub) ==
    IF sub > Len(Functions) THEN [Loaded EXCEPT !.phase = "remove", !.sub = 0, !.at = 0]
    ELSE [Loaded EXCEPT !.phase = IF Functions[sub] = "sum" THEN "fold" ELSE "evaluate",
                        !.sub = sub, !.at = 0]

\* run_window_frames
Frames ==
    /\ In("frames") /\ Held
    /\ LET to == UpTo(Loaded.at, Len(st.ordered))
           n == st.parts[Current].n
       IN /\ st' = [st EXCEPT !.frames =
                      @ \o [i \in 1 .. to - Loaded.at |-> Intervals(Loaded.at + i, n)]]
          /\ cont' = IF to < Len(st.ordered) THEN Turn("frames", to) ELSE FunctionPhase(1)
    /\ UNCHANGED <<in, cur, adm, out>>
-----------------------------------------------------------------------------
\* The ordinals of a frame in order.
FrameOrdinals(frame) ==
    FlattenSeq([v \in DOMAIN frame |->
        [j \in 1 .. frame[v][2] - frame[v][1] + 1 |-> frame[v][1] + j - 1]])

\* window_target_value: the row at an ordinal, NULL if there is none.
TargetValue(i) == IF i \in DOMAIN st.ordered THEN <<st.ordered[i].row>> ELSE <<>>

\* window_ntile_value: the bucket of the a-th row of n from the first row with
\* a bucket count on.
NtileValue(buckets, a, n) ==
    LET size == n \div buckets
        larger == n % buckets
    IN IF a <= (size + 1) * larger THEN (a - 1) \div (size + 1) + 1
       ELSE larger + (a - (size + 1) * larger - 1) \div size + 1

\* window_native_value; lag has offset 1, nth_value asks for the second row.
NativeValue(f, i, n) ==
    LET frame == st.frames[i]
        p == st.ordered[i].peer
        rows == FrameOrdinals(frame)
    IN CASE f = "row_number" -> <<i>>
         [] f = "rank" -> <<st.peers[p].first>>
         [] f = "dense_rank" -> <<p>>
         [] f = "cume_dist" -> <<st.peers[p].last, n>>
         [] f = "lag" -> TargetValue(i - 1)
         [] f = "first_value" -> IF frame = <<>> THEN <<>> ELSE TargetValue(frame[1][1])
         [] f = "last_value" -> IF frame = <<>> THEN <<>> ELSE TargetValue(Last(frame)[2])
         [] f = "nth_value" -> IF Len(rows) < 2 THEN <<>> ELSE TargetValue(rows[2])

\* The ntile state after the rows at + 1 .. to: the bucket count is the first
\* argument that is not NULL (0: none yet), from whatever page.
NtileState(state, at, to) ==
    LET known == {j \in at + 1 .. to : Argument[st.ordered[j].row] # <<>>}
    IN IF state.count # 0 \/ known = {} THEN state
       ELSE [count |-> Head(Argument[st.ordered[Min(known)].row]), first |-> Min(known)]

\* The output rows of a range of ordinals, counted.
OutputRow(o) == [row |-> o.row, vals |-> o.vals]
OutputWeights(ordered, ordinals) ==
    [r \in {OutputRow(ordered[i]) : i \in ordinals} |->
        Cardinality({i \in ordinals : OutputRow(ordered[i]) = r})]
Candidates(ordered, ordinals) ==
    IF Loaded.sub = Len(Functions) THEN Added(st.cand, OutputWeights(ordered, ordinals))
    ELSE st.cand

\* run_window_evaluate: one page of a native function; the last function
\* makes candidates.
Evaluate ==
    /\ In("evaluate") /\ Held
    /\ LET f == Functions[Loaded.sub]
           at == Loaded.at
           n == st.parts[Current].n
           to == UpTo(at, Len(st.ordered))
           complete == to = Len(st.ordered)
           before == IF at = 0 THEN [count |-> 0, first |-> 0] ELSE st.ntile
           ntile(i) == LET s == NtileState(before, at, i)
                       IN IF s.count = 0 THEN <<>>
                          ELSE <<NtileValue(s.count, i - s.first + 1, n)>>
           value(i) == IF f = "ntile" THEN ntile(i) ELSE NativeValue(f, i, n)
           ordered == [i \in DOMAIN st.ordered |->
                         IF i \in Ordinals(at, to)
                         THEN [st.ordered[i] EXCEPT !.vals = Append(@, value(i))]
                         ELSE st.ordered[i]]
       IN /\ f = "ntile" => IF at = 0 THEN st.ntile = None ELSE st.ntile # None
          /\ st' = [st EXCEPT !.ordered = ordered,
                              !.cand = Candidates(ordered, Ordinals(at, to)),
                              !.ntile = IF complete \/ f # "ntile" THEN None
                                        ELSE NtileState(before, at, to)]
          /\ cont' = IF complete THEN FunctionPhase(Loaded.sub + 1) ELSE Turn("evaluate", to)
    /\ UNCHANGED <<in, cur, adm, out>>
-----------------------------------------------------------------------------
\* The work of an aggregate, in units of one row of the budget: for every
\* output row i, one unit [i, j] per row j of its frame and one to finalize it
\* (j = 0).  The fold cursor is the number of units done.
Units ==
    FlattenSeq([i \in DOMAIN st.ordered |->
        LET rows == FrameOrdinals(st.frames[i])
        IN Append([j \in DOMAIN rows |-> [i |-> i, j |-> rows[j]]], [i |-> i, j |-> 0])])

\* The transition function, strict and without an initial value: NULL
\* arguments are skipped.
Transition(state, unit) ==
    LET arg == IF unit.j = 0 THEN <<>> ELSE Argument[st.ordered[unit.j].row]
    IN IF arg = <<>> THEN state
       ELSE IF state = <<>> THEN arg ELSE <<Head(state) + Head(arg)>>

\* window_fold_page: the accumulator of output row i after units from + 1 ..
\* to; that of an earlier page goes on, any other begins with NULL.
FoldPage(units, from, to, i) ==
    LET OfRow(u) == u.i = i
        state == IF st.acc # None /\ st.acc.i = i THEN st.acc.state ELSE <<>>
    IN FoldLeft(Transition, state, SelectSeq(SubSeq(units, from + 1, to), OfRow))

\* How far a page goes: units while the budget and the cap on output rows last.
\* The output rows it finalizes.
FoldReach(units, at) ==
    Max({k \in at .. UpTo(at, Len(units)) : k > at => units[k].i - units[at + 1].i < FoldItems})
Finals(units, at, to) == {units[k].i : k \in {k \in at + 1 .. to : units[k].j = 0}}

\* run_window_aggregate_fold and window_finalize_fold
Fold ==
    /\ In("fold") /\ Held
    /\ \E at \in {Loaded.at}, units \in {Units} :
       \E to \in {FoldReach(units, at)} :
       \E final \in {Finals(units, at, to)} :
       \E states \in {[i \in {units[k].i : k \in at + 1 .. to} |-> FoldPage(units, at, to, i)]} :
       \E ordered \in {[i \in DOMAIN st.ordered |->
                          IF i \in final THEN [st.ordered[i] EXCEPT !.vals = Append(@, states[i])]
                          ELSE st.ordered[i]]} :
         LET complete == to = Len(units)
             open == ~complete /\ units[to].j # 0
         IN /\ (at > 0 /\ units[at].j # 0) => (st.acc # None /\ st.acc.i = units[at].i)
            /\ st' = [st EXCEPT !.ordered = ordered, !.cand = Candidates(ordered, final),
                        !.acc = IF open THEN [i |-> units[to].i, state |-> states[units[to].i]]
                                ELSE None]
            /\ cont' = IF complete THEN FunctionPhase(Loaded.sub + 1) ELSE Turn("fold", to)
    /\ UNCHANGED <<in, cur, adm, out>>
-----------------------------------------------------------------------------
\* run_window_diff: one page of a leg, at the LSN of the partition.
RemovePage ==
    /\ In("remove") /\ Held /\ st.parts[Current].lsn # 0
    /\ \E page \in {Compared(st.visible[cont.key], st.cand, cont.at)} :
       \E effects \in {Differences(page, -1)} :
       \E leg \in {RemoveLeg(st.visible[cont.key], cont.at, page, effects)} :
         /\ EmitDifferences(st.parts[Current].lsn, effects)
         /\ st' = [st EXCEPT !.visible[cont.key] = leg.visible]
         /\ cont' = IF leg.done THEN Turn("add", 0) ELSE Turn("remove", leg.at)
    /\ UNCHANGED <<in, cur, adm>>

AddPage ==
    /\ In("add") /\ Held /\ st.parts[Current].lsn # 0
    /\ \E page \in {Compared(st.cand, st.visible[cont.key], cont.at)} :
       \E effects \in {Differences(page, 1)} :
       \E leg \in {AddLeg(st.visible[cont.key], st.cand, cont.at, page, effects)} :
         /\ EmitDifferences(st.parts[Current].lsn, effects)
         /\ st' = [st EXCEPT !.visible[cont.key] = leg.visible]
         /\ cont' = IF leg.done THEN Turn("clean", 0) ELSE Turn("add", leg.at)
    /\ UNCHANGED <<in, cur, adm>>

\* The partition is clean; an empty one is deleted unless it is the only one.
Finalized ==
    LET p == st.parts[Current]
    IN SubSeq(st.parts, 1, Current - 1)
       \o (IF Partitioned /\ p.n = 0 THEN <<>>
           ELSE [i \in 1 .. 1 |-> [p EXCEPT !.dirty = FALSE, !.lsn = 0]])
       \o SubSeq(st.parts, Current + 1, Len(st.parts))

WorkRelations == <<"cand", "ordered", "peers", "frames">>

\* run_window_cleanup and apply_cleanup: a page of one work relation; after the
\* last one the next dirty partition, or what comes after the drain.
CleanPage ==
    /\ In("clean") /\ Held
    /\ LET name == WorkRelations[cont.sub + 1]
           left == SubSeq(st[name], BatchRows + 1, Len(st[name]))
           last == cont.sub + 1 = Len(WorkRelations)
       IN IF left # <<>> \/ ~last
          THEN /\ st' = [st EXCEPT ![name] = left]
               /\ cont' = IF left # <<>> THEN cont ELSE [cont EXCEPT !.sub = @ + 1]
          ELSE /\ st.acc = None /\ st.ntile = None
               /\ st' = [st EXCEPT ![name] = left, !.parts = Finalized]
               /\ cont' = Begin(st.parts, Current + 1, cont.after)
    /\ UNCHANGED <<in, cur, adm, out>>

\* run_window_frontier
PassFrontier ==
    /\ In("frontier")
    /\ ForwardFrontier
    /\ adm' = 0 /\ cont' = None
    /\ UNCHANGED <<in, st>>

WindowStep ==
    \/ Apply \/ Enumerate \/ Peers \/ Frames \/ Evaluate \/ Fold
    \/ RemovePage \/ AddPage \/ CleanPage \/ PassFrontier
-----------------------------------------------------------------------------
\* The query, for the copies of a partition in one order: the peer group of
\* every copy, the frame as a set of positions, and the value of a function.
GroupOf(copies, i) == Cardinality({Rank[copies[j]] : j \in 1 .. i})
Within(bound, side, distance) ==
    CASE bound.kind = "unbounded" -> TRUE
      [] bound.kind = "current" -> side * distance >= 0
      [] bound.kind = "offset" -> side * (distance - bound.n) >= 0
FrameSet(copies, i) ==
    LET group(j) == GroupOf(copies, j)
        distance(j) == IF Frame.mode = "rows" THEN j - i ELSE group(j) - group(i)
        excluded(j) == CASE Frame.exclude = "none" -> FALSE
                         [] Frame.exclude = "row" -> j = i
                         [] Frame.exclude = "group" -> group(j) = group(i)
                         [] Frame.exclude = "ties" -> group(j) = group(i) /\ j # i
    IN {j \in DOMAIN copies : /\ Within(Frame.start, 1, distance(j))
                              /\ Within(Frame.end, -1, distance(j)) /\ ~excluded(j)}

\* Buckets of ntile: the first n % b of them have one row more.
Bucket(b, a, n) == Min({t \in 1 .. b : t * (n \div b) + Min({t, n % b}) >= a})

Value(f, copies, i) ==
    LET frame == FrameSet(copies, i)
        at(s) == IF s = {} THEN <<>> ELSE <<copies[Min(s)]>>
        peers == {j \in DOMAIN copies : GroupOf(copies, j) = GroupOf(copies, i)}
        known == {j \in DOMAIN copies : Argument[copies[j]] # <<>>}
    IN CASE f = "row_number" -> <<i>>
         [] f = "rank" -> <<Min(peers)>>
         [] f = "dense_rank" -> <<GroupOf(copies, i)>>
         [] f = "cume_dist" -> <<Max(peers), Len(copies)>>
         [] f = "lag" -> at({i - 1} \ {0})
         [] f = "first_value" -> at(frame)
         [] f = "last_value" -> at({j \in frame : \A k \in frame : k <= j})
         [] f = "nth_value" -> at({j \in frame : Cardinality({k \in frame : k < j}) = 1})
         [] f = "ntile" ->
              IF \A j \in known : i < j THEN <<>>
              ELSE <<Bucket(Head(Argument[copies[Min(known)]]), i - Min(known) + 1, Len(copies))>>
         [] f = "sum" ->
              IF known \cap frame = {} THEN <<>>
              ELSE <<MapThenSumSet(LAMBDA j : Head(Argument[copies[j]]), known \cap frame)>>

WindowQuery(table) ==
    LET orders(k) == {o \in SetToSeqs({r \in Rows : KeyOf(Partitioned, r) = k /\ table[r] > 0}) :
                        \A i, j \in DOMAIN o : i < j => Rank[o[i]] <= Rank[o[j]]}
        copies(o) == FlattenSeq([i \in DOMAIN o |-> [j \in 1 .. table[o[i]] |-> o[i]]])
        rows(c) == [i \in DOMAIN c |->
                      [row |-> c[i], vals |-> [f \in DOMAIN Functions |-> Value(Functions[f], c, i)]]]
        result(c) == {[row |-> r, n |-> Cardinality({i \in DOMAIN c : rows(c)[i] = r})] :
                        r \in Range(rows(c))}
        keys == KeysOf(Partitioned)
    IN {UNION {result(copies(pick[k])) : k \in keys} :
          pick \in {p \in [keys -> UNION {orders(k) : k \in keys}] : \A k \in keys : p[k] \in orders(k)}}
=============================================================================
