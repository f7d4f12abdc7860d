----------------------------- MODULE Aggregate ------------------------------
(***************************************************************************)
(* The Aggregate kernel (execution/aggregate).  Input pages are applied to *)
(* a bag of rows and make their groups dirty; at an admission threshold or *)
(* at a frontier the dirty groups are drained in queue order.  A page of   *)
(* small groups is aggregated by one statement.  A group that is too large *)
(* for that is rebuilt: every aggregate folds the group's rows page by     *)
(* page into a work row, then the output row is retracted and inserted in  *)
(* steps of their own.                                                     *)
(*                                                                         *)
(* st = [bag, ids, groups, dirty, work]: multiplicities; the rows present  *)
(* in row_id order; published and pending output of every group row; the   *)
(* queue of [key, lsn]; the work row of every aggregate (always of the     *)
(* group at the head of the queue).  cont is [phase, at] or [phase, agg,   *)
(* after].  The value of an aggregate is the bag of arguments it has been  *)
(* given: what the transition function makes of them is PostgreSQL's.      *)
(* The order and the remaining-multiplicity cursor of a work row is the    *)
(* number of occurrences folded, in the order of the rebuild.              *)
(***************************************************************************)
EXTENDS OperatorStage

CONSTANTS
    Aggregates,   \* [keep, arg, distinct] of every aggregate: FILTER, argument, DISTINCT
    Grouped       \* FALSE: no GROUP BY, one global group

aggregate_count == Len(Aggregates)
Arguments == UNION {Range(Aggregates[i].arg) : i \in DOMAIN Aggregates}
NoWork == [i \in DOMAIN Aggregates |-> None]
NoGroup == [pub |-> None, pend |-> None]

AggregateInit ==
    /\ StageInit
    /\ st = [bag |-> NoRows, ids |-> <<>>, groups |-> <<>>, dirty |-> <<>>, work |-> NoWork]

\* What PostgreSQL's own aggregate call takes in for group k of a table.
Taken(a, table, k) ==
    [v \in Arguments |->
        LET rows == {r \in a.keep : KeyOf(Grouped, r) = k /\ a.arg[r] = v}
        IN IF a.distinct THEN (IF \E r \in rows : table[r] > 0 THEN 1 ELSE 0)
           ELSE MapThenSumSet(LAMBDA r : table[r], rows)]

Present(table, k) == ~Grouped \/ \E r \in Rows : KeyOf(Grouped, r) = k /\ table[r] > 0
Row(k, values) == [group |-> k, values |-> values]

\* build_group_page_sql, `desired`: the output row of group k, or none.
Desired(table, k) ==
    IF Present(table, k)
    THEN Row(k, [i \in DOMAIN Aggregates |-> Taken(Aggregates[i], table, k)])
    ELSE None
-----------------------------------------------------------------------------
Rebuild(agg, after) == [phase |-> "rebuild", agg |-> agg, after |-> after]
Start(after) == Rebuild(1, after)
Emission(phase, after) == [phase |-> phase, agg |-> aggregate_count, after |-> after]

\* start_execute_continuation: where a step without a continuation begins.
Loaded ==
    IF cont # None THEN cont
    ELSE IF AtData THEN Input("apply", 0)
    ELSE IF st.dirty # <<>> THEN Start(ToFrontier)
    ELSE Input("frontier", 0)

Runnable == cont # None \/ Pending

\* after_completed_group: the next dirty group, or what comes after the drain.
AfterGroup(dirty, after) == IF dirty # <<>> THEN Start(after) ELSE AfterDrain(after)

\* `queued`: the groups of a page enter the queue, or keep their place in it
\* with the greater LSN.
Queued(touched, lsn) ==
    LET known == {st.dirty[i].key : i \in DOMAIN st.dirty}
        raised == [i \in DOMAIN st.dirty |->
                     IF st.dirty[i].key \in touched
                     THEN [st.dirty[i] EXCEPT !.lsn = Max({@, lsn})] ELSE st.dirty[i]]
        fresh == SetToSeq(touched \ known)
    IN raised \o [i \in DOMAIN fresh |-> [key |-> fresh[i], lsn |-> lsn]]

\* step_apply: one input page into the bag; its groups are dirty, also when
\* the page changes nothing in the end.
Apply ==
    /\ Runnable /\ Loaded.phase = "apply"
    /\ \E page \in {InputPage(Loaded.at)} :
         LET touched == {KeyOf(Grouped, page[i].row) : i \in DOMAIN page}
             bag == Applied(st.bag, page)
         IN /\ Applicable(st.bag, page)
            /\ st' = [st EXCEPT
                 !.bag = bag, !.ids = RowIds(@, st.bag, bag),
                 !.groups = [k \in DOMAIN @ \cup touched |->
                               IF k \in DOMAIN @ THEN @[k] ELSE NoGroup],
                 !.dirty = Queued(touched, CursorChunk.lsn)]
    /\ Admit(Loaded.at)
    /\ LET target == AdmissionTarget(Loaded.at)
       IN cont' = IF target.drains THEN Start(target.after) ELSE AfterDrain(target.after)
    /\ UNCHANGED <<in, out>>
-----------------------------------------------------------------------------
\* measure_group_page: how many groups from the head of the queue one page
\* takes; the first one always, the others while their rows fit.
Cost(k) == MapThenSumSet(LAMBDA r : st.bag[r], {r \in Rows : KeyOf(Grouped, r) = k})
CostOf(n) == Total([i \in 1 .. n |-> Cost(st.dirty[i].key)])
PageGroups ==
    Max({n \in 1 .. Min({Len(st.dirty), BatchRows}) : n = 1 \/ CostOf(n) <= BatchRows})

PageActions(n) ==
    FlattenSeq([i \in 1 .. n |->
        LET k == st.dirty[i].key IN Legs(st.groups[k].pub, Desired(st.bag, k))])

\* The page is refused for a group whose work has begun and when its rows or
\* its effects are too many.
PageTaken ==
    /\ Loaded.agg = 1 /\ st.work = NoWork
    /\ CostOf(PageGroups) <= BatchRows
    /\ Len(PageActions(PageGroups)) <= BatchRows

\* Groups nothing refers to are deleted, except the global one.
Dead(groups) ==
    {k \in DOMAIN groups : Grouped /\ groups[k] = NoGroup /\ ~Present(st.bag, k)}

RestOfQueue(n) == SubSeq(st.dirty, n + 1, Len(st.dirty))

\* execute_group_page: all output of a page in one chunk at the page's
\* greatest LSN.  The queue's foreign key (ON DELETE RESTRICT) makes the
\* statement fail that deletes a group which is still queued.
GroupPage ==
    /\ Runnable /\ Loaded.phase = "rebuild" /\ PageTaken
    /\ \E n \in {PageGroups} :
         LET rest == RestOfQueue(n)
             done == {st.dirty[i].key : i \in 1 .. n}
             groups == [k \in DOMAIN st.groups |->
                          IF k \in done THEN [NoGroup EXCEPT !.pub = Desired(st.bag, k)]
                          ELSE st.groups[k]]
             left == DOMAIN groups \ Dead(groups)
         IN /\ IF PageActions(n) = <<>> THEN UNCHANGED out
               ELSE Emit(Data(Max({st.dirty[i].lsn : i \in 1 .. n}), PageActions(n)))
            /\ {rest[i].key : i \in DOMAIN rest} \subseteq left
            /\ st' = [st EXCEPT !.groups = [k \in left |-> groups[k]], !.dirty = rest]
            /\ cont' = AfterGroup(rest, Loaded.after)
    /\ UNCHANGED <<in, cur, adm>>
-----------------------------------------------------------------------------
\* aggregate_effective_order: DISTINCT arguments first, then row_id.
Order(a, k) ==
    LET InGroup(r) == KeyOf(Grouped, r) = k
        rows == SelectSeq(st.ids, InGroup)
    IN IF a.distinct THEN SortedBy(rows, a.arg) ELSE rows

\* `source`: every copy of a row, or each row once under DISTINCT.
Occurrences(a, k) ==
    FlattenSeq([i \in DOMAIN Order(a, k) |->
        LET r == Order(a, k)[i] IN [j \in 1 .. (IF a.distinct THEN 1 ELSE st.bag[r]) |-> r]])

FreshWork == [done |-> 0, complete |-> FALSE, value |-> [v \in Arguments |-> 0],
              last |-> {}, hit |-> FALSE]

\* A work row goes on; without one, or with one that is complete, a new one
\* begins.
Resumed(work) == IF work # None /\ ~work.complete THEN work ELSE FreshWork

\* Mutant: DISTINCT forgets at a page boundary which argument it was at.
ForgetDistinct(a, work, page) ==
    LET step[i \in 0 .. Len(page)] ==
          IF i = 0 THEN [value |-> work.value, last |-> {}, hit |-> FALSE]
          ELSE LET was == step[i - 1]
                   v == a.arg[page[i]]
                   seen == v \in was.last /\ was.hit
                   takes == page[i] \in a.keep /\ ~(a.distinct /\ seen)
               IN [value |-> IF takes THEN [was.value EXCEPT ![v] = @ + 1] ELSE was.value,
                   last |-> {v}, hit |-> seen \/ page[i] \in a.keep]
    IN step[Len(page)]

\* The fold of aggregate_rebuild_page.  Under DISTINCT an argument counts for
\* the first of its rows that passes the filter; last and hit (the
\* distinct cursor and distinct_transitioned) carry that across pages.
Fold(a, work, page) ==
    LET step[i \in 0 .. Len(page)] ==
          IF i = 0 THEN [value |-> work.value, last |-> work.last, hit |-> work.hit]
          ELSE LET was == step[i - 1]
                   v == a.arg[page[i]]
                   seen == v \in was.last /\ was.hit
                   takes == page[i] \in a.keep /\ ~(a.distinct /\ seen)
               IN [value |-> IF takes THEN [was.value EXCEPT ![v] = @ + 1] ELSE was.value,
                   last |-> {v}, hit |-> seen \/ page[i] \in a.keep]
    IN step[Len(page)]

\* apply_rebuild: on with this aggregate, with the next one, or to emission.
AfterFold(agg, complete, after) ==
    CASE ~complete -> Rebuild(agg, after)
      [] complete /\ agg < aggregate_count -> Rebuild(agg + 1, after)
      [] complete /\ agg = aggregate_count -> Emission("decide", after)

\* step_rebuild and aggregate_rebuild_page: one page of one aggregate.
RebuildPage ==
    /\ Runnable /\ Loaded.phase = "rebuild" /\ ~PageTaken
    /\ \E i \in {Loaded.agg} :
       \E work \in {Resumed(st.work[i])} :
       \E source \in {Occurrences(Aggregates[i], Head(st.dirty).key)} :
       \E page \in {SubSeq(source, work.done + 1, Min({Len(source), work.done + BatchRows}))} :
       \E folded \in {Fold(Aggregates[i], work, page)} :
         LET complete == work.done + Len(page) = Len(source)
         IN /\ st' = [st EXCEPT !.work[i] =
                        [done |-> work.done + Len(page), complete |-> complete,
                         value |-> folded.value, last |-> folded.last, hit |-> folded.hit]]
            /\ cont' = AfterFold(i, complete, Loaded.after)
    /\ UNCHANGED <<in, cur, adm, out>>
-----------------------------------------------------------------------------
\* aggregate_finish_dirty_group: the head leaves the queue, and its group goes
\* when nothing refers to it.
Finish(groups, k) ==
    LET left == DOMAIN groups \ (Dead(groups) \cap {k})
    IN /\ st' = [st EXCEPT !.groups = [g \in left |-> groups[g]],
                           !.dirty = Tail(@), !.work = NoWork]
       /\ cont' = AfterGroup(Tail(st.dirty), cont.after)

\* aggregate_output_expression: the row the work rows add up to.
Rebuilt(k) ==
    IF Present(st.bag, k)
    THEN Row(k, [i \in DOMAIN Aggregates |-> st.work[i].value]) ELSE None

\* step_emit, Decide: unchanged, insert, delete, or the retraction that begins
\* a replacement.
Decide ==
    /\ cont # None /\ cont.phase = "decide"
    /\ LET k == Head(st.dirty).key
           lsn == Head(st.dirty).lsn
           old == st.groups[k].pub
           new == Rebuilt(k)
       IN \/ /\ old = new /\ UNCHANGED out
             /\ Finish([st.groups EXCEPT ![k].pend = None], k)
          \/ /\ old # new /\ (old = None \/ new = None)
             /\ Emit(Data(lsn, Legs(old, new)))
             /\ Finish([st.groups EXCEPT ![k] = [pub |-> new, pend |-> None]], k)
          \/ /\ old # new /\ old # None /\ new # None
             /\ Emit(Data(lsn, Legs(old, None)))
             /\ st' = [st EXCEPT !.groups[k] = [pub |-> None, pend |-> new], !.work = NoWork]
             /\ cont' = Emission("insert", cont.after)
    /\ UNCHANGED <<in, cur, adm>>

\* step_emit, InsertPending: the second half of a replacement.
InsertPending ==
    /\ cont # None /\ cont.phase = "insert"
    /\ LET k == Head(st.dirty).key
           new == st.groups[k].pend
       IN /\ new # None
          /\ Emit(Data(Head(st.dirty).lsn, Legs(None, new)))
          /\ Finish([st.groups EXCEPT ![k] = [pub |-> new, pend |-> None]], k)
    /\ UNCHANGED <<in, cur, adm>>

\* step_frontier: a global aggregate that has no group yet makes it first, so
\* that the empty table has its one row; otherwise the frontier goes on.
PassFrontier ==
    /\ Runnable /\ Loaded.phase = "frontier"
    /\ st.dirty = <<>>
    /\ IF ~Grouped /\ DOMAIN st.groups = {}
       THEN /\ st' = [st EXCEPT !.groups = [k \in KeysOf(Grouped) |-> NoGroup],
                                !.dirty = [i \in 1 .. 1 |-> [key |-> OneKey,
                                                             lsn |-> CursorChunk.lsn]]]
            /\ cont' = Start(ToFrontier)
            /\ UNCHANGED <<cur, adm, out>>
       ELSE /\ ForwardFrontier
            /\ adm' = 0 /\ cont' = None
            /\ UNCHANGED st
    /\ UNCHANGED in

AggregateStep == Apply \/ GroupPage \/ RebuildPage \/ Decide \/ InsertPending \/ PassFrontier

\* The query: one row for every group that is present.
AggregateQuery(table) ==
    {{[row |-> Desired(table, k), n |-> 1] :
        k \in {k \in KeysOf(Grouped) : Desired(table, k) # None}}}
=============================================================================
