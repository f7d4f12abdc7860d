-------------------------------- MODULE TopN --------------------------------
(***************************************************************************)
(* The TopN kernel (execution/topn): ORDER BY with OFFSET, LIMIT and WITH  *)
(* TIES.  Input pages are applied to a bag; a drain selects the candidate  *)
(* rows page by page, compares them with the visible ones in a removing    *)
(* and an adding leg, publishes the differences, and deletes the           *)
(* candidates again.                                                       *)
(*                                                                         *)
(* st = [bag, ids, cand, visible, lsn]: multiplicities; the rows present   *)
(* in entry_id order; candidate and visible output rows, sequences of      *)
(* [row, n] in id order; the greatest LSN since the last drain (0: not     *)
(* dirty).  cont is [phase, at] with `after` in a drain; a selection also  *)
(* keeps off, lim and tie: OFFSET and LIMIT still to do, and the boundary  *)
(* row once LIMIT is done.  The generation of the candidates is left       *)
(* out: they are all of the drain under way.                               *)
(***************************************************************************)
EXTENDS VisibleDiff

CONSTANTS
    Project,      \* [Rows -> output row]
    Limit, Offset, WithTies

TopNInit ==
    /\ StageInit
    /\ st = [bag |-> NoRows, ids |-> <<>>, cand |-> <<>>, visible |-> <<>>, lsn |-> 0]

\* initial_topn_drain_phase
Select(at, off, lim, tie, after) ==
    [phase |-> "select", at |-> at, off |-> off, lim |-> lim, tie |-> tie, after |-> after]
Leg(phase, at, after) == [phase |-> phase, at |-> at, after |-> after]
Start(after) ==
    IF Limit = 0 THEN Leg("remove", 0, after) ELSE Select(0, Offset, Limit, None, after)

\* start_topn_continuation
Loaded ==
    IF cont # None THEN cont
    ELSE IF AtData THEN Input("apply", 0)
    ELSE IF st.lsn # 0 THEN Start(ToFrontier)
    ELSE Input("frontier", 0)

Runnable == cont # None \/ Pending

\* validate_topn_control_state, before every step
ControlValid == st.lsn # 0 => adm > 0

\* run_topn_admission
Apply ==
    /\ Runnable /\ Loaded.phase = "apply" /\ ControlValid
    /\ st.cand = <<>>
    /\ \E page \in {InputPage(Loaded.at)} :
         /\ Applicable(st.bag, page)
         /\ st' = [st EXCEPT !.bag = Applied(@, page),
                             !.ids = RowIds(@, st.bag, Applied(st.bag, page)),
                             !.lsn = Max({@, CursorChunk.lsn})]
    /\ Admit(Loaded.at)
    /\ LET target == AdmissionTarget(Loaded.at)
       IN cont' = IF target.drains THEN Start(target.after) ELSE AfterDrain(target.after)
    /\ UNCHANGED <<in, out>>
-----------------------------------------------------------------------------
\* `bounded`: the rows after the cursor in the order of the query.
Order == SortedBy(st.ids, Rank)
Bounded(at) == SubSeq(Order, at + 1, Least(Len(Order), at + BatchRows))

\* `available`: how many copies of each row of a page OFFSET leaves, and how
\* many of a sequence come before position i.
Before(counts, i) == Total(SubSeq(counts, 1, i - 1))
Available(page, off) ==
    LET copies == [i \in DOMAIN page |-> st.bag[page[i]]]
    IN [i \in DOMAIN page |-> copies[i] - Least(copies[i], Positive(off - Before(copies, i)))]

\* `boundary_choice`: the row at which LIMIT is reached, with its place on the
\* page (0 when an earlier page found it), if there is one.
Boundary(page, avail, progress) ==
    LET reached == {i \in DOMAIN page :
                      /\ WithTies /\ progress.lim > 0 /\ avail[i] > 0
                      /\ Before(avail, i) < progress.lim
                      /\ Before(avail, i) + avail[i] >= progress.lim}
    IN IF progress.tie # None THEN {[row |-> progress.tie, i |-> 0]}
       ELSE {[row |-> page[i], i |-> i] : i \in reached}

Tied(row, boundary) == \E b \in boundary : Rank[row] = Rank[b.row]

\* `take_weight`: how many copies of each row of the page are candidates.
Take(page, avail, progress, boundary) ==
    [i \in DOMAIN page |->
        IF boundary = {} THEN Least(avail[i], Positive(progress.lim - Before(avail, i)))
        ELSE IF (\E b \in boundary : i < b.i) \/ Tied(page[i], boundary) THEN avail[i]
        ELSE 0]

\* The candidates a page adds.
Weights(page, take) ==
    [r \in Range(Project) |->
        Total([i \in DOMAIN page |-> IF Project[page[i]] = r THEN take[i] ELSE 0])]

\* Mutant: the end of the order does not end the selection.
SelectsOn(page, at, lim, boundary) ==
    \/ ~WithTies /\ lim = 0
    \/ \E b \in boundary : \E i \in DOMAIN page : i > b.i /\ ~Tied(page[i], boundary)

\* Whether a page is the last one: the order is exhausted, LIMIT is done, or a
\* row ranks behind the boundary.
Complete(page, at, lim, boundary) ==
    \/ at = Len(st.ids)
    \/ ~WithTies /\ lim = 0
    \/ \E b \in boundary : \E i \in DOMAIN page : i > b.i /\ ~Tied(page[i], boundary)

\* TopNPage::validate: the cursor is the entry_id of the last row of a page, and
\* a page that is not the last one may not end on a lesser one than the page
\* before it, although the rows come in the order of the query.
CursorAccepted(page, at) ==
    LET EntryId(row) == CHOOSE i \in DOMAIN st.ids : st.ids[i] = row
    IN at > 0 => EntryId(Last(page)) >= EntryId(Order[at])

\* run_topn_selection and apply_selection: one page of the ordered bag.
SelectPage ==
    /\ Runnable /\ Loaded.phase = "select" /\ ControlValid
    /\ \E page \in {Bounded(Loaded.at)} :
       \E avail \in {Available(page, Loaded.off)} :
       \E boundary \in {Boundary(page, avail, Loaded)} :
       \E weights \in {Weights(page, take) : take \in {Take(page, avail, Loaded, boundary)}} :
         LET at == Loaded.at + Len(page)
             off == Positive(Loaded.off - Total([i \in DOMAIN page |-> st.bag[page[i]]]))
             lim == Positive(Loaded.lim - Total(avail))
             tie == IF boundary = {} THEN None ELSE (CHOOSE b \in boundary : TRUE).row
         IN /\ st' = [st EXCEPT !.cand = Added(@, weights)]
            /\ \/ /\ Complete(page, at, lim, boundary)
                  /\ cont' = Leg("remove", 0, Loaded.after)
               \/ /\ ~Complete(page, at, lim, boundary)
                  /\ page # <<>> /\ CursorAccepted(page, Loaded.at)
                  /\ cont' = Select(at, off, lim, tie, Loaded.after)
    /\ UNCHANGED <<in, cur, adm, out>>

\* The transition that is due is a page that is refused.
SelectionRefused ==
    /\ Runnable /\ Loaded.phase = "select" /\ Loaded.at + BatchRows < Len(st.ids)
    /\ \E page \in {Bounded(Loaded.at)} :
         /\ ~CursorAccepted(page, Loaded.at)
         /\ \E avail \in {Available(page, Loaded.off)} :
              ~Complete(page, Loaded.at + Len(page), Positive(Loaded.lim - Total(avail)),
                        Boundary(page, avail, Loaded))
-----------------------------------------------------------------------------
\* run_topn_diff: one page of the removing or of the adding leg.
RemovePage ==
    /\ Runnable /\ Loaded.phase = "remove" /\ ControlValid /\ st.lsn # 0
    /\ \E page \in {Compared(st.visible, st.cand, Loaded.at)} :
       \E effects \in {Differences(page, -1)} :
       \E leg \in {RemoveLeg(st.visible, Loaded.at, page, effects)} :
         /\ EmitDifferences(st.lsn, effects)
         /\ st' = [st EXCEPT !.visible = leg.visible]
         /\ cont' = IF leg.done THEN Leg("add", 0, Loaded.after)
                    ELSE Leg("remove", leg.at, Loaded.after)
    /\ UNCHANGED <<in, cur, adm>>

AddPage ==
    /\ Runnable /\ Loaded.phase = "add" /\ ControlValid /\ st.lsn # 0
    /\ \E page \in {Compared(st.cand, st.visible, Loaded.at)} :
       \E effects \in {Differences(page, 1)} :
       \E leg \in {AddLeg(st.visible, st.cand, Loaded.at, page, effects)} :
         /\ EmitDifferences(st.lsn, effects)
         /\ st' = [st EXCEPT !.visible = leg.visible]
         /\ cont' = IF leg.done THEN Leg("clean", 0, Loaded.after)
                    ELSE Leg("add", leg.at, Loaded.after)
    /\ UNCHANGED <<in, cur, adm>>

\* run_topn_cleanup, and finish_topn_drain with the last page.
CleanPage ==
    /\ Runnable /\ Loaded.phase = "clean" /\ ControlValid
    /\ \E left \in {SubSeq(st.cand, BatchRows + 1, Len(st.cand))} :
         /\ left = <<>> => st.lsn # 0
         /\ st' = [st EXCEPT !.cand = left, !.lsn = IF left = <<>> THEN 0 ELSE @]
         /\ cont' = IF left = <<>> THEN AfterDrain(Loaded.after) ELSE Loaded
    /\ UNCHANGED <<in, cur, adm, out>>

\* run_topn_frontier
PassFrontier ==
    /\ Runnable /\ Loaded.phase = "frontier" /\ ControlValid
    /\ ForwardFrontier
    /\ adm' = 0 /\ cont' = None
    /\ UNCHANGED <<in, st>>

TopNStep == Apply \/ SelectPage \/ RemovePage \/ AddPage \/ CleanPage \/ PassFrontier
-----------------------------------------------------------------------------
\* The query, for one order of the rows: skip Offset copies, take Limit, and
\* with ties every further copy that ranks like the last one taken.
AllCopies(table, order) ==
    FlattenSeq([i \in DOMAIN order |-> [j \in 1 .. table[order[i]] |-> order[i]]])
Selected(copies) ==
    LET end == Offset + Limit
    IN {i \in DOMAIN copies :
          /\ i > Offset /\ Limit > 0
          /\ i <= end \/ (WithTies /\ Rank[copies[i]] = Rank[copies[end]])}

TopNQuery(table) ==
    LET orders == {o \in SetToSeqs({r \in Rows : table[r] > 0}) :
                     \A i, j \in DOMAIN o : i < j => Rank[o[i]] <= Rank[o[j]]}
        times(copies, r) == Cardinality({i \in Selected(copies) : Project[copies[i]] = r})
        result(copies) == {[row |-> r, n |-> times(copies, r)] :
                             r \in {r \in Range(Project) : times(copies, r) > 0}}
    IN {result(AllCopies(table, o)) : o \in orders}
=============================================================================
