----------------------------- MODULE Operators ------------------------------
(***************************************************************************)
(* The stateful operators with one input behind one dispatch               *)
(* (execution/dispatcher.rs): a stage has a kind, and a transition of the  *)
(* stage is a transition of that kind's kernel.  What each of them owes    *)
(* the rest of the dataflow is the same and is stated here once.           *)
(***************************************************************************)
EXTENDS OperatorStage

CONSTANTS
    Kinds,                                    \* the kinds a stage may have
    Aggregates,                               \* Aggregate
    MaxWeight,                                \* TopN and Window
    Project, Limit, Offset,                   \* TopN
    Functions, Frame, Argument, FoldItems,    \* Window with PARTITION BY
    GlobalFunctions, GlobalFrame              \* Window without it

VARIABLE kind     \* the kind of the stage

vars == <<stageVars, kind>>

D == INSTANCE Distinct
A == INSTANCE Aggregate WITH Grouped <- TRUE
G == INSTANCE Aggregate WITH Grouped <- FALSE
T == INSTANCE TopN WITH WithTies <- TRUE
L == INSTANCE TopN WITH WithTies <- FALSE
R == INSTANCE TopN WITH WithTies <- TRUE, BatchRows <- 1     \* shiba.batch_rows = 1
S == INSTANCE TopN WITH WithTies <- FALSE, BatchRows <- 1
W == INSTANCE Window WITH Partitioned <- TRUE
V == INSTANCE Window WITH Partitioned <- FALSE,
                          Functions <- GlobalFunctions, Frame <- GlobalFrame

\* What the kernels assume of their plans.  RANGE offsets are refused when the
\* plan is made (validate_window_frame).
FrameValid(frame) ==
    frame.mode = "range" => "offset" \notin {frame.start.kind, frame.end.kind}

ASSUME OperatorsAssumption ==
    /\ Len(Aggregates) > 0
    /\ \A i \in DOMAIN Aggregates :
         Aggregates[i].keep \subseteq Rows /\ Aggregates[i].arg \in [Rows -> Nat]
    /\ Limit \in Nat /\ Offset \in Nat /\ DOMAIN Project = Rows
    /\ MaxWeight \in Nat \ {0} /\ FoldItems \in Nat \ {0}
    /\ \A functions \in {Functions, GlobalFunctions} :
         Len(functions) > 0 /\ Range(functions) \subseteq W!Natives \cup {"sum"}
    /\ FrameValid(Frame) /\ FrameValid(GlobalFrame)

Init ==
    /\ kind \in Kinds
    /\ CASE kind = "distinct" -> D!DistinctInit
         [] kind = "aggregate" -> A!AggregateInit
         [] kind = "global aggregate" -> G!AggregateInit
         [] kind = "ties" -> T!TopNInit
         [] kind = "limit" -> L!TopNInit
         [] kind = "ties, single rows" -> R!TopNInit
         [] kind = "limit, single rows" -> S!TopNInit
         [] kind = "window" -> W!WindowInit
         [] kind = "global window" -> V!WindowInit

\* dispatch_stage: one kernel transition, one transaction.
Step ==
    /\ \/ kind = "distinct" /\ D!DistinctStep
       \/ kind = "aggregate" /\ A!AggregateStep
       \/ kind = "global aggregate" /\ G!AggregateStep
       \/ kind = "ties" /\ T!TopNStep
       \/ kind = "limit" /\ L!TopNStep
       \/ kind = "ties, single rows" /\ R!TopNStep
       \/ kind = "limit, single rows" /\ S!TopNStep
       \/ kind = "window" /\ W!WindowStep
       \/ kind = "global window" /\ V!WindowStep
    /\ UNCHANGED kind

Next == (Upstream /\ UNCHANGED kind) \/ Step

\* The scheduler goes on to dispatch a stage whose durable state says it has
\* work.
Spec == Init /\ [][Next]_vars /\ WF_vars(Step)
-----------------------------------------------------------------------------
\* At every frontier it publishes, the operator's output adds up to a result
\* of the query on the input up to that LSN: no page boundary, admission
\* threshold, epoch drain or unfinished partition, group or selection shows.
Exact ==
    CASE kind = "distinct" -> ExactAtFrontier(D!DistinctQuery)
      [] kind = "aggregate" -> ExactAtFrontier(A!AggregateQuery)
      [] kind = "global aggregate" -> ExactAtFrontier(G!AggregateQuery)
      [] kind = "ties" -> ExactAtFrontier(T!TopNQuery)
      [] kind = "limit" -> ExactAtFrontier(L!TopNQuery)
      [] kind = "ties, single rows" -> ExactAtFrontier(R!TopNQuery)
      [] kind = "limit, single rows" -> ExactAtFrontier(S!TopNQuery)
      [] kind = "window" -> ExactAtFrontier(W!WindowQuery)
      [] kind = "global window" -> ExactAtFrontier(V!WindowQuery)

\* Every chunk can be applied by what is downstream as one batch: it deletes
\* only rows that were published before it.
PublishedRetractable == Retractable

\* A TopN stage that fails on every restart, because a page of its selection
\* ends on a row with a lesser entry_id than the page before it.
SelectionStuck ==
    \/ kind = "ties" /\ T!SelectionRefused
    \/ kind = "limit" /\ L!SelectionRefused
    \/ kind = "ties, single rows" /\ R!SelectionRefused
    \/ kind = "limit, single rows" /\ S!SelectionRefused

\* Whatever continuation a stage is left in, it comes to every frontier of its
\* input: no transition fails for good, and no phase goes round for ever, but
\* for a TopN selection whose cursor is refused (apply_selection).
FrontiersPass ==
    <>[](LsnsClosed /\ ~SelectionStuck => \A i \in Of(in, "frontier") : cur.next > i)
-----------------------------------------------------------------------------
(* Not guaranteed by the code: see "Limits of the claims" in the README.     *)

\* Every page of a selection is accepted, in whatever order the rows entered.
SelectionSucceeds == ~SelectionStuck
=============================================================================
