------------------------------ MODULE Distinct ------------------------------
(***************************************************************************)
(* The Distinct kernel (execution/distinct): for every key it publishes    *)
(* one representative, the row with the least canonical row key among the  *)
(* rows present.  One page of input is applied to the bag, the touched     *)
(* keys are reconciled in the same transaction, and what changes is queued *)
(* and drained page by page before more input is read.                     *)
(*                                                                         *)
(* st = [bag, mult, repr, queue]: multiplicity of every physical row, of   *)
(* every key, the published representative of every key, queued effects.   *)
(* cont = [phase, at].  The touched-key scratch relation lives and dies in *)
(* one transaction and is left out; effects of different keys are queued   *)
(* in some fixed order of the keys.                                        *)
(***************************************************************************)
EXTENDS OperatorStage

DistinctInit ==
    /\ StageInit
    /\ st = [bag |-> NoRows, mult |-> [k \in Keys |-> 0],
             repr |-> [k \in Keys |-> None], queue |-> <<>>]

\* The least row of key k that is present in a bag.
Representative(bag, k) ==
    LET present == {r \in Rows : Key[r] = k /\ bag[r] > 0}
    IN IF present = {} THEN None
       ELSE CHOOSE r \in present : \A q \in present : Rank[r] <= Rank[q]

\* reconcile_representatives, `effects`: the legs of one key.
KeyEffects(old, bag, k) == Legs(old, Representative(bag, k))

\* finish_input_position: on to the rest of the chunk, or past it.
FinishPosition(at) ==
    IF at < Len(CursorChunk.rows)
    THEN cont' = [phase |-> "apply", at |-> at] /\ UNCHANGED cur
    ELSE cont' = None /\ Advance(cur.frontier)

At == IF cont = None THEN 0 ELSE cont.at

\* run_prefix, `collapsed`, `key_decision`: the keys of a page, and the
\* multiplicity of every key after it.
Touched(page) == {Key[page[i].row] : i \in DOMAIN page}
KeyMult(page) ==
    [k \in Keys |->
        st.mult[k] + Total([i \in DOMAIN page |-> IF Key[page[i].row] = k THEN page[i].w ELSE 0])]

\* reconcile_representatives, `validation`: a key has a representative when
\* and only when it has rows, before and after.
Consistent(touched, bag, mult) ==
    \A k \in touched :
        /\ st.mult[k] > 0 <=> st.repr[k] # None
        /\ mult[k] > 0 <=> Representative(bag, k) # None

\* reconcile_representatives, `queued`: what the touched keys change.
Reconciled(touched, bag) ==
    FlattenSeq([i \in 1 .. Cardinality(touched) |->
        LET k == SetToSeq(touched)[i] IN KeyEffects(st.repr[k], bag, k)])

\* step, in the Apply phase.
Apply ==
    /\ AtData /\ (cont # None => cont.phase = "apply")
    /\ st.queue = <<>>
    /\ \E page \in {InputPage(At)} :
       \E touched \in {Touched(page)}, bag \in {Applied(st.bag, page)}, mult \in {KeyMult(page)} :
       \E effects \in {Reconciled(touched, bag)} :
         /\ Applicable(st.bag, page) /\ Consistent(touched, bag, mult)
         /\ st' = [bag |-> bag, mult |-> mult, queue |-> effects,
                   repr |-> [k \in Keys |-> IF k \in touched THEN Representative(bag, k)
                                            ELSE st.repr[k]]]
         /\ IF effects = <<>> THEN FinishPosition(At + Len(page))
            ELSE cont' = [phase |-> "drain", at |-> At + Len(page)] /\ UNCHANGED cur
    /\ UNCHANGED <<in, adm, out>>

\* drain_queue: one output page; the input position moves on once all is out.
Drain ==
    /\ cont # None /\ cont.phase = "drain"
    /\ LET n == Min({Len(st.queue), BatchRows, TargetRows})
       IN /\ n > 0
          /\ Emit(Data(CursorChunk.lsn, SubSeq(st.queue, 1, n)))
          /\ st' = [st EXCEPT !.queue = SubSeq(@, n + 1, Len(@))]
          /\ IF n < Len(st.queue) THEN UNCHANGED <<cont, cur>> ELSE FinishPosition(cont.at)
    /\ UNCHANGED <<in, adm>>

PassFrontier ==
    /\ AtFrontier /\ cont = None
    /\ st.queue = <<>>
    /\ ForwardFrontier
    /\ UNCHANGED <<in, adm, cont, st>>

DistinctStep == Apply \/ Drain \/ PassFrontier

\* The query: one row, the least, for every key that is present.
DistinctQuery(table) ==
    {{[row |-> Representative(table, k), n |-> 1] :
        k \in {k \in Keys : Representative(table, k) # None}}}
=============================================================================
