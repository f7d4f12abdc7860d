--------------------------- MODULE RuntimeIdentity ---------------------------
(***************************************************************************)
(* Who is the Runtime of a database: the launch of its background worker   *)
(* by a user transaction, the claim of its identity, crashes and automatic *)
(* restarts, and activation, registration and deactivation (lifecycle.rs,  *)
(* worker.rs, runtime/scheduler.rs, sql/10_runtime.sql,                    *)
(* sql/40_lifecycle.sql).                                                  *)
(*                                                                         *)
(* Two advisory locks: `lock` is the identity, held by a transaction to    *)
(* its end or by a Runtime process to its death; `life` serialises the     *)
(* lifecycle operations.  The row of runtime_state has a committed version *)
(* and at most one uncommitted one, whose writer holds the row lock.  What *)
(* a transaction does outside the catalog (the worker registration, the    *)
(* replication slot) is immediate and survives its rollback.               *)
(*                                                                         *)
(* A transaction makes one call.  Its locks go a step after its outcome is *)
(* visible.  The five seconds after which a launch counts as lost may pass *)
(* at any time.                                                            *)
(***************************************************************************)
EXTENDS Integers

CONSTANTS
    Txns,          \* user transactions; also names the worker each may launch
    None,
    MayAbort,      \* whether transactions roll back
    Lifecycle,     \* whether activate, register and deactivate are called
    MaxCrashes,    \* bound: deaths of Runtime processes
    MaxReboots     \* bound: restarts of the PostgreSQL server

ASSUME RuntimeAssumption ==
    /\ None \notin Txns
    /\ MayAbort \in BOOLEAN /\ Lifecycle \in BOOLEAN
    /\ MaxCrashes \in Nat /\ MaxReboots \in Nat

VARIABLES
    row,       \* runtime_state: [active, owner, gen, pending]
    draft,     \* its uncommitted version, [by, row]
    lock,      \* identity lock: [kind, of]
    life,      \* lifecycle lock: a transaction or None
    txn,       \* [transaction -> [st, todo, kind]]
    worker,    \* [transaction -> [st, gen, pid]]: the worker it registered
    slot,      \* the logical replication slot exists
    dataflow,  \* a dataflow is registered
    crashes,   \* deaths of Runtime processes so far
    reboots    \* server restarts so far

vars == <<row, draft, lock, life, txn, worker, slot, dataflow, crashes, reboots>>

Free == [kind |-> "free", of |-> None]
ByTxn(t) == [kind |-> "txn", of |-> t]
ByRuntime(w) == [kind |-> "runtime", of |-> w]
NoDraft == [by |-> None, row |-> None]

\* A process identifier: every process of a worker has its own.
NoPid == [of |-> None, run |-> 0]
Pid(w) == [of |-> w, run |-> worker[w].pid]

\* What transaction t reads of runtime_state, and whether its UPDATE waits.
Seen(t) == IF draft.by = t THEN draft.row ELSE row
Writable(t) == draft.by \in {None, t}

Init ==
    /\ row = [active |-> ~Lifecycle, owner |-> NoPid, gen |-> 0, pending |-> None]
    /\ draft = NoDraft /\ lock = Free /\ life = None
    /\ txn = [t \in Txns |-> [st |-> "idle", todo |-> "none", kind |-> "none"]]
    /\ worker = [t \in Txns |-> [st |-> "none", gen |-> 0, pid |-> 0]]
    /\ slot = ~Lifecycle /\ dataflow = FALSE
    /\ crashes = 0 /\ reboots = 0

Call(t, kind, todo) ==
    /\ txn[t].st = "idle"
    /\ txn' = [txn EXCEPT ![t] = [st |-> "in progress", todo |-> todo, kind |-> kind]]
Continue(t, todo) == txn' = [txn EXCEPT ![t].todo = todo]
-----------------------------------------------------------------------------
\* _request_runtime: the trigger of a source write.
Write(t) ==
    /\ slot
    /\ Call(t, "write", "identity")
    /\ UNCHANGED <<row, draft, lock, life, worker, slot, dataflow, crashes, reboots>>

\* Mutant: the lifecycle lock is not waited for.
Unserialised(t) == TRUE

\* _lock_database_lifecycle.
LifecycleLock(t) == life = None

\* activate_database: create the slot, then mark the database active.
Activate(t) ==
    /\ Lifecycle /\ LifecycleLock(t) /\ (row.active \/ Writable(t))
    /\ Call(t, "activate", "identity")
    /\ life' = t
    /\ slot' = TRUE
    /\ draft' = IF row.active THEN draft
                ELSE [by |-> t, row |-> [row EXCEPT !.active = TRUE, !.pending = None]]
    /\ UNCHANGED <<row, lock, worker, dataflow, crashes, reboots>>

\* _begin_dataflow_registration and register, up to its last statement: an
\* active ingress generation, which exists while the database is active.
Register(t) ==
    /\ Lifecycle /\ LifecycleLock(t) /\ row.active
    /\ Call(t, "register", "identity")
    /\ life' = t
    /\ UNCHANGED <<row, draft, lock, worker, slot, dataflow, crashes, reboots>>

\* deactivate_database, up to the first try for the identity.
Deactivate(t) ==
    /\ Lifecycle /\ LifecycleLock(t) /\ ~dataflow
    /\ Call(t, "deactivate", "stop")
    /\ life' = t
    /\ UNCHANGED <<row, draft, lock, worker, slot, dataflow, crashes, reboots>>

\* Mutant: the launch does not look at the identity.
AlwaysFree(t) == TRUE

\* pg_try_advisory_xact_lock on the identity.
IdentityFree(t) == lock = Free

\* prepare_runtime_launch, its try for the identity: someone else holds it, so
\* someone else sees to the Runtime.
TryIdentity(t) ==
    /\ txn[t].todo = "identity"
    /\ IF IdentityFree(t)
       THEN lock' = ByTxn(t) /\ Continue(t, "launch")
       ELSE UNCHANGED lock /\ Continue(t, "none")
    /\ UNCHANGED <<row, draft, life, worker, slot, dataflow, crashes, reboots>>

\* prepare_runtime_launch, its UPDATE: no launch is pending, or one of another
\* transaction for more than five seconds.  start_runtime then registers the
\* worker with this transaction and the new generation.
Launchable(t) ==
    /\ Seen(t).active
    /\ Seen(t).pending # t

\* Mutant: the generation goes back.
EarlierGeneration(t) ==
    [Seen(t) EXCEPT !.owner = NoPid, !.gen = @ - 1, !.pending = t]

LaunchRow(t) ==
    [Seen(t) EXCEPT !.owner = NoPid, !.gen = @ + 1, !.pending = t]

Launch(t) ==
    /\ txn[t].todo = "launch" /\ Writable(t)
    /\ Launchable(t)
    /\ draft' = [by |-> t, row |-> LaunchRow(t)]
    /\ worker' = [worker EXCEPT ![t] = [st |-> "waiting", gen |-> LaunchRow(t).gen, pid |-> 0]]
    /\ Continue(t, "none")
    /\ UNCHANGED <<row, lock, life, slot, dataflow, crashes, reboots>>

\* The UPDATE finds no row, and does not wait for one: inactive, or a launch that may still succeed.
LaunchNothing(t) ==
    /\ txn[t].todo = "launch"
    /\ ~Seen(t).active \/ Seen(t).pending # None
    /\ Continue(t, "none")
    /\ UNCHANGED <<row, draft, lock, life, worker, slot, dataflow, crashes, reboots>>
-----------------------------------------------------------------------------
\* stop_runtime_for_deactivation waits for the identity ...
StopIdentity(t) ==
    /\ txn[t].todo = "stop"
    /\ IdentityFree(t)
    /\ lock' = ByTxn(t) /\ Continue(t, "retire")
    /\ UNCHANGED <<row, draft, life, worker, slot, dataflow, crashes, reboots>>

\* ... and meanwhile asks the recorded owner to stop: SIGINT ends the loop of
\* the Runtime; SIGTERM, a second later, kills the process.
Signalled ==
    {w \in Txns : row.owner = Pid(w) /\ worker[w].st \in {"running", "stopping", "leaving"}}
Cancel(t) ==
    /\ txn[t].todo = "stop" /\ ~IdentityFree(t)
    /\ \E w \in Signalled :
         /\ worker[w].st = "running"
         /\ worker' = [worker EXCEPT ![w].st = "stopping"]
    /\ UNCHANGED <<row, draft, lock, life, txn, slot, dataflow, crashes, reboots>>

Dies(w) ==
    /\ worker' = [worker EXCEPT ![w].st = "dead"]
    /\ lock' = IF lock = ByRuntime(w) THEN Free ELSE lock
Terminate(t) ==
    /\ txn[t].todo = "stop" /\ ~IdentityFree(t)
    /\ crashes < MaxCrashes
    /\ \E w \in Signalled : Dies(w)
    /\ crashes' = crashes + 1
    /\ UNCHANGED <<row, draft, life, txn, slot, dataflow, reboots>>

\* deactivate_database, the rest: the row, then the slot.
Retire(t) ==
    /\ txn[t].todo = "retire" /\ Writable(t)
    /\ draft' = [by |-> t,
                 row |-> [Seen(t) EXCEPT !.active = FALSE, !.owner = NoPid, !.pending = None]]
    /\ slot' = FALSE
    /\ Continue(t, "none")
    /\ UNCHANGED <<row, lock, life, worker, dataflow, crashes, reboots>>
-----------------------------------------------------------------------------
Commit(t) ==
    /\ txn[t].st = "in progress" /\ txn[t].todo = "none"
    /\ txn' = [txn EXCEPT ![t].st = "committed"]
    /\ row' = Seen(t)
    /\ draft' = IF draft.by = t THEN NoDraft ELSE draft
    /\ dataflow' = (dataflow \/ txn[t].kind = "register")
    /\ UNCHANGED <<lock, life, worker, slot, crashes, reboots>>

\* DROP TABLE of the result, in a transaction of its own.
DropDataflow ==
    /\ dataflow
    /\ dataflow' = FALSE
    /\ UNCHANGED <<row, draft, lock, life, txn, worker, slot, crashes, reboots>>

\* An error, a timeout of the wait for the identity, or ROLLBACK.
Abort(t) ==
    /\ MayAbort /\ txn[t].st = "in progress"
    /\ txn' = [txn EXCEPT ![t].st = "aborted", ![t].todo = "none"]
    /\ draft' = IF draft.by = t THEN NoDraft ELSE draft
    /\ UNCHANGED <<row, lock, life, worker, slot, dataflow, crashes, reboots>>

Release(t) ==
    /\ txn[t].st \in {"committed", "aborted"}
    /\ lock = ByTxn(t) \/ life = t
    /\ lock' = IF lock = ByTxn(t) THEN Free ELSE lock
    /\ life' = IF life = t THEN None ELSE life
    /\ UNCHANGED <<row, draft, txn, worker, slot, dataflow, crashes, reboots>>
-----------------------------------------------------------------------------
\* The row still names this launch (the busy identity of claim_runtime_identity
\* also asks for no owner).
Mine(w) == row.active /\ row.gen = worker[w].gen /\ row.pending \in {w, None}

SetWorker(w, st) == worker' = [worker EXCEPT ![w].st = st]

\* wait_for_launch_transaction.
LaunchSeen(w) ==
    /\ worker[w].st = "waiting"
    /\ \/ txn[w].st = "committed" /\ SetWorker(w, "claiming")
       \/ txn[w].st = "aborted" /\ SetWorker(w, "gone")
    /\ UNCHANGED <<row, draft, lock, life, txn, slot, dataflow, crashes, reboots>>

\* claim_runtime_identity: the identity is free and taken for the session ...
ClaimIdentity(w) ==
    /\ worker[w].st = "claiming" /\ lock = Free
    /\ lock' = ByRuntime(w)
    /\ SetWorker(w, "recording")
    /\ UNCHANGED <<row, draft, life, txn, slot, dataflow, crashes, reboots>>

\* Mutant: a busy identity is never tried again.
GivesUp(w) == TRUE

\* ... or busy: Retry leaves the state alone, Rejected ends the process for good.
Rejects(w) == ~(Mine(w) /\ row.owner = NoPid)

ClaimRejected(w) ==
    /\ worker[w].st = "claiming" /\ lock # Free
    /\ Rejects(w)
    /\ SetWorker(w, "gone")
    /\ UNCHANGED <<row, draft, lock, life, txn, slot, dataflow, crashes, reboots>>

\* Mutant: any generation may record itself.
AnyGeneration(w) == row.active /\ row.pending \in {w, None}

\* The UPDATE's condition.
Recordable(w) == Mine(w)

\* The UPDATE that records the owner; it waits for an uncommitted version only
\* of a row that it would change.
RecordOwner(w) ==
    /\ worker[w].st = "recording"
    /\ IF Recordable(w)
       THEN /\ draft.by = None
            /\ row' = [row EXCEPT !.owner = Pid(w), !.pending = None]
            /\ SetWorker(w, "running")
       ELSE SetWorker(w, "unlocking") /\ UNCHANGED row
    /\ UNCHANGED <<draft, lock, life, txn, slot, dataflow, crashes, reboots>>

UnlockIdentity(w) ==
    /\ worker[w].st = "unlocking"
    /\ lock' = Free
    /\ SetWorker(w, "gone")
    /\ UNCHANGED <<row, draft, life, txn, slot, dataflow, crashes, reboots>>

\* clear_runtime_owner after the loop, then the end of the process, for good.
ClearOwner(w) ==
    /\ worker[w].st = "stopping" /\ draft.by = None
    /\ row' = IF row.owner = Pid(w) THEN [row EXCEPT !.owner = NoPid] ELSE row
    /\ SetWorker(w, "leaving")
    /\ UNCHANGED <<draft, lock, life, txn, slot, dataflow, crashes, reboots>>

Exit(w) ==
    /\ worker[w].st = "leaving"
    /\ lock' = Free
    /\ SetWorker(w, "gone")
    /\ UNCHANGED <<row, draft, life, txn, slot, dataflow, crashes, reboots>>

\* A panic anywhere; the registration has a restart time of one second.
Crash(w) ==
    /\ crashes < MaxCrashes
    /\ worker[w].st \in {"waiting", "claiming", "recording", "running", "stopping"}
    /\ Dies(w)
    /\ crashes' = crashes + 1
    /\ UNCHANGED <<row, draft, life, txn, slot, dataflow, reboots>>

Restart(w) ==
    /\ worker[w].st = "dead"
    /\ worker' = [worker EXCEPT ![w].st = "waiting", ![w].pid = @ + 1]
    /\ UNCHANGED <<row, draft, lock, life, txn, slot, dataflow, crashes, reboots>>

\* The server restarts.  Registrations survive a crash of the server, a new
\* postmaster has none.
Reboot ==
    /\ reboots < MaxReboots
    /\ \E st \in {"dead", "gone"} :
         worker' = [w \in Txns |->
                      IF worker[w].st \in {"none", "gone"} THEN worker[w]
                      ELSE [worker[w] EXCEPT !.st = st]]
    /\ txn' = [t \in Txns |->
                 IF txn[t].st = "in progress"
                 THEN [txn[t] EXCEPT !.st = "aborted", !.todo = "none"] ELSE txn[t]]
    /\ draft' = NoDraft /\ lock' = Free /\ life' = None
    /\ reboots' = reboots + 1
    /\ UNCHANGED <<row, slot, dataflow, crashes>>
-----------------------------------------------------------------------------
TxnStep(t) ==
    \/ TryIdentity(t) \/ Launch(t) \/ LaunchNothing(t)
    \/ StopIdentity(t) \/ Cancel(t) \/ Terminate(t) \/ Retire(t)
    \/ Commit(t) \/ Release(t)
WorkerStep(w) ==
    \/ LaunchSeen(w) \/ ClaimIdentity(w) \/ ClaimRejected(w)
    \/ RecordOwner(w) \/ UnlockIdentity(w) \/ ClearOwner(w) \/ Exit(w) \/ Restart(w)

Next ==
    \/ \E t \in Txns : Write(t) \/ Activate(t) \/ Register(t) \/ Deactivate(t)
    \/ \E t \in Txns : TxnStep(t) \/ Abort(t)
    \/ \E w \in Txns : WorkerStep(w) \/ Crash(w)
    \/ DropDataflow \/ Reboot

Spec == Init /\ [][Next]_vars

\* A transaction that has begun ends and a process that can proceed does.
\* Nothing obliges anyone to call, a dataflow to be dropped or a process to die.
FairSpec == Spec /\ \A t \in Txns : WF_vars(TxnStep(t)) /\ WF_vars(WorkerStep(t))
-----------------------------------------------------------------------------
RowType ==
    [active : BOOLEAN, gen : Nat, pending : Txns \cup {None},
     owner : [of : Txns \cup {None}, run : Nat]]
DraftType == {NoDraft} \cup [by : Txns, row : RowType]
LockType == {Free} \cup {ByTxn(t) : t \in Txns} \cup {ByRuntime(t) : t \in Txns}
Outcomes == {"idle", "in progress", "committed", "aborted"}
Todos == {"none", "identity", "launch", "stop", "retire"}
Kinds == {"none", "write", "activate", "register", "deactivate"}
Stages ==
    {"none", "waiting", "claiming", "recording", "unlocking", "running",
     "stopping", "leaving", "dead", "gone"}
TypeOK ==
    /\ row \in RowType
    /\ draft \in DraftType
    /\ lock \in LockType
    /\ life \in Txns \cup {None}
    /\ txn \in [Txns -> [st : Outcomes, todo : Todos, kind : Kinds]]
    /\ worker \in [Txns -> [st : Stages, gen : Nat, pid : Nat]]
    /\ slot \in BOOLEAN /\ dataflow \in BOOLEAN
    /\ crashes \in 0 .. MaxCrashes /\ reboots \in 0 .. MaxReboots

Running == {w \in Txns : worker[w].st = "running"}

\* There is one Runtime at most, and runtime_state names its process: the
\* wakeup of a source commit reaches it and a deactivation can stop it.
OwnerIsRuntime == \A w \in Running : lock = ByRuntime(w) /\ row.owner = Pid(w)

\* A process that a later launch or a deactivation has superseded never runs.
NoStaleRuntime == \A w \in Running : row.active /\ worker[w].gen = row.gen

\* A registration that completes is not crossed by a deactivation that commits.
RegistrationSafe == dataflow => row.active

\* A deactivation never drops the slot beneath a Runtime.
SlotDropSafe == [][slot /\ ~slot' => Running = {}]_vars

HasRuntime == Running # {} \/ ~row.active

\* The recorded owner has died, and the identity that its next process needs is
\* held by a transaction that rolls back or by a superseded process.
Interrupted ==
    /\ row.owner # NoPid
    /\ \E t \in Txns : \/ lock = ByTxn(t) /\ txn[t].st = "aborted"
                       \/ lock = ByRuntime(t) /\ worker[t].gen # row.gen

\* A transaction that takes the identity for a launch and does not roll back is
\* followed by a Runtime, whatever other launches are rolled back or superseded
\* and whichever processes die.  A launched Runtime also returns after every
\* death of its process, unless the process that PostgreSQL restarts is
\* interrupted: it takes over, or gives up to a launch that does.
RuntimeReturns ==
    /\ \A t \in Txns : txn[t].todo = "launch" ~> HasRuntime \/ txn[t].st = "aborted"
    /\ <>Interrupted \/ (row.active /\ row.gen > 0 ~> HasRuntime)
-----------------------------------------------------------------------------
(* Not guaranteed by the code: see "Limits of the claims" in the README.     *)

\* A restarted process gives up only to a live owner, a later launch or a
\* deactivation.
RejectionJustified ==
    [][\A w \in Txns : ClaimRejected(w) =>
        Running # {} \/ row.gen # worker[w].gen \/ ~row.active]_vars

\* While no lifecycle operation is under way, an active database has its slot: a
\* deactivation takes effect as a whole, in the caller's transaction.
ActiveHasSlot == row.active /\ life = None => slot
=============================================================================
