----------------------- MODULE RuntimeIdentityProofs -----------------------
(***************************************************************************)
(* Proofs about RuntimeIdentity for any number of transactions, process    *)
(* deaths and server restarts.                                             *)
(***************************************************************************)
EXTENDS RuntimeIdentity, TLAPS

InProgress(t) == txn[t].st = "in progress"

\* A process that is past its try for the identity holds it.
Holders == {"recording", "unlocking", "running", "stopping", "leaving"}
HolderInv == \A w \in Txns : worker[w].st \in Holders => lock = ByRuntime(w)

\* A transaction about to launch or to retire is under way and holds it too.
TodoInv ==
    \A t \in Txns :
        /\ txn[t].todo # "none" => InProgress(t)
        /\ txn[t].todo \in {"launch", "retire"} => lock = ByTxn(t)

\* An uncommitted row belongs to a holder of the identity, or it only activates
\* an inactive database.
DraftInv ==
    \A t \in Txns : draft.by = t =>
        InProgress(t) /\ (lock = ByTxn(t) \/ ~row.active)

\* The row describes the Runtime.
Current ==
    \A w \in Txns : worker[w].st = "running" =>
        row.owner = Pid(w) /\ row.active /\ worker[w].gen = row.gen

IdentityInv == HolderInv /\ TodoInv /\ DraftInv /\ Current

\* A lifecycle operation under way holds the lifecycle lock; what it has found
\* out about dataflows and activity under that lock stays true.
LifeInv ==
    \A t \in Txns :
        InProgress(t) /\ txn[t].kind \in {"activate", "register", "deactivate"} => life = t
RegisterInv == \A t \in Txns : InProgress(t) /\ txn[t].kind = "register" => row.active
DeactivateInv ==
    \A t \in Txns :
        /\ InProgress(t) /\ txn[t].kind = "deactivate" => ~dataflow
        /\ txn[t].todo \in {"stop", "retire"} => txn[t].kind = "deactivate"
        /\ draft.by = t /\ ~draft.row.active => txn[t].kind = "deactivate"

LifecycleInv == LifeInv /\ RegisterInv /\ DeactivateInv /\ RegistrationSafe
-----------------------------------------------------------------------------
TxnType == [Txns -> [st : Outcomes, todo : Todos, kind : Kinds]]
WorkerType == [Txns -> [st : Stages, gen : Nat, pid : Nat]]

\* The updates of one transaction and of one worker keep their types.
LEMMA TxnUpdates ==
    ASSUME TypeOK, NEW t \in Txns, NEW d \in Todos, NEW k \in Kinds
    PROVE  /\ Continue(t, d) => txn' \in TxnType
           /\ Call(t, k, d) => txn' \in TxnType
<1>1. ASSUME Continue(t, d) PROVE txn' \in TxnType
  BY <1>1 DEF TypeOK, TxnType, Continue
<1>2. ASSUME Call(t, k, d) PROVE txn' \in TxnType
  <2>1. [st |-> "in progress", todo |-> d, kind |-> k] \in [st : Outcomes, todo : Todos, kind : Kinds]
    BY DEF Outcomes
  <2> QED
    BY <1>2, <2>1 DEF TypeOK, TxnType, Call
<1> QED
  BY <1>1, <1>2

\* Moving one worker to another stage keeps the type of the workers.
LEMMA WorkerUpdates ==
    ASSUME TypeOK, NEW w \in Txns, NEW st \in Stages
    PROVE  SetWorker(w, st) => worker' \in WorkerType
BY DEF TypeOK, WorkerType, SetWorker

\* What a transaction reads is a row, and so is what it writes.
LEMMA RowUpdates ==
    ASSUME TypeOK, NEW t \in Txns
    PROVE  /\ Seen(t) \in RowType /\ LaunchRow(t) \in RowType
           /\ [Seen(t) EXCEPT !.active = FALSE, !.owner = NoPid, !.pending = None] \in RowType
           /\ [row EXCEPT !.active = TRUE, !.pending = None] \in RowType
           /\ [row EXCEPT !.owner = Pid(t), !.pending = None] \in RowType
           /\ [row EXCEPT !.owner = NoPid] \in RowType
<1>1. Seen(t) \in RowType
  BY RuntimeAssumption DEF TypeOK, DraftType, Seen, NoDraft
<1>2. Pid(t) \in [of : Txns \cup {None}, run : Nat]
  BY DEF TypeOK, Pid
<1>3. NoPid \in [of : Txns \cup {None}, run : Nat]
  BY DEF NoPid
<1>4. LaunchRow(t) \in RowType
  <2>1. Seen(t).gen \in Nat /\ Seen(t).gen + 1 \in Nat
    BY <1>1 DEF RowType
  <2>2. \A r \in RowType : \A n \in Nat : \A p \in [of : Txns \cup {None}, run : Nat] :
          [r EXCEPT !.owner = p, !.gen = n, !.pending = t] \in RowType
    BY DEF RowType
  <2> QED
    BY <1>1, <1>3, <2>1, <2>2 DEF LaunchRow
<1>5. [Seen(t) EXCEPT !.active = FALSE, !.owner = NoPid, !.pending = None] \in RowType
  BY <1>1, <1>3 DEF RowType
<1> QED
  BY <1>1, <1>2, <1>3, <1>4, <1>5 DEF TypeOK, RowType



\* Every action of the transactions and of the workers keeps the state well typed.
LEMMA TypeStep ==
    ASSUME TypeOK, [Next]_vars
    PROVE  TypeOK'
<1>1. ASSUME NEW t \in Txns, Write(t) PROVE TypeOK'
  BY <1>1, TxnUpdates DEF Write, TypeOK, TxnType, Todos, Kinds
<1>2. ASSUME NEW t \in Txns, Activate(t) PROVE TypeOK'
  BY <1>2, TxnUpdates, RowUpdates DEF Activate, DraftType, TypeOK, TxnType, Todos, Kinds
<1>3. ASSUME NEW t \in Txns, Register(t) PROVE TypeOK'
  BY <1>3, TxnUpdates DEF Register, TypeOK, TxnType, Todos, Kinds
<1>4. ASSUME NEW t \in Txns, Deactivate(t) PROVE TypeOK'
  BY <1>4, TxnUpdates DEF Deactivate, TypeOK, TxnType, Todos, Kinds
<1>5. ASSUME NEW t \in Txns, TryIdentity(t) PROVE TypeOK'
  BY <1>5, TxnUpdates DEF TryIdentity, LockType, TypeOK, TxnType, Todos, Kinds
<1>6. ASSUME NEW t \in Txns, Launch(t) PROVE TypeOK'
  <2>1. draft' \in DraftType
    BY <1>6, RowUpdates DEF Launch, DraftType
  <2>2. LaunchRow(t).gen \in Nat
    BY RowUpdates DEF RowType
  <2>3. worker' \in WorkerType
    BY <1>6, <2>2 DEF Launch, TypeOK, WorkerType, Stages
  <2> QED
    BY <1>6, <2>1, <2>3, TxnUpdates DEF Launch, TypeOK, TxnType, WorkerType, Todos
<1>7. ASSUME NEW t \in Txns, LaunchNothing(t) PROVE TypeOK'
  BY <1>7, TxnUpdates DEF LaunchNothing, TypeOK, TxnType, Todos, Kinds
<1>8. ASSUME NEW t \in Txns, StopIdentity(t) PROVE TypeOK'
  BY <1>8, TxnUpdates DEF StopIdentity, LockType, TypeOK, TxnType, Todos, Kinds
<1>9. ASSUME NEW t \in Txns, Cancel(t) PROVE TypeOK'
  <2>1. worker' \in WorkerType
    BY <1>9 DEF Cancel, Signalled, TypeOK, WorkerType, Stages
  <2> QED
    BY <1>9, <2>1 DEF Cancel, TypeOK, WorkerType
<1>10. ASSUME NEW t \in Txns, Terminate(t) PROVE TypeOK'
  <2>1. worker' \in WorkerType /\ lock' \in LockType
    BY <1>10 DEF Terminate, Dies, Signalled, TypeOK, WorkerType, Stages, LockType
  <2>2. crashes' \in 0 .. MaxCrashes
    BY <1>10, RuntimeAssumption DEF Terminate, TypeOK
  <2> QED
    BY <1>10, <2>1, <2>2 DEF Terminate, TypeOK, WorkerType
<1>11. ASSUME NEW t \in Txns, Retire(t) PROVE TypeOK'
  BY <1>11, TxnUpdates, RowUpdates DEF Retire, DraftType, TypeOK, TxnType, Todos, Kinds
<1>12. ASSUME NEW t \in Txns, Commit(t) PROVE TypeOK'
  <2>1. txn' \in TxnType
    BY <1>12 DEF Commit, TypeOK, TxnType, Outcomes
  <2>2. row' \in RowType /\ draft' \in DraftType
    BY <1>12, RowUpdates DEF Commit, TypeOK, DraftType
  <2>3. dataflow' \in BOOLEAN
    BY <1>12 DEF Commit
  <2> QED
    BY <1>12, <2>1, <2>2, <2>3 DEF Commit, TypeOK, TxnType
<1>13. ASSUME NEW t \in Txns, Release(t) PROVE TypeOK'
  BY <1>13 DEF Release, LockType, TypeOK
<1>14. ASSUME NEW t \in Txns, Abort(t) PROVE TypeOK'
  <2>1. txn' \in TxnType
    BY <1>14, ZenonT(30) DEF Abort, TypeOK, TxnType, Outcomes, Todos
  <2>2. draft' \in DraftType
    BY <1>14 DEF Abort, TypeOK, DraftType
  <2> QED
    BY <1>14, <2>1, <2>2 DEF Abort, TypeOK, TxnType
<1>15. ASSUME NEW t \in Txns, LaunchSeen(t) PROVE TypeOK'
  BY <1>15, WorkerUpdates DEF LaunchSeen, TypeOK, WorkerType, Stages
<1>16. ASSUME NEW t \in Txns, ClaimIdentity(t) PROVE TypeOK'
  BY <1>16, WorkerUpdates DEF ClaimIdentity, LockType, TypeOK, WorkerType, Stages
<1>17. ASSUME NEW t \in Txns, ClaimRejected(t) PROVE TypeOK'
  BY <1>17, WorkerUpdates DEF ClaimRejected, TypeOK, WorkerType, Stages
<1>18. ASSUME NEW t \in Txns, RecordOwner(t) PROVE TypeOK'
  BY <1>18, RowUpdates, WorkerUpdates DEF RecordOwner, TypeOK, WorkerType, Stages
<1>19. ASSUME NEW t \in Txns, UnlockIdentity(t) PROVE TypeOK'
  BY <1>19, WorkerUpdates DEF UnlockIdentity, LockType, TypeOK, WorkerType, Stages
<1>20. ASSUME NEW t \in Txns, ClearOwner(t) PROVE TypeOK'
  BY <1>20, RowUpdates, WorkerUpdates DEF ClearOwner, TypeOK, WorkerType, Stages
<1>21. ASSUME NEW t \in Txns, Exit(t) PROVE TypeOK'
  BY <1>21, WorkerUpdates DEF Exit, LockType, TypeOK, WorkerType, Stages
<1>22. ASSUME NEW t \in Txns, Restart(t) PROVE TypeOK'
  <2>1. worker' \in WorkerType
    BY <1>22 DEF Restart, TypeOK, WorkerType, Stages
  <2> QED
    BY <1>22, <2>1 DEF Restart, TypeOK, WorkerType
<1>23. ASSUME NEW t \in Txns, Crash(t) PROVE TypeOK'
  <2>1. worker' \in WorkerType /\ lock' \in LockType
    BY <1>23 DEF Crash, Dies, TypeOK, WorkerType, Stages, LockType
  <2>2. crashes' \in 0 .. MaxCrashes
    BY <1>23, RuntimeAssumption DEF Crash, TypeOK
  <2> QED
    BY <1>23, <2>1, <2>2 DEF Crash, TypeOK, WorkerType
<1>24. CASE DropDataflow
  BY <1>24 DEF DropDataflow, TypeOK
<1>25. CASE Reboot
  <2>1. worker' \in WorkerType
    <3>1. PICK st \in {"dead", "gone"} :
            worker' = [w \in Txns |-> IF worker[w].st \in {"none", "gone"} THEN worker[w]
                                       ELSE [worker[w] EXCEPT !.st = st]]
      BY <1>25 DEF Reboot
    <3>2. \A r \in [st : Stages, gen : Nat, pid : Nat] :
            [r EXCEPT !.st = st] \in [st : Stages, gen : Nat, pid : Nat]
      BY DEF Stages
    <3> QED
      BY <3>1, <3>2 DEF TypeOK, WorkerType
  <2>2. txn' \in TxnType
    <3>1. \A r \in [st : Outcomes, todo : Todos, kind : Kinds] :
            [r EXCEPT !.st = "aborted", !.todo = "none"] \in [st : Outcomes, todo : Todos, kind : Kinds]
      BY DEF Outcomes, Todos
    <3> QED
      BY <1>25, <3>1 DEF Reboot, TypeOK, TxnType
  <2>3. reboots' \in 0 .. MaxReboots
    <3>1. reboots < MaxReboots /\ reboots' = reboots + 1
      BY <1>25 DEF Reboot
    <3> QED
      BY <3>1, RuntimeAssumption DEF TypeOK
  <2> QED
    BY <1>25, <2>1, <2>2, <2>3 DEF Reboot, TypeOK, TxnType, WorkerType, DraftType, LockType
<1>26. CASE UNCHANGED vars
  BY <1>26 DEF vars, TypeOK
<1> QED
  BY <1>1, <1>2, <1>3, <1>4, <1>5, <1>6, <1>7, <1>8, <1>9, <1>10, <1>11, <1>12,
     <1>13, <1>14, <1>15, <1>16, <1>17, <1>18, <1>19, <1>20, <1>21, <1>22, <1>23, <1>24, <1>25, <1>26
  DEF Next, TxnStep, WorkerStep

\* Every reachable state of the identity protocol is well typed, for any number
\* of transactions, deaths and restarts.
THEOREM TypeCorrect == Spec => []TypeOK
<1>1. ASSUME Init PROVE TypeOK
  <2>1. row \in RowType
    BY <1>1 DEF Init, RowType, NoPid
  <2>2. txn \in [Txns -> [st : Outcomes, todo : Todos, kind : Kinds]]
    BY <1>1 DEF Init, Outcomes, Todos, Kinds
  <2>3. worker \in [Txns -> [st : Stages, gen : Nat, pid : Nat]]
    BY <1>1 DEF Init, Stages
  <2>4. slot \in BOOLEAN
    BY <1>1, RuntimeAssumption DEF Init
  <2>5. crashes \in 0 .. MaxCrashes /\ reboots \in 0 .. MaxReboots
    BY <1>1, RuntimeAssumption DEF Init
  <2> QED
    BY <1>1, <2>1, <2>2, <2>3, <2>4, <2>5 DEF Init, TypeOK, DraftType, LockType
<1> QED
  BY <1>1, TypeStep, PTL DEF Spec






\* The holders of the identity are told apart.
LEMMA Locks ==
    \A t, u \in Txns :
        /\ ByTxn(t) # Free /\ ByRuntime(t) # Free /\ ByTxn(t) # ByRuntime(u)
        /\ t # u => ByTxn(t) # ByTxn(u) /\ ByRuntime(t) # ByRuntime(u)
BY DEF ByTxn, ByRuntime, Free

\* Every action of the transactions and of the workers keeps the inductive
\* invariant of the identity.
LEMMA IdentityStep ==
    ASSUME TypeOK, IdentityInv, [Next]_vars
    PROVE  IdentityInv'
<1> USE Locks, RuntimeAssumption
<1>0. /\ txn \in TxnType /\ worker \in WorkerType
      /\ HolderInv /\ TodoInv /\ DraftInv /\ Current
  BY DEF TypeOK, IdentityInv, TxnType, WorkerType
<1>1. ASSUME NEW t \in Txns, Write(t) PROVE IdentityInv'
  <2>1. TodoInv'
    BY <1>0, <1>1 DEF Write, Call, TodoInv, InProgress, TxnType
  <2>2. DraftInv'
    BY <1>0, <1>1 DEF Write, Call, DraftInv, InProgress, TxnType
  <2> QED
    BY <1>0, <1>1, <2>1, <2>2 DEF IdentityInv, Write, HolderInv, Current, Pid
<1>2. ASSUME NEW t \in Txns, Activate(t) PROVE IdentityInv'
  <2>1. TodoInv'
    BY <1>0, <1>2 DEF Activate, Call, Writable, TodoInv, InProgress, TxnType
  <2>2. DraftInv'
    BY <1>0, <1>2 DEF Activate, Call, Writable, DraftInv, InProgress, TxnType
  <2> QED
    BY <1>0, <1>2, <2>1, <2>2 DEF IdentityInv, Activate, HolderInv, Current, Pid
<1>3. ASSUME NEW t \in Txns, Register(t) PROVE IdentityInv'
  <2>1. TodoInv'
    BY <1>0, <1>3 DEF Register, Call, TodoInv, InProgress, TxnType
  <2>2. DraftInv'
    BY <1>0, <1>3 DEF Register, Call, DraftInv, InProgress, TxnType
  <2> QED
    BY <1>0, <1>3, <2>1, <2>2 DEF IdentityInv, Register, HolderInv, Current, Pid
<1>4. ASSUME NEW t \in Txns, Deactivate(t) PROVE IdentityInv'
  <2>1. TodoInv'
    BY <1>0, <1>4 DEF Deactivate, Call, TodoInv, InProgress, TxnType
  <2>2. DraftInv'
    BY <1>0, <1>4 DEF Deactivate, Call, DraftInv, InProgress, TxnType
  <2> QED
    BY <1>0, <1>4, <2>1, <2>2 DEF IdentityInv, Deactivate, HolderInv, Current, Pid
<1>5. ASSUME NEW t \in Txns, TryIdentity(t) PROVE IdentityInv'
  <2>1. HolderInv'
    BY <1>0, <1>5 DEF TryIdentity, IdentityFree, Continue, HolderInv, Holders, WorkerType
  <2>2. TodoInv'
    BY <1>0, <1>5 DEF TryIdentity, IdentityFree, Continue, TodoInv, InProgress, TxnType
  <2>3. DraftInv'
    BY <1>0, <1>5 DEF TryIdentity, IdentityFree, Continue, DraftInv, InProgress, TxnType
  <2> QED
    BY <1>0, <1>5, <2>1, <2>2, <2>3 DEF IdentityInv, TryIdentity, Current, Pid
<1>6. ASSUME NEW t \in Txns, Launch(t) PROVE IdentityInv'
  <2>1. HolderInv'
    BY <1>0, <1>6 DEF Launch, Continue, Writable, HolderInv, Holders, WorkerType
  <2>2. TodoInv'
    BY <1>0, <1>6 DEF Launch, Continue, Writable, TodoInv, InProgress, TxnType
  <2>3. DraftInv'
    BY <1>0, <1>6 DEF Launch, Continue, Writable, DraftInv, InProgress, TxnType, TodoInv
  <2>4. Current'
    BY <1>0, <1>6 DEF Launch, Continue, Writable, Current, Pid, WorkerType
  <2> QED
    BY <1>0, <2>1, <2>2, <2>3, <2>4 DEF IdentityInv
<1>7. ASSUME NEW t \in Txns, LaunchNothing(t) PROVE IdentityInv'
  <2>1. TodoInv'
    BY <1>0, <1>7 DEF LaunchNothing, Continue, TodoInv, InProgress, TxnType
  <2>2. DraftInv'
    BY <1>0, <1>7 DEF LaunchNothing, Continue, DraftInv, InProgress, TxnType
  <2> QED
    BY <1>0, <1>7, <2>1, <2>2 DEF IdentityInv, LaunchNothing, HolderInv, Current, Pid
<1>8. ASSUME NEW t \in Txns, StopIdentity(t) PROVE IdentityInv'
  <2>1. HolderInv'
    BY <1>0, <1>8 DEF StopIdentity, IdentityFree, Continue, HolderInv, Holders, WorkerType
  <2>2. TodoInv'
    BY <1>0, <1>8 DEF StopIdentity, IdentityFree, Continue, TodoInv, InProgress, TxnType
  <2>3. DraftInv'
    BY <1>0, <1>8 DEF StopIdentity, IdentityFree, Continue, DraftInv, InProgress, TxnType
  <2> QED
    BY <1>0, <1>8, <2>1, <2>2, <2>3 DEF IdentityInv, StopIdentity, Current, Pid
<1>9. ASSUME NEW t \in Txns, Cancel(t) PROVE IdentityInv'
  <2>1. HolderInv'
    BY <1>0, <1>9 DEF Cancel, Signalled, HolderInv, Holders, WorkerType
  <2>2. Current'
    BY <1>0, <1>9 DEF Cancel, Signalled, Current, Pid, WorkerType
  <2> QED
    BY <1>0, <1>9, <2>1, <2>2 DEF IdentityInv, Cancel, TodoInv, InProgress, DraftInv
<1>10. ASSUME NEW t \in Txns, Terminate(t) PROVE IdentityInv'
  <2>1. HolderInv'
    BY <1>0, <1>10 DEF Terminate, Dies, Signalled, HolderInv, Holders, WorkerType
  <2>2. TodoInv'
    <3>1. PICK w \in Txns : Dies(w) /\ worker[w].st \in {"running", "stopping", "leaving"}
      BY <1>10 DEF Terminate, Signalled
    <3>2. lock = ByRuntime(w)
      BY <1>0, <3>1 DEF HolderInv, Holders
    <3>3. lock' = Free /\ UNCHANGED <<row, draft, txn>>
      BY <1>10, <3>1, <3>2 DEF Terminate, Dies
    <3> QED
      BY <1>0, <3>2, <3>3 DEF TodoInv, InProgress, TxnType
  <2>3. DraftInv'
    <3>1. PICK w \in Txns : Dies(w) /\ worker[w].st \in {"running", "stopping", "leaving"}
      BY <1>10 DEF Terminate, Signalled
    <3>2. lock = ByRuntime(w)
      BY <1>0, <3>1 DEF HolderInv, Holders
    <3>3. lock' = Free /\ UNCHANGED <<row, draft, txn>>
      BY <1>10, <3>1, <3>2 DEF Terminate, Dies
    <3> QED
      BY <1>0, <3>2, <3>3 DEF DraftInv, InProgress, TxnType
  <2>4. Current'
    BY <1>0, <1>10 DEF Terminate, Dies, Signalled, Current, Pid, WorkerType, HolderInv, Holders
  <2> QED
    BY <1>0, <2>1, <2>2, <2>3, <2>4 DEF IdentityInv
<1>11. ASSUME NEW t \in Txns, Retire(t) PROVE IdentityInv'
  <2>1. TodoInv'
    BY <1>0, <1>11 DEF Retire, Continue, Writable, TodoInv, InProgress, TxnType
  <2>2. DraftInv'
    BY <1>0, <1>11, ZenonT(30) DEF Retire, Continue, Writable, DraftInv, InProgress, TxnType, TodoInv
  <2> QED
    BY <1>0, <1>11, <2>1, <2>2 DEF IdentityInv, Retire, HolderInv, Current, Pid
<1>12. ASSUME NEW t \in Txns, Commit(t) PROVE IdentityInv'
  <2>1. TodoInv'
    BY <1>0, <1>12 DEF Commit, Seen, NoDraft, TodoInv, InProgress, TxnType
  <2>2. DraftInv'
    BY <1>0, <1>12 DEF Commit, Seen, NoDraft, DraftInv, InProgress, TxnType
  <2>3. Current'
    BY <1>0, <1>12, ZenonT(30) DEF Commit, Seen, NoDraft, Current, Pid, WorkerType, HolderInv, Holders, DraftInv, InProgress
  <2> QED
    BY <1>0, <1>12, <2>1, <2>2, <2>3 DEF IdentityInv, Commit, HolderInv
<1>13. ASSUME NEW t \in Txns, Release(t) PROVE IdentityInv'
  <2>1. HolderInv'
    BY <1>0, <1>13 DEF Release, HolderInv, Holders, WorkerType
  <2>2. TodoInv'
    BY <1>0, <1>13 DEF Release, TodoInv, InProgress, TxnType
  <2>3. DraftInv'
    BY <1>0, <1>13 DEF Release, DraftInv, InProgress, TxnType
  <2> QED
    BY <1>0, <1>13, <2>1, <2>2, <2>3 DEF IdentityInv, Release, Current, Pid
<1>14. ASSUME NEW t \in Txns, Abort(t) PROVE IdentityInv'
  <2>1. TodoInv'
    BY <1>0, <1>14 DEF Abort, NoDraft, TodoInv, InProgress, TxnType
  <2>2. DraftInv'
    BY <1>0, <1>14 DEF Abort, NoDraft, DraftInv, InProgress, TxnType
  <2> QED
    BY <1>0, <1>14, <2>1, <2>2 DEF IdentityInv, Abort, HolderInv, Current, Pid
<1>15. ASSUME NEW t \in Txns, LaunchSeen(t) PROVE IdentityInv'
  <2>1. HolderInv'
    BY <1>0, <1>15 DEF LaunchSeen, SetWorker, HolderInv, Holders, WorkerType
  <2>2. Current'
    BY <1>0, <1>15 DEF LaunchSeen, SetWorker, Current, Pid, WorkerType
  <2> QED
    BY <1>0, <1>15, <2>1, <2>2 DEF IdentityInv, LaunchSeen, TodoInv, InProgress, DraftInv
<1>16. ASSUME NEW t \in Txns, ClaimIdentity(t) PROVE IdentityInv'
  <2>1. HolderInv'
    BY <1>0, <1>16 DEF ClaimIdentity, SetWorker, HolderInv, Holders, WorkerType
  <2>2. TodoInv'
    BY <1>0, <1>16 DEF ClaimIdentity, SetWorker, TodoInv, InProgress, TxnType
  <2>3. DraftInv'
    BY <1>0, <1>16 DEF ClaimIdentity, SetWorker, DraftInv, InProgress, TxnType
  <2>4. Current'
    BY <1>0, <1>16 DEF ClaimIdentity, SetWorker, Current, Pid, WorkerType
  <2> QED
    BY <1>0, <2>1, <2>2, <2>3, <2>4 DEF IdentityInv
<1>17. ASSUME NEW t \in Txns, ClaimRejected(t) PROVE IdentityInv'
  <2>1. HolderInv'
    BY <1>0, <1>17 DEF ClaimRejected, SetWorker, HolderInv, Holders, WorkerType
  <2>2. Current'
    BY <1>0, <1>17 DEF ClaimRejected, SetWorker, Current, Pid, WorkerType
  <2> QED
    BY <1>0, <1>17, <2>1, <2>2 DEF IdentityInv, ClaimRejected, TodoInv, InProgress, DraftInv
<1>18. ASSUME NEW t \in Txns, RecordOwner(t) PROVE IdentityInv'
  <2>1. HolderInv'
    BY <1>0, <1>18 DEF RecordOwner, Recordable, Mine, SetWorker, HolderInv, Holders, WorkerType
  <2>2. DraftInv'
    BY <1>0, <1>18 DEF RecordOwner, Recordable, Mine, SetWorker, DraftInv, InProgress, TxnType, HolderInv, Holders, WorkerType
  <2>3. Current'
    <3>1. CASE Recordable(t)
      <4>1. \A w \in Txns : w # t => worker'[w] = worker[w] /\ worker[w].st # "running"
        BY <1>0, <1>18 DEF RecordOwner, SetWorker, HolderInv, Holders, WorkerType
      <4>2. worker'[t].gen = row.gen /\ worker'[t].pid = worker[t].pid /\ row.active
        BY <1>0, <1>18, <3>1 DEF RecordOwner, Recordable, Mine, SetWorker, WorkerType
      <4>3. row'.owner = Pid(t) /\ row'.active = row.active /\ row'.gen = row.gen
        BY <1>18, <3>1 DEF RecordOwner, TypeOK, RowType
      <4> QED
        BY <4>1, <4>2, <4>3 DEF Current, Pid
    <3>2. CASE ~Recordable(t)
      BY <1>0, <1>18, <3>2 DEF RecordOwner, SetWorker, Current, Pid, WorkerType
    <3> QED
      BY <3>1, <3>2
  <2> QED
    BY <1>0, <1>18, <2>1, <2>2, <2>3 DEF IdentityInv, RecordOwner, TodoInv, InProgress
<1>19. ASSUME NEW t \in Txns, UnlockIdentity(t) PROVE IdentityInv'
  <2>1. HolderInv'
    BY <1>0, <1>19 DEF UnlockIdentity, SetWorker, HolderInv, Holders, WorkerType
  <2>2. TodoInv'
    BY <1>0, <1>19 DEF UnlockIdentity, SetWorker, TodoInv, InProgress, TxnType, HolderInv, Holders, WorkerType
  <2>3. DraftInv'
    BY <1>0, <1>19 DEF UnlockIdentity, SetWorker, DraftInv, InProgress, TxnType, HolderInv, Holders, WorkerType
  <2>4. Current'
    BY <1>0, <1>19 DEF UnlockIdentity, SetWorker, Current, Pid, WorkerType, HolderInv, Holders
  <2> QED
    BY <1>0, <2>1, <2>2, <2>3, <2>4 DEF IdentityInv
<1>20. ASSUME NEW t \in Txns, ClearOwner(t) PROVE IdentityInv'
  <2>1. HolderInv'
    BY <1>0, <1>20 DEF ClearOwner, SetWorker, HolderInv, Holders, WorkerType
  <2>2. DraftInv'
    BY <1>0, <1>20 DEF ClearOwner, SetWorker, DraftInv, InProgress, TxnType, HolderInv, Holders, WorkerType
  <2>3. Current'
    BY <1>0, <1>20 DEF ClearOwner, SetWorker, Current, Pid, WorkerType, HolderInv, Holders
  <2> QED
    BY <1>0, <1>20, <2>1, <2>2, <2>3 DEF IdentityInv, ClearOwner, TodoInv, InProgress
<1>21. ASSUME NEW t \in Txns, Exit(t) PROVE IdentityInv'
  <2>1. HolderInv'
    BY <1>0, <1>21 DEF Exit, SetWorker, HolderInv, Holders, WorkerType
  <2>2. TodoInv'
    BY <1>0, <1>21 DEF Exit, SetWorker, TodoInv, InProgress, TxnType, HolderInv, Holders, WorkerType
  <2>3. DraftInv'
    BY <1>0, <1>21 DEF Exit, SetWorker, DraftInv, InProgress, TxnType, HolderInv, Holders, WorkerType
  <2>4. Current'
    BY <1>0, <1>21 DEF Exit, SetWorker, Current, Pid, WorkerType, HolderInv, Holders
  <2> QED
    BY <1>0, <2>1, <2>2, <2>3, <2>4 DEF IdentityInv
<1>22. ASSUME NEW t \in Txns, Restart(t) PROVE IdentityInv'
  <2>1. HolderInv'
    BY <1>0, <1>22 DEF Restart, HolderInv, Holders, WorkerType
  <2>2. Current'
    BY <1>0, <1>22 DEF Restart, Current, Pid, WorkerType
  <2> QED
    BY <1>0, <1>22, <2>1, <2>2 DEF IdentityInv, Restart, TodoInv, InProgress, DraftInv
<1>23. ASSUME NEW t \in Txns, Crash(t) PROVE IdentityInv'
  <2>1. HolderInv'
    BY <1>0, <1>23 DEF Crash, Dies, HolderInv, Holders, WorkerType
  <2>2. TodoInv'
    BY <1>0, <1>23 DEF Crash, Dies, TodoInv, InProgress, TxnType, HolderInv, Holders, WorkerType
  <2>3. DraftInv'
    BY <1>0, <1>23 DEF Crash, Dies, DraftInv, InProgress, TxnType, HolderInv, Holders, WorkerType
  <2>4. Current'
    BY <1>0, <1>23 DEF Crash, Dies, Current, Pid, WorkerType, HolderInv, Holders
  <2> QED
    BY <1>0, <2>1, <2>2, <2>3, <2>4 DEF IdentityInv
<1>24. CASE DropDataflow
  BY <1>0, <1>24 DEF DropDataflow, IdentityInv, HolderInv, TodoInv, DraftInv, Current, InProgress, Pid
<1>25. CASE Reboot
  <2>1. /\ draft'.by = None
        /\ \A t \in Txns : worker'[t].st \in {"none", "gone", "dead"} /\ txn'[t].todo = "none"
    <3>1. \A t \in Txns : txn'[t].todo = "none"
      BY <1>0, <1>25 DEF Reboot, TodoInv, InProgress, TxnType
    <3>2. \A t \in Txns : worker'[t].st \in {"none", "gone", "dead"}
      <4>1. PICK st \in {"dead", "gone"} :
              worker' = [w \in Txns |-> IF worker[w].st \in {"none", "gone"} THEN worker[w]
                                         ELSE [worker[w] EXCEPT !.st = st]]
        BY <1>25 DEF Reboot
      <4> QED
        BY <1>0, <4>1 DEF WorkerType
    <3> QED
      BY <1>25, <3>1, <3>2 DEF Reboot, NoDraft
  <2> QED
    BY <2>1 DEF IdentityInv, HolderInv, TodoInv, DraftInv, Current, InProgress, Pid, Holders
<1>26. CASE UNCHANGED vars
  BY <1>0, <1>26 DEF vars, IdentityInv, HolderInv, TodoInv, DraftInv, Current, InProgress, Pid
<1> QED
  BY <1>1, <1>2, <1>3, <1>4, <1>5, <1>6, <1>7, <1>8, <1>9, <1>10, <1>11, <1>12,
     <1>13, <1>14, <1>15, <1>16, <1>17, <1>18, <1>19, <1>20, <1>21, <1>22, <1>23, <1>24, <1>25, <1>26
  DEF Next, TxnStep, WorkerStep

\* The inductive invariant of the identity holds throughout.
LEMMA IdentityHolds == Spec => []IdentityInv
<1>1. Init => IdentityInv
  BY RuntimeAssumption DEF Init, IdentityInv, HolderInv, Holders, TodoInv, DraftInv, Current, NoDraft
<1> QED
  BY <1>1, IdentityStep, TypeCorrect, PTL DEF Spec

\* There is at most one Runtime and runtime_state names its process: launches,
\* claims, crashes, restarts and deactivations never leave two.
THEOREM SingleRuntime == Spec => []OwnerIsRuntime
<1>1. IdentityInv => OwnerIsRuntime
  BY DEF IdentityInv, HolderInv, Holders, Current, OwnerIsRuntime, Running
<1> QED
  BY <1>1, IdentityHolds, PTL

\* The Runtime belongs to the latest committed launch of an active database: a
\* process of a superseded launch or of a deactivated database never runs.
THEOREM FreshRuntime == Spec => []NoStaleRuntime
<1>1. IdentityInv => NoStaleRuntime
  BY DEF IdentityInv, Current, NoStaleRuntime, Running
<1> QED
  BY <1>1, IdentityHolds, PTL

\* A transaction that holds the identity shuts every Runtime out: a deactivation
\* never drops the slot beneath one.
THEOREM SlotDrop == Spec => SlotDropSafe
<1>1. ASSUME TypeOK, IdentityInv, [Next]_vars, slot, ~slot' PROVE Running = {}
  <2>1. PICK t \in Txns : Retire(t)
    BY <1>1 DEF Next, TxnStep, WorkerStep, vars, Write, Activate, Register, Deactivate, TryIdentity,
       Launch, LaunchNothing, StopIdentity, Cancel, Terminate, Commit, Release, Abort, LaunchSeen,
       ClaimIdentity, ClaimRejected, RecordOwner, UnlockIdentity, ClearOwner, Exit, Restart, Crash,
       DropDataflow, Reboot
  <2>2. lock = ByTxn(t)
    BY <1>1, <2>1 DEF Retire, IdentityInv, TodoInv
  <2> QED
    BY <1>1, <2>2, Locks DEF IdentityInv, HolderInv, Holders, Running
<1>2. [](TypeOK /\ IdentityInv) /\ [][Next]_vars => SlotDropSafe
  BY <1>1, PTL DEF SlotDropSafe
<1> QED
  BY <1>2, TypeCorrect, IdentityHolds, PTL DEF Spec

\* Every action keeps the inductive invariant of the lifecycle operations.
LEMMA LifecycleStep ==
    ASSUME TypeOK, IdentityInv, LifecycleInv, [Next]_vars
    PROVE  LifecycleInv'
<1> USE RuntimeAssumption
<1>0. /\ txn \in TxnType /\ row \in RowType /\ DraftInv
      /\ LifeInv /\ RegisterInv /\ DeactivateInv /\ RegistrationSafe
  BY DEF TypeOK, IdentityInv, LifecycleInv, TxnType
<1>1. ASSUME NEW t \in Txns, Write(t) PROVE LifecycleInv'
  <2>1. LifeInv'
    BY <1>0, <1>1 DEF Write, Call, LifeInv, InProgress, TxnType
  <2>2. RegisterInv'
    BY <1>0, <1>1 DEF Write, Call, RegisterInv, InProgress, TxnType
  <2>3. DeactivateInv'
    BY <1>0, <1>1 DEF Write, Call, DeactivateInv, InProgress, TxnType, DraftInv
  <2> QED
    BY <1>0, <1>1, <2>1, <2>2, <2>3 DEF LifecycleInv, Write, RegistrationSafe
<1>2. ASSUME NEW t \in Txns, Activate(t) PROVE LifecycleInv'
  <2>1. LifeInv'
    BY <1>0, <1>2 DEF Activate, Call, LifecycleLock, LifeInv, InProgress, TxnType
  <2>2. RegisterInv'
    BY <1>0, <1>2 DEF Activate, Call, LifecycleLock, RegisterInv, InProgress, TxnType, LifeInv
  <2>3. DeactivateInv'
    BY <1>0, <1>2 DEF Activate, Call, LifecycleLock, DeactivateInv, InProgress, TxnType, DraftInv, LifeInv, RowType
  <2> QED
    BY <1>0, <1>2, <2>1, <2>2, <2>3 DEF LifecycleInv, Activate, RegistrationSafe
<1>3. ASSUME NEW t \in Txns, Register(t) PROVE LifecycleInv'
  <2>1. LifeInv'
    BY <1>0, <1>3 DEF Register, Call, LifecycleLock, LifeInv, InProgress, TxnType
  <2>2. RegisterInv'
    BY <1>0, <1>3 DEF Register, Call, LifecycleLock, RegisterInv, InProgress, TxnType, LifeInv
  <2>3. DeactivateInv'
    BY <1>0, <1>3 DEF Register, Call, LifecycleLock, DeactivateInv, InProgress, TxnType, DraftInv, LifeInv
  <2> QED
    BY <1>0, <1>3, <2>1, <2>2, <2>3 DEF LifecycleInv, Register, RegistrationSafe
<1>4. ASSUME NEW t \in Txns, Deactivate(t) PROVE LifecycleInv'
  <2>1. LifeInv'
    BY <1>0, <1>4 DEF Deactivate, Call, LifecycleLock, LifeInv, InProgress, TxnType
  <2>2. RegisterInv'
    BY <1>0, <1>4 DEF Deactivate, Call, LifecycleLock, RegisterInv, InProgress, TxnType, LifeInv
  <2>3. DeactivateInv'
    BY <1>0, <1>4 DEF Deactivate, Call, LifecycleLock, DeactivateInv, InProgress, TxnType, DraftInv, LifeInv
  <2> QED
    BY <1>0, <1>4, <2>1, <2>2, <2>3 DEF LifecycleInv, Deactivate, RegistrationSafe
<1>5. ASSUME NEW t \in Txns, TryIdentity(t) PROVE LifecycleInv'
  <2>1. LifeInv'
    BY <1>0, <1>5, ZenonT(30) DEF TryIdentity, Continue, LifeInv, InProgress, TxnType
  <2>2. RegisterInv'
    BY <1>0, <1>5 DEF TryIdentity, Continue, RegisterInv, InProgress, TxnType
  <2>3. DeactivateInv'
    <3>1. \A u \in Txns : /\ txn'[u].st = txn[u].st /\ txn'[u].kind = txn[u].kind
                          /\ txn'[u].todo \in {"stop", "retire"} => txn[u].todo = txn'[u].todo
      <4>1. \E d \in {"launch", "none"} : txn' = [txn EXCEPT ![t].todo = d]
        BY <1>5 DEF TryIdentity, Continue
      <4> QED
        BY <1>0, <4>1 DEF TxnType
    <3> QED
      BY <1>0, <1>5, <3>1 DEF TryIdentity, DeactivateInv, InProgress
  <2> QED
    BY <1>0, <1>5, <2>1, <2>2, <2>3 DEF LifecycleInv, TryIdentity, RegistrationSafe
<1>6. ASSUME NEW t \in Txns, Launch(t) PROVE LifecycleInv'
  <2>1. LifeInv'
    BY <1>0, <1>6 DEF Launch, Continue, LifeInv, InProgress, TxnType
  <2>2. RegisterInv'
    BY <1>0, <1>6 DEF Launch, Continue, RegisterInv, InProgress, TxnType
  <2>3. DeactivateInv'
    <3>1. draft'.by = t /\ draft'.row.active
      <4>1. LaunchRow(t).active = Seen(t).active
        BY RowUpdates DEF LaunchRow, RowType
      <4> QED
        BY <1>6, <4>1 DEF Launch, Launchable
    <3>2. \A u \in Txns : /\ txn'[u].st = txn[u].st /\ txn'[u].kind = txn[u].kind
                          /\ txn'[u].todo \in {"stop", "retire"} => txn[u].todo = txn'[u].todo
      BY <1>0, <1>6 DEF Launch, Continue, TxnType
    <3> QED
      BY <1>0, <1>6, <3>1, <3>2 DEF Launch, DeactivateInv, InProgress
  <2> QED
    BY <1>0, <1>6, <2>1, <2>2, <2>3 DEF LifecycleInv, Launch, RegistrationSafe
<1>7. ASSUME NEW t \in Txns, LaunchNothing(t) PROVE LifecycleInv'
  <2>1. LifeInv'
    BY <1>0, <1>7 DEF LaunchNothing, Continue, LifeInv, InProgress, TxnType
  <2>2. RegisterInv'
    BY <1>0, <1>7 DEF LaunchNothing, Continue, RegisterInv, InProgress, TxnType
  <2>3. DeactivateInv'
    BY <1>0, <1>7 DEF LaunchNothing, Continue, DeactivateInv, InProgress, TxnType, DraftInv
  <2> QED
    BY <1>0, <1>7, <2>1, <2>2, <2>3 DEF LifecycleInv, LaunchNothing, RegistrationSafe
<1>8. ASSUME NEW t \in Txns, StopIdentity(t) PROVE LifecycleInv'
  <2>1. LifeInv'
    BY <1>0, <1>8 DEF StopIdentity, Continue, LifeInv, InProgress, TxnType
  <2>2. RegisterInv'
    BY <1>0, <1>8 DEF StopIdentity, Continue, RegisterInv, InProgress, TxnType
  <2>3. DeactivateInv'
    BY <1>0, <1>8 DEF StopIdentity, Continue, DeactivateInv, InProgress, TxnType, DraftInv
  <2> QED
    BY <1>0, <1>8, <2>1, <2>2, <2>3 DEF LifecycleInv, StopIdentity, RegistrationSafe
<1>9. ASSUME NEW t \in Txns, Retire(t) PROVE LifecycleInv'
  <2>1. LifeInv'
    BY <1>0, <1>9 DEF Retire, Continue, LifeInv, InProgress, TxnType
  <2>2. RegisterInv'
    BY <1>0, <1>9 DEF Retire, Continue, RegisterInv, InProgress, TxnType
  <2>3. DeactivateInv'
    BY <1>0, <1>9 DEF Retire, Continue, DeactivateInv, InProgress, TxnType, DraftInv
  <2> QED
    BY <1>0, <1>9, <2>1, <2>2, <2>3 DEF LifecycleInv, Retire, RegistrationSafe
<1>10. ASSUME NEW t \in Txns, Commit(t) PROVE LifecycleInv'
  <2>1. LifeInv'
    BY <1>0, <1>10 DEF Commit, Seen, NoDraft, LifeInv, InProgress, TxnType, DraftInv, RegisterInv, DeactivateInv
  <2>2. RegisterInv'
    BY <1>0, <1>10 DEF Commit, Seen, NoDraft, RegisterInv, InProgress, TxnType, DraftInv, LifeInv, DeactivateInv
  <2>3. DeactivateInv'
    BY <1>0, <1>10 DEF Commit, Seen, NoDraft, DeactivateInv, InProgress, TxnType, DraftInv, LifeInv, RegisterInv
  <2>4. RegistrationSafe'
    BY <1>0, <1>10 DEF Commit, Seen, NoDraft, RegistrationSafe, DraftInv, LifeInv, RegisterInv, DeactivateInv, InProgress
  <2> QED
    BY <1>0, <2>1, <2>2, <2>3, <2>4 DEF LifecycleInv
<1>11. ASSUME NEW t \in Txns, Release(t) PROVE LifecycleInv'
  <2>1. LifeInv'
    BY <1>0, <1>11 DEF Release, LifeInv, InProgress, TxnType
  <2> QED
    BY <1>0, <1>11, <2>1 DEF LifecycleInv, Release, RegisterInv, InProgress, DeactivateInv, RegistrationSafe
<1>12. ASSUME NEW t \in Txns, Abort(t) PROVE LifecycleInv'
  <2>1. LifeInv'
    BY <1>0, <1>12 DEF Abort, NoDraft, LifeInv, InProgress, TxnType
  <2>2. RegisterInv'
    BY <1>0, <1>12 DEF Abort, NoDraft, RegisterInv, InProgress, TxnType
  <2>3. DeactivateInv'
    BY <1>0, <1>12 DEF Abort, NoDraft, DeactivateInv, InProgress, TxnType, DraftInv
  <2> QED
    BY <1>0, <1>12, <2>1, <2>2, <2>3 DEF LifecycleInv, Abort, RegistrationSafe
<1>13. ASSUME NEW t \in Txns, RecordOwner(t) PROVE LifecycleInv'
  <2>1. RegisterInv'
    BY <1>0, <1>13 DEF RecordOwner, RegisterInv, InProgress, TxnType, RowType
  <2>2. RegistrationSafe'
    BY <1>0, <1>13 DEF RecordOwner, RegistrationSafe, RowType
  <2> QED
    BY <1>0, <1>13, <2>1, <2>2 DEF LifecycleInv, RecordOwner, LifeInv, InProgress, DeactivateInv
<1>14. ASSUME NEW t \in Txns, ClearOwner(t) PROVE LifecycleInv'
  <2>1. RegisterInv'
    BY <1>0, <1>14 DEF ClearOwner, RegisterInv, InProgress, TxnType, RowType
  <2>2. RegistrationSafe'
    BY <1>0, <1>14 DEF ClearOwner, RegistrationSafe, RowType
  <2> QED
    BY <1>0, <1>14, <2>1, <2>2 DEF LifecycleInv, ClearOwner, LifeInv, InProgress, DeactivateInv
<1>15. ASSUME UNCHANGED <<row, draft, life, txn, dataflow>> PROVE LifecycleInv'
  BY <1>0, <1>15 DEF LifecycleInv, LifeInv, RegisterInv, DeactivateInv, RegistrationSafe, InProgress
<1>16. CASE DropDataflow
  BY <1>0, <1>16 DEF DropDataflow, LifecycleInv, LifeInv, RegisterInv, DeactivateInv, RegistrationSafe, InProgress
<1>17. CASE Reboot
  <2>1. /\ draft'.by = None /\ UNCHANGED <<row, dataflow>>
        /\ \A t \in Txns : ~InProgress(t)' /\ txn'[t].todo = "none"
    <3>1. \A t \in Txns : ~InProgress(t)'
      BY <1>0, <1>17 DEF Reboot, InProgress, TxnType
    <3>2. \A t \in Txns : txn'[t].todo = "none"
      BY <1>0, <1>17 DEF Reboot, InProgress, TxnType, IdentityInv, TodoInv
    <3> QED
      BY <1>17, <3>1, <3>2 DEF Reboot, NoDraft
  <2> QED
    BY <1>0, <2>1 DEF LifecycleInv, LifeInv, RegisterInv, DeactivateInv, RegistrationSafe
<1> QED
  BY <1>1, <1>2, <1>3, <1>4, <1>5, <1>6, <1>7, <1>8, <1>9, <1>10, <1>11, <1>12,
     <1>13, <1>14, <1>15, <1>16, <1>17
  DEF Next, TxnStep, WorkerStep, vars, Cancel, Terminate, LaunchSeen, ClaimIdentity, ClaimRejected, UnlockIdentity, Exit, Restart, Crash

\* A registered dataflow is never left in an inactive database: a registration
\* that completes is not crossed by a deactivation that commits.
THEOREM RegistrationIsSafe == Spec => []RegistrationSafe
<1>1. ASSUME Init PROVE LifecycleInv
  <2>1. \A t \in Txns : ~InProgress(t) /\ txn[t].todo = "none"
    BY <1>1 DEF Init, InProgress
  <2>2. \A t \in Txns : draft.by # t
    BY <1>1, RuntimeAssumption DEF Init, NoDraft
  <2>3. ~dataflow
    BY <1>1 DEF Init
  <2> QED
    BY <2>1, <2>2, <2>3 DEF LifecycleInv, LifeInv, RegisterInv, DeactivateInv, RegistrationSafe
<1>2. LifecycleInv => RegistrationSafe
  BY DEF LifecycleInv
<1> QED
  BY <1>1, <1>2, LifecycleStep, TypeCorrect, IdentityHolds, PTL DEF Spec
=============================================================================
