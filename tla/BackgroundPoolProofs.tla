----------------------- MODULE BackgroundPoolProofs -----------------------
(***************************************************************************)
(* The safety properties of BackgroundPool hold for any set of tasks, any  *)
(* number of slots and any limit on the iterations of a ralph loop.        *)
(***************************************************************************)
EXTENDS BackgroundPool, FiniteSetTheorems, TLAPS

USE TasksAssumption, LimitsAssumption

\* SetState has no other effect than to give one task a state.
LEMMA SetStateType ==
    ASSUME TypeOK, NEW t \in Tasks, NEW s \in {"none"} \union Active \union Final,
           SetState(t, s)
    PROVE  /\ state' \in [Tasks -> {"none"} \union Active \union Final]
           /\ \A u \in Tasks : u # t \/ t \notin tasks => state'[u] = state[u]
           /\ t \in tasks => state'[t] = s
BY DEF TypeOK, SetState

-----------------------------------------------------------------------------
(* Type correctness                                                        *)

LEMMA InitType == Init => TypeOK
<1> SUFFICES ASSUME Init PROVE TypeOK
  OBVIOUS
<1>1. state \in [Tasks -> {"none"} \union Active \union Final]
  BY DEF Init
<1>2. iter \in [Tasks -> 0 .. MaxIterations]
  BY DEF Init
<1>3. pc \in [Tasks -> PCs]
  BY DEF Init, PCs
<1> QED BY <1>1, <1>2, <1>3 DEF Init, TypeOK

LEMMA SubmitterType ==
    ASSUME TypeOK, NEW t \in Tasks, Submitter(t)
    PROVE  TypeOK'
<1> USE DEF TypeOK, PCs, Submitting, Executing, Goto, At, table, sync, Active
<1>1. CASE CheckOpen(t)
  BY <1>1 DEF CheckOpen
<1>2. CASE AcquireSlot(t)
  BY <1>2 DEF AcquireSlot
<1>3. CASE Register(t)
  BY <1>3 DEF Register
<1>4. CASE Spawn(t)
  BY <1>4 DEF Spawn
<1> QED BY <1>1, <1>2, <1>3, <1>4 DEF Submitter

LEMMA GoroutineType ==
    ASSUME TypeOK, NEW t \in Tasks, Goroutine(t)
    PROVE  TypeOK'
<1> USE DEF TypeOK, PCs, Executing, Concluding, Goto, At, table, sync
<1> DEFINE StateOK == state' \in [Tasks -> {"none"} \union Active \union Final]
<1>1. CASE Start(t)
  BY <1>1 DEF Start
<1>2. CASE Iterate(t)
  BY <1>2 DEF Iterate
<1>3. CASE Execute(t)
  BY <1>3 DEF Execute, Answered, Failed
<1>4. CASE Ask(t)
  <2>1. StateOK
    BY <1>4, SetStateType DEF Ask, Active
  <2> QED BY <1>4, <2>1 DEF Ask
<1>5. CASE Approved(t)
  BY <1>5 DEF Approved
<1>6. CASE Refused(t)
  BY <1>6 DEF Refused
<1>7. CASE Resume(t)
  <2>1. StateOK
    BY <1>7, SetStateType DEF Resume, Active
  <2> QED BY <1>7, <2>1 DEF Resume
<1>8. CASE Execute2(t)
  BY <1>8 DEF Execute2, Answered, Failed
<1>9. CASE Store(t)
  BY <1>9 DEF Store
<1>10. CASE Conclude(t)
  <2>1. StateOK
    BY <1>10, SetStateType DEF Conclude, Final
  <2> QED BY <1>10, <2>1 DEF Conclude
<1>11. CASE Report(t)
  BY <1>11 DEF Report
<1>12. CASE Fail(t)
  <2>1. StateOK
    BY <1>12, SetStateType DEF Fail, Final
  <2> QED BY <1>12, <2>1 DEF Fail
<1>13. CASE Drop(t)
  <2>1. StateOK
    BY <1>13, SetStateType DEF Drop, Final
  <2> QED BY <1>13, <2>1 DEF Drop
<1>14. CASE Exit(t)
  BY <1>14 DEF Exit
<1> QED BY <1>1, <1>2, <1>3, <1>4, <1>5, <1>6, <1>7, <1>8, <1>9, <1>10, <1>11,
           <1>12, <1>13, <1>14 DEF Goroutine

LEMMA OthersType ==
    ASSUME TypeOK,
           \/ \E t \in Tasks : CancelMark(t) \/ CancelCall(t)
           \/ Cleanup \/ CancelAll \/ Wait \/ Quit
    PROVE  TypeOK'
<1> USE DEF TypeOK, table, sync
<1>1. ASSUME NEW t \in Tasks, CancelMark(t)
      PROVE  TypeOK'
  BY <1>1 DEF CancelMark, Final
<1>2. ASSUME NEW t \in Tasks, CancelCall(t)
      PROVE  TypeOK'
  BY <1>2 DEF CancelCall
<1>3. CASE Cleanup
  BY <1>3 DEF Cleanup
<1>4. CASE CancelAll
  BY <1>4 DEF CancelAll, Final
<1>5. CASE Wait
  BY <1>5 DEF Wait
<1>6. CASE Quit
  BY <1>6 DEF Quit
<1> QED BY <1>1, <1>2, <1>3, <1>4, <1>5, <1>6

LEMMA NextType == TypeOK /\ [Next]_vars => TypeOK'
<1> SUFFICES ASSUME TypeOK, [Next]_vars PROVE TypeOK'
  OBVIOUS
<1>1. CASE UNCHANGED vars
  BY <1>1 DEF TypeOK, vars, table, sync
<1>2. CASE Next
  BY <1>2, SubmitterType, GoroutineType, OthersType DEF Next
<1> QED BY <1>1, <1>2

\* Every variable of the pool keeps its type, and no ralph loop runs more
\* iterations than MaxIterations (Submit, run, runRalph, Cancel, Cleanup).
THEOREM TypeCorrect == Spec => []TypeOK
<1>1. Init => TypeOK
  BY InitType
<1>2. TypeOK /\ [Next]_vars => TypeOK'
  BY NextType
<1> QED BY <1>1, <1>2, PTL DEF Spec

-----------------------------------------------------------------------------
(* The inductive invariant                                                 *)

\* SlotAccounting without the bound, one task at a time.
Holders ==
    \A u \in Tasks : /\ u \in sem <=> HoldsSlot(u)
                     /\ u \in tasks /\ state[u] \in Active => u \in sem

Core == Holders /\ Reachable /\ ClosedStops /\ TableOK

LEMMA InitCore == Init => Core
BY DEF Init, Core, Holders, Reachable, ClosedStops, TableOK, HoldsSlot, Working,
       Submitting, Executing, Concluding, Active

LEMMA SubmitterCore ==
    ASSUME TypeOK, Core, NEW t \in Tasks, Submitter(t)
    PROVE  Core'
<1> USE DEF Goto, At, table, sync, Submitting, Executing, Concluding, Active
<1> DEFINE Rest == Reachable /\ ClosedStops /\ TableOK
<1>1. CASE CheckOpen(t)
  <2>1. Holders'
    BY <1>1 DEF CheckOpen, Core, Holders, HoldsSlot, TypeOK
  <2>2. Rest'
    BY <1>1 DEF CheckOpen, Core, Reachable, ClosedStops, TableOK, Working, TypeOK
  <2> QED BY <2>1, <2>2 DEF Core
<1>2. CASE AcquireSlot(t)
  <2>1. Holders'
    BY <1>2 DEF AcquireSlot, Core, Holders, HoldsSlot, TypeOK
  <2>2. Rest'
    BY <1>2 DEF AcquireSlot, Core, Reachable, ClosedStops, TableOK, Working, TypeOK
  <2> QED BY <2>1, <2>2 DEF Core
<1>3. CASE Register(t)
  <2>1. Holders'
    BY <1>3 DEF Register, Core, Holders, TableOK, HoldsSlot, TypeOK
  <2>2. Rest'
    BY <1>3 DEF Register, Core, Reachable, ClosedStops, TableOK, Working, TypeOK
  <2> QED BY <2>1, <2>2 DEF Core
<1>4. CASE Spawn(t)
  <2>1. Holders'
    BY <1>4 DEF Spawn, Core, Holders, HoldsSlot, TypeOK
  <2>2. Rest'
    BY <1>4 DEF Spawn, Core, Reachable, ClosedStops, TableOK, Working, TypeOK
  <2> QED BY <2>1, <2>2 DEF Core
<1> QED BY <1>1, <1>2, <1>3, <1>4 DEF Submitter

\* A step of the goroutine that leaves the shared state alone, and keeps working
\* or begins to conclude.
LEMMA InternalCore ==
    ASSUME TypeOK, Core, NEW t \in Tasks,
           pc[t] \in Executing \union (Concluding \ {"conclude", "report", "exit"}),
           NEW p \in Executing \union (Concluding \ {"report", "exit"}), Goto(t, p),
           p \in Executing => pc[t] \in Executing,
           t \in result => p = "conclude",
           UNCHANGED <<closed, tasks, state, sem, ctxDone, cancelling>>,
           result' \subseteq result \union (IF p = "conclude" THEN {t} ELSE {})
    PROVE  Core'
<1> USE DEF Goto, Submitting, Executing, Concluding, Active, TypeOK
<1>1. Holders'
  BY DEF Core, Holders, HoldsSlot
<1>2. Reachable' /\ ClosedStops'
  BY DEF Core, Reachable, ClosedStops, Working
<1>3. TableOK'
  BY DEF Core, TableOK
<1> QED BY <1>1, <1>2, <1>3 DEF Core

\* A step that gives the task a state through setTaskState.
LEMMA StateCore ==
    ASSUME TypeOK, Core, NEW t \in Tasks,
           NEW s \in Active \union Final, SetState(t, s),
           NEW p \in Executing \union Concluding, Goto(t, p),
           \/ /\ pc[t] \in Executing /\ p \in Executing /\ s \in Active
           \/ /\ pc[t] \in Concluding \ {"report", "exit"}
              /\ p \in {"report", "exit"} /\ s \in Final,
           UNCHANGED <<closed, tasks, result, sem, ctxDone, cancelling>>
    PROVE  Core'
<1>1. /\ \A u \in Tasks : u # t \/ t \notin tasks => state'[u] = state[u]
      /\ t \in tasks => state'[t] = s
  BY SetStateType
<1> USE <1>1 DEF Goto, Submitting, Executing, Concluding, Active, Final, TypeOK
<1>2. Holders'
  BY DEF Core, Holders, HoldsSlot
<1>3. Reachable' /\ ClosedStops'
  BY DEF Core, Reachable, ClosedStops, Working
<1>4. TableOK'
  BY DEF Core, TableOK
<1> QED BY <1>2, <1>3, <1>4 DEF Core

LEMMA GoroutineCore ==
    ASSUME TypeOK, Core, NEW t \in Tasks, Goroutine(t)
    PROVE  Core'
<1>a. pc[t] \notin {"conclude", "report", "exit", "gone"} => t \notin result
  BY DEF Core, TableOK
<1> DEFINE Internal == /\ pc[t] \in Executing
                       /\ \E p \in Executing \union {"store", "conclude", "fail", "drop"} : Goto(t, p)
                       /\ UNCHANGED <<closed, table, sem, ctxDone, cancelling>>
<1>b. ASSUME Internal PROVE Core'
  BY <1>a, <1>b, InternalCore DEF Executing, Concluding, table
<1> USE DEF At, table, sync
<1>1. CASE Start(t)
  <2>1. Internal
    BY <1>1 DEF Start, Executing
  <2> QED BY <2>1, <1>b
<1>2. CASE Iterate(t)
  <2>1. Internal
    BY <1>2 DEF Iterate, Executing
  <2> QED BY <2>1, <1>b
<1>3. CASE Execute(t)
  <2>1. Internal
    BY <1>3 DEF Execute, Answered, Failed, Executing
  <2> QED BY <2>1, <1>b
<1>4. CASE Ask(t)
  BY <1>4, StateCore DEF Ask, Executing, Active
<1>5. CASE Approved(t)
  <2>1. Internal
    BY <1>5 DEF Approved, Executing
  <2> QED BY <2>1, <1>b
<1>6. CASE Refused(t)
  <2>1. Internal
    BY <1>6 DEF Refused, Executing
  <2> QED BY <2>1, <1>b
<1>7. CASE Resume(t)
  BY <1>7, StateCore DEF Resume, Executing, Active
<1>8. CASE Execute2(t)
  <2>1. Internal
    BY <1>8 DEF Execute2, Answered, Failed, Executing
  <2> QED BY <2>1, <1>b
<1>9. CASE Store(t)
  BY <1>9, InternalCore DEF Store, Executing, Concluding
<1>10. CASE Conclude(t)
  BY <1>10, StateCore DEF Conclude, Concluding, Final
<1>11. CASE Report(t)
  <2> USE <1>11 DEF Report, Goto, Submitting, Executing, Concluding, TypeOK
  <2>1. Holders'
    BY DEF Core, Holders, HoldsSlot
  <2>2. Reachable' /\ ClosedStops'
    BY DEF Core, Reachable, ClosedStops, Working
  <2>3. TableOK'
    BY DEF Core, TableOK
  <2> QED BY <2>1, <2>2, <2>3 DEF Core
<1>12. CASE Fail(t)
  BY <1>12, StateCore DEF Fail, Concluding, Final
<1>13. CASE Drop(t)
  BY <1>13, StateCore DEF Drop, Concluding, Final
<1>14. CASE Exit(t)
  <2> USE <1>14 DEF Exit, Goto, Submitting, Executing, Concluding, TypeOK
  <2>1. Holders'
    BY DEF Core, Holders, HoldsSlot, TableOK
  <2>2. Reachable' /\ ClosedStops'
    BY DEF Core, Reachable, ClosedStops, Working
  <2>3. TableOK'
    BY DEF Core, TableOK
  <2> QED BY <2>1, <2>2, <2>3 DEF Core
<1> QED BY <1>1, <1>2, <1>3, <1>4, <1>5, <1>6, <1>7, <1>8, <1>9, <1>10, <1>11,
           <1>12, <1>13, <1>14 DEF Goroutine

LEMMA OthersCore ==
    ASSUME TypeOK, Core,
           \/ \E t \in Tasks : CancelMark(t) \/ CancelCall(t)
           \/ Cleanup \/ CancelAll \/ Wait \/ Quit
    PROVE  Core'
<1> USE DEF TypeOK, table, sync, Core, Holders, HoldsSlot, Reachable, ClosedStops,
            TableOK, Working, Active, Final
<1>1. ASSUME NEW t \in Tasks, CancelMark(t)
      PROVE  Core'
  BY <1>1 DEF CancelMark
<1>2. ASSUME NEW t \in Tasks, CancelCall(t)
      PROVE  Core'
  BY <1>2 DEF CancelCall
<1>3. CASE Cleanup
  BY <1>3 DEF Cleanup
<1>4. CASE CancelAll
  BY <1>4 DEF CancelAll
<1>5. CASE Wait
  BY <1>5 DEF Wait
<1>6. CASE Quit
  BY <1>6 DEF Quit
<1> QED BY <1>1, <1>2, <1>3, <1>4, <1>5, <1>6

LEMMA NextCore == TypeOK /\ Core /\ [Next]_vars => Core'
<1> SUFFICES ASSUME TypeOK, Core, [Next]_vars PROVE Core'
  OBVIOUS
<1>1. CASE UNCHANGED vars
  BY <1>1 DEF vars, table, sync, Core, Holders, HoldsSlot, Reachable, ClosedStops,
              TableOK, Working
<1>2. CASE Next
  BY <1>2, SubmitterCore, GoroutineCore, OthersCore DEF Next
<1> QED BY <1>1, <1>2

\* The channel sem grows only while it has room.
Bounded == Cardinality(sem) <= MaxSlots

LEMMA SemStep ==
    ASSUME TypeOK, [Next]_vars
    PROVE  \/ sem' = sem
           \/ \E t \in Tasks : sem' = sem \ {t}
           \/ \E t \in Tasks : sem' = sem \union {t} /\ Cardinality(sem) < MaxSlots
<1>1. CASE UNCHANGED vars
  BY <1>1 DEF vars, sync
<1>2. ASSUME NEW t \in Tasks, Submitter(t)
      PROVE  \/ sem' = sem \/ sem' = sem \ {t}
             \/ sem' = sem \union {t} /\ Cardinality(sem) < MaxSlots
  BY <1>2 DEF Submitter, CheckOpen, AcquireSlot, Register, Spawn, sync
<1>3. ASSUME NEW t \in Tasks, Goroutine(t)
      PROVE  sem' = sem \/ sem' = sem \ {t}
  BY <1>3 DEF Goroutine, Start, Iterate, Execute, Ask, Approved, Refused, Resume,
              Execute2, Store, Conclude, Report, Fail, Drop, Exit, sync
<1>4. ASSUME NEW t \in Tasks, CancelMark(t) \/ CancelCall(t)
      PROVE  sem' = sem
  BY <1>4 DEF CancelMark, CancelCall, sync
<1>5. CASE Cleanup \/ CancelAll \/ Wait \/ Quit
  BY <1>5 DEF Cleanup, CancelAll, Wait, Quit, sync
<1> QED BY <1>1, <1>2, <1>3, <1>4, <1>5 DEF Next

LEMMA NextBounded == TypeOK /\ Bounded /\ [Next]_vars => Bounded'
<1> SUFFICES ASSUME TypeOK, Bounded, [Next]_vars PROVE Bounded'
  OBVIOUS
<1>1. IsFiniteSet(sem) /\ Cardinality(sem) \in Nat
  BY FS_Subset, FS_CardinalityType DEF TypeOK
<1>2. ASSUME NEW t \in Tasks, sem' = sem \ {t}
      PROVE  Bounded'
  <2>1. sem \ {t} \in SUBSET sem
    OBVIOUS
  <2>2. Cardinality(sem \ {t}) <= Cardinality(sem) /\ IsFiniteSet(sem \ {t})
    BY <1>1, <2>1, FS_Subset, ZenonT(30)
  <2>3. Cardinality(sem \ {t}) \in Nat
    BY <2>2, FS_CardinalityType
  <2> QED BY <1>1, <1>2, <2>2, <2>3 DEF Bounded
<1>3. ASSUME NEW t \in Tasks, sem' = sem \union {t}, Cardinality(sem) < MaxSlots
      PROVE  Bounded'
  <2>1. Cardinality(sem \union {t}) = IF t \in sem THEN Cardinality(sem) ELSE Cardinality(sem) + 1
    BY <1>1, FS_AddElement, ZenonT(30)
  <2> QED BY <1>1, <1>3, <2>1 DEF Bounded
<1> QED BY <1>2, <1>3, SemStep DEF Bounded

LEMMA CoreIsIInv == TypeOK => (Core /\ Bounded <=> IInv)
<1> SUFFICES ASSUME TypeOK PROVE Core /\ Bounded <=> IInv
  OBVIOUS
<1>1. (\A u \in Tasks : u \in sem <=> HoldsSlot(u)) <=> sem = {u \in Tasks : HoldsSlot(u)}
  BY DEF TypeOK
<1>2. Holders /\ Bounded <=> SlotAccounting
  BY <1>1 DEF Holders, Bounded, SlotAccounting, TypeOK
<1> QED BY <1>2 DEF Core, IInv

\* The inductive invariant of the pool.
THEOREM InvariantHolds == Spec => []IInv
<1>1. Init => TypeOK /\ Core /\ Bounded
  BY InitType, InitCore, FS_EmptySet DEF Init, Bounded
<1>2. TypeOK /\ Core /\ Bounded /\ [Next]_vars => (TypeOK /\ Core /\ Bounded)'
  BY NextType, NextCore, NextBounded
<1>3. TypeOK /\ Core /\ Bounded => IInv
  BY CoreIsIInv
<1> QED BY <1>1, <1>2, <1>3, PTL DEF Spec

\* A slot is held exactly from its acquisition to its release, never more than
\* maxBackgroundSlots are, and every active entry of the table holds one (Submit,
\* the deferred release, RunningCount).
THEOREM SlotAccountingCorrect == Spec => []SlotAccounting
<1>1. IInv => SlotAccounting
  BY DEF IInv
<1> QED BY <1>1, InvariantHolds, PTL

\* A task that still works has a cancelled context, or one about to be, or is in
\* the table as active: Cancel and CancelAll can always reach it (setTaskState,
\* Cancel, Cleanup).
THEOREM ReachableCorrect == Spec => []Reachable
<1>1. IInv => Reachable
  BY DEF IInv
<1> QED BY <1>1, InvariantHolds, PTL

\* Once CancelAll closed the pool no goroutine works under a live context, however
\* Submit and CancelAll interleave.
THEOREM ClosedStopsCorrect == Spec => []ClosedStops
<1>1. IInv => ClosedStops
  BY DEF IInv
<1> QED BY <1>1, InvariantHolds, PTL

\* The table, the stored results and the goroutines agree: a finished goroutine
\* leaves no active entry, and no task with a result can be reopened (setTaskState,
\* sendResult, runRalph).
THEOREM TableOKCorrect == Spec => []TableOK
<1>1. IInv => TableOK
  BY DEF IInv
<1> QED BY <1>1, InvariantHolds, PTL

-----------------------------------------------------------------------------
(* Stored results                                                          *)

\* What holds of each task in a step that keeps InjectIsFinal.
Kept(t) ==
    t \in result /\ state[t] \in Final /\ t \in tasks' =>
        t \in result' /\ state'[t] \in Final

LEMMA StateKept ==
    ASSUME TypeOK, TableOK, NEW t \in Tasks,
           NEW s \in Active \union Final, SetState(t, s), UNCHANGED result,
           s \in Active => t \notin result
    PROVE  \A u \in tasks : Kept(u)
BY SetStateType DEF Kept, TypeOK

LEMMA NextKept ==
    ASSUME TypeOK, TableOK, Next
    PROVE  \A u \in tasks : Kept(u)
<1> USE DEF table, sync
<1> DEFINE Goal == \A u \in tasks : Kept(u)
<1>1. ASSUME NEW t \in Tasks, Submitter(t)
      PROVE  Goal
  BY <1>1 DEF Submitter, CheckOpen, AcquireSlot, Register, Spawn, At, Kept, TableOK, TypeOK
<1>2. ASSUME NEW t \in Tasks, Goroutine(t)
      PROVE  Goal
  <2>1. CASE Ask(t) \/ Resume(t)
    <3>1. t \notin result
      BY <2>1 DEF Ask, Resume, At, TableOK
    <3> QED BY <2>1, <3>1, StateKept DEF Ask, Resume, Active
  <2>2. CASE Conclude(t) \/ Fail(t) \/ Drop(t)
    BY <2>2, StateKept DEF Conclude, Fail, Drop, Final, Active
  <2>3. CASE Store(t) \/ Report(t)
    BY <2>3 DEF Store, Report, Kept
  <2>4. CASE \/ Start(t) \/ Iterate(t) \/ Execute(t) \/ Approved(t) \/ Refused(t)
             \/ Execute2(t) \/ Exit(t)
    BY <2>4 DEF Start, Iterate, Execute, Approved, Refused, Execute2, Exit, Kept
  <2> QED BY <1>2, <2>1, <2>2, <2>3, <2>4 DEF Goroutine
<1>3. ASSUME NEW t \in Tasks, CancelMark(t) \/ CancelCall(t)
      PROVE  Goal
  BY <1>3 DEF CancelMark, CancelCall, Kept, TypeOK, Final
<1>4. CASE Cleanup
  BY <1>4 DEF Cleanup, Kept, TypeOK
<1>5. CASE CancelAll
  BY <1>5 DEF CancelAll, Kept, TypeOK, Final
<1>6. CASE Wait \/ Quit
  BY <1>6 DEF Wait, Quit, Kept
<1> QED BY <1>1, <1>2, <1>3, <1>4, <1>5, <1>6 DEF Next

\* A result that /research inject can hand out stays available, in a final state,
\* until Cleanup removes the task (sendResult, runRalph, setTaskState).
THEOREM InjectIsFinalCorrect == Spec => InjectIsFinal
<1>1. IInv /\ [Next]_vars =>
          [\A t \in tasks : t \in result /\ state[t] \in Final /\ t \in tasks' =>
                               t \in result' /\ state'[t] \in Final]_vars
  BY NextKept DEF IInv, Kept
<1> QED BY <1>1, InvariantHolds, PTL DEF Spec, InjectIsFinal
=============================================================================
