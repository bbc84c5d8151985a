--------------------------- MODULE BackgroundPool ---------------------------
(***************************************************************************)
(* The pool of background tasks: /research tasks (BackgroundPool.run) and  *)
(* /ralph loops (runRalph) share a semaphore, a task table and a wait      *)
(* group.  A Telegram handler submits a task and starts its goroutine;     *)
(* other handlers cancel it or read its result; a ticker removes finished  *)
(* entries; Worker.Stop closes the pool, cancels what the table shows as   *)
(* active and waits for the wait group.  A step is one critical section of *)
(* the code.                                                               *)
(***************************************************************************)
EXTENDS Naturals, FiniteSets

CONSTANTS
    Tasks,          \* task identifiers (taskCounter never reuses one)
    Ralphs,         \* those submitted with /ralph
    MaxSlots,       \* maxBackgroundSlots
    MaxIterations   \* MaxIterations of every ralph loop

ASSUME TasksAssumption == IsFiniteSet(Tasks) /\ Ralphs \subseteq Tasks
ASSUME LimitsAssumption == MaxSlots \in Nat \ {0} /\ MaxIterations \in Nat \ {0}

VARIABLES
    closed,     \* BackgroundPool.closed
    tasks,      \* keys of BackgroundPool.tasks
    state,      \* BackgroundTask.State, "none" before the task is in the table
    result,     \* tasks whose ResultText is set
    sem,        \* who holds a slot of BackgroundPool.sem
    wg,         \* who is counted in BackgroundPool.wg
    ctxDone,    \* tasks whose context is cancelled
    cancelling, \* handlers in Cancel between the unlock and cancelFn()
    iter,       \* BackgroundTask.CurrentIteration
    pc,         \* where the submitter, then the goroutine, of a task is
    stop        \* "no", "waiting" in BackgroundPool.Wait, "returned" from it,
                \* "exited" once main has returned

table == <<tasks, state, result>>
sync  == <<sem, wg>>
vars  == <<closed, table, sync, ctxDone, cancelling, iter, pc, stop>>

Active == {"running", "approval"}
Final  == {"done", "failed", "cancelled"}

\* The submitter's steps, the goroutine's steps, and the two ends.
Submitting == {"checked", "holding", "registered"}
Executing  == {"start", "iterate", "execute", "ask", "asking", "resume", "execute2"}
Concluding == {"store", "conclude", "report", "fail", "drop", "exit"}
PCs        == {"new", "rejected", "gone"} \union Submitting \union Executing \union Concluding

\* A slot is taken from "holding" on; work is done from "registered" on.
HoldsSlot(t) == pc[t] \in {"holding", "registered"} \union Executing \union Concluding
Working(t)   == pc[t] \in {"registered"} \union Executing

Init ==
    /\ closed = FALSE
    /\ tasks = {} /\ state = [t \in Tasks |-> "none"] /\ result = {}
    /\ sem = {} /\ wg = {}
    /\ ctxDone = {} /\ cancelling = {}
    /\ iter = [t \in Tasks |-> 0]
    /\ pc = [t \in Tasks |-> "new"]
    /\ stop = "no"

-----------------------------------------------------------------------------
Alive         == stop # "exited"
At(t, p)      == Alive /\ pc[t] = p
Goto(t, p)    == pc' = [pc EXCEPT ![t] = p]

\* setTaskState overwrites whatever is there, and ignores a removed task.
SetState(t, s) ==
    state' = IF t \in tasks THEN [state EXCEPT ![t] = s] ELSE state

-----------------------------------------------------------------------------
(* Submit and SubmitRalph                                                  *)

CheckOpen(t) ==
    /\ At(t, "new")
    /\ Goto(t, IF closed THEN "rejected" ELSE "checked")
    /\ UNCHANGED <<closed, table, sync, ctxDone, cancelling, iter, stop>>

AcquireSlot(t) ==
    /\ At(t, "checked")
    /\ IF Cardinality(sem) < MaxSlots
       THEN sem' = sem \union {t} /\ Goto(t, "holding")
       ELSE sem' = sem /\ Goto(t, "rejected")
    /\ UNCHANGED <<closed, table, wg, ctxDone, cancelling, iter, stop>>

\* Mutant: closed is not looked at again.
RegisterUnchecked(t) ==
    /\ At(t, "holding")
    /\ tasks' = tasks \union {t}
    /\ state' = [state EXCEPT ![t] = "running"]
    /\ Goto(t, "registered")
    /\ UNCHANGED <<closed, sem, ctxDone, result, wg, cancelling, iter, stop>>

\* closed is looked at again, under the mutex that adds the task to the table.
Register(t) ==
    /\ At(t, "holding")
    /\ IF closed
       THEN /\ ctxDone' = ctxDone \union {t} /\ sem' = sem \ {t}
            /\ Goto(t, "rejected")
            /\ UNCHANGED <<tasks, state>>
       ELSE /\ tasks' = tasks \union {t}
            /\ state' = [state EXCEPT ![t] = "running"]
            /\ Goto(t, "registered")
            /\ UNCHANGED <<sem, ctxDone>>
    /\ UNCHANGED <<closed, result, wg, cancelling, iter, stop>>

\* wg.Add(1) and go, after the mutex was released.
Spawn(t) ==
    /\ At(t, "registered")
    /\ wg' = wg \union {t}
    /\ Goto(t, "start")
    /\ UNCHANGED <<closed, table, sem, ctxDone, cancelling, iter, stop>>

Submitter(t) == CheckOpen(t) \/ AcquireSlot(t) \/ Register(t) \/ Spawn(t)

-----------------------------------------------------------------------------
(* The goroutine: run and runRalph                                         *)

\* NewBackgroundExecutor fails when the project is gone.
Start(t) ==
    /\ At(t, "start")
    /\ \/ Goto(t, IF t \in Ralphs THEN "iterate" ELSE "execute")
       \/ Goto(t, "fail")
    /\ UNCHANGED <<closed, table, sync, ctxDone, cancelling, iter, stop>>

\* Mutant: the loop has no last iteration.
IterateForever(t) ==
    /\ At(t, "iterate")
    /\ IF t \in ctxDone THEN iter' = iter /\ Goto(t, "drop")
       ELSE /\ iter' = [iter EXCEPT ![t] = IF @ < MaxIterations THEN @ + 1 ELSE @]
            /\ Goto(t, "execute")
    /\ UNCHANGED <<closed, table, sync, ctxDone, cancelling, stop>>

\* The head of runRalph's loop.
Iterate(t) ==
    /\ At(t, "iterate")
    /\ IF iter[t] = MaxIterations THEN iter' = iter /\ Goto(t, "store")
       ELSE IF t \in ctxDone THEN iter' = iter /\ Goto(t, "drop")
       ELSE iter' = [iter EXCEPT ![t] = @ + 1] /\ Goto(t, "execute")
    /\ UNCHANGED <<closed, table, sync, ctxDone, cancelling, stop>>

\* After an answered run a research task concludes; a ralph loop goes on, or
\* stores its answer when it looks complete, stalled or too expensive.
Answered(t) ==
    IF t \in Ralphs THEN Goto(t, "store") \/ Goto(t, "iterate")
                    ELSE Goto(t, "conclude")

\* A failing run counts as cancelled if the context is by then.
Failed(t) == Goto(t, IF t \in ctxDone THEN "drop" ELSE "fail")

\* Mutant: the text of every run is stored, not only that of the last one.
ExecuteStores(t) ==
    /\ At(t, "execute")
    /\ Answered(t) \/ Goto(t, "ask") \/ Failed(t)
    /\ result' = result \union {t}
    /\ UNCHANGED <<closed, tasks, state, sync, ctxDone, cancelling, iter, stop>>

\* The CLI ends: answer, permission denials, or an error, the only outcomes
\* open to a run that is killed; one that was done before the kill still counts.
Execute(t) ==
    /\ At(t, "execute")
    /\ Answered(t) \/ Goto(t, "ask") \/ Failed(t)
    /\ UNCHANGED <<closed, table, sync, ctxDone, cancelling, iter, stop>>

Ask(t) ==
    /\ At(t, "ask")
    /\ SetState(t, "approval")
    /\ Goto(t, "asking")
    /\ UNCHANGED <<closed, tasks, result, sync, ctxDone, cancelling, iter, stop>>

\* requestApproval: the user allows, or denies; a timeout, a failed send and a
\* cancelled context end like a denial.
Approved(t) ==
    /\ At(t, "asking")
    /\ Goto(t, "resume")
    /\ UNCHANGED <<closed, table, sync, ctxDone, cancelling, iter, stop>>

Refused(t) ==
    /\ At(t, "asking")
    /\ Goto(t, "conclude")
    /\ UNCHANGED <<closed, table, sync, ctxDone, cancelling, iter, stop>>

Resume(t) ==
    /\ At(t, "resume")
    /\ SetState(t, "running")
    /\ Goto(t, "execute2")
    /\ UNCHANGED <<closed, tasks, result, sync, ctxDone, cancelling, iter, stop>>

Execute2(t) ==
    /\ At(t, "execute2")
    /\ Answered(t) \/ Failed(t)
    /\ UNCHANGED <<closed, table, sync, ctxDone, cancelling, iter, stop>>

\* runRalph stores the text before the state, run after it (sendResult); a
\* refused ralph loop never stores it.
Store(t) ==
    /\ At(t, "store")
    /\ result' = result \union {t}
    /\ Goto(t, "conclude")
    /\ UNCHANGED <<closed, tasks, state, sync, ctxDone, cancelling, iter, stop>>

Conclude(t) ==
    /\ At(t, "conclude")
    /\ SetState(t, "done")
    /\ Goto(t, "report")
    /\ UNCHANGED <<closed, tasks, result, sync, ctxDone, cancelling, iter, stop>>

Report(t) ==
    /\ At(t, "report")
    /\ result' = IF t \in Ralphs THEN result ELSE result \union {t}
    /\ Goto(t, "exit")
    /\ UNCHANGED <<closed, tasks, state, sync, ctxDone, cancelling, iter, stop>>

Fail(t) ==
    /\ At(t, "fail")
    /\ SetState(t, "failed")
    /\ Goto(t, "exit")
    /\ UNCHANGED <<closed, tasks, result, sync, ctxDone, cancelling, iter, stop>>

Drop(t) ==
    /\ At(t, "drop")
    /\ SetState(t, "cancelled")
    /\ Goto(t, "exit")
    /\ UNCHANGED <<closed, tasks, result, sync, ctxDone, cancelling, iter, stop>>

\* Mutants: the deferred wg.Done, or receive from sem, is missing.
ExitKeepsCount(t) ==
    /\ At(t, "exit")
    /\ sem' = sem \ {t} /\ wg' = wg
    /\ Goto(t, "gone")
    /\ UNCHANGED <<closed, table, ctxDone, cancelling, iter, stop>>

ExitKeepsSlot(t) ==
    /\ At(t, "exit")
    /\ sem' = sem /\ wg' = wg \ {t}
    /\ Goto(t, "gone")
    /\ UNCHANGED <<closed, table, ctxDone, cancelling, iter, stop>>

Exit(t) ==
    /\ At(t, "exit")
    /\ sem' = sem \ {t} /\ wg' = wg \ {t}
    /\ Goto(t, "gone")
    /\ UNCHANGED <<closed, table, ctxDone, cancelling, iter, stop>>

Goroutine(t) ==
    \/ Start(t) \/ Iterate(t) \/ Execute(t) \/ Ask(t) \/ Approved(t) \/ Refused(t)
    \/ Resume(t) \/ Execute2(t) \/ Store(t) \/ Conclude(t) \/ Report(t)
    \/ Fail(t) \/ Drop(t) \/ Exit(t)

-----------------------------------------------------------------------------
(* Cancel, Cleanup, Stop                                                   *)

\* Cancel marks the task under the mutex and calls cancelFn after it.
CancelMark(t) ==
    /\ Alive /\ t \in tasks /\ state[t] \in Active
    /\ state' = [state EXCEPT ![t] = "cancelled"]
    /\ cancelling' = cancelling \union {t}
    /\ UNCHANGED <<closed, tasks, result, sync, ctxDone, iter, pc, stop>>

CancelCall(t) ==
    /\ Alive /\ t \in cancelling
    /\ cancelling' = cancelling \ {t}
    /\ ctxDone' = ctxDone \union {t}
    /\ UNCHANGED <<closed, table, sync, iter, pc, stop>>

\* Mutant: the age of an entry decides alone.
CleanupAny ==
    /\ Alive
    /\ \E gone \in (SUBSET tasks) \ {{}} :
          /\ tasks' = tasks \ gone
          /\ result' = result \ gone
          /\ state' = [t \in Tasks |-> IF t \in gone THEN "none" ELSE state[t]]
    /\ UNCHANGED <<closed, sync, ctxDone, cancelling, iter, pc, stop>>

\* Every five minutes entries in a final state go, once 30 minutes have passed
\* since their start: any of them may be old enough.
Cleanup ==
    /\ Alive
    /\ \E gone \in (SUBSET {t \in tasks : state[t] \in Final}) \ {{}} :
          /\ tasks' = tasks \ gone
          /\ result' = result \ gone
          /\ state' = [t \in Tasks |-> IF t \in gone THEN "none" ELSE state[t]]
    /\ UNCHANGED <<closed, sync, ctxDone, cancelling, iter, pc, stop>>

CancelAll ==
    LET live == {t \in tasks : state[t] \in Active}
    IN /\ stop = "no"
       /\ stop' = "waiting" /\ closed' = TRUE
       /\ ctxDone' = ctxDone \union live
       /\ state' = [t \in Tasks |-> IF t \in live THEN "cancelled" ELSE state[t]]
       /\ UNCHANGED <<tasks, result, sync, cancelling, iter, pc>>

\* wg.Wait sees a zero counter.
Wait ==
    /\ stop = "waiting" /\ wg = {}
    /\ stop' = "returned"
    /\ UNCHANGED <<closed, table, sync, ctxDone, cancelling, iter, pc>>

\* The rest of Worker.Stop, and the end of main.
Quit ==
    /\ stop = "returned"
    /\ stop' = "exited"
    /\ UNCHANGED <<closed, table, sync, ctxDone, cancelling, iter, pc>>

Next ==
    \/ \E t \in Tasks : Submitter(t) \/ Goroutine(t) \/ CancelMark(t) \/ CancelCall(t)
    \/ Cleanup \/ CancelAll \/ Wait \/ Quit

Spec == Init /\ [][Next]_vars

(***************************************************************************)
(* Fairness.  Goroutines run; the CLI ends by its timeout and an approval  *)
(* request by its own, so Execute and the two ends of "asking" come; wg.   *)
(* Wait returns once the counter is zero.  Nobody has to submit, cancel,   *)
(* clean up or stop.                                                       *)
(***************************************************************************)
Fairness ==
    /\ \A t \in Tasks : /\ WF_vars(Goroutine(t))
                        /\ WF_vars(AcquireSlot(t) \/ Register(t) \/ Spawn(t))
                        /\ WF_vars(CancelCall(t))
    /\ WF_vars(Wait)

FairSpec == Spec /\ Fairness

-----------------------------------------------------------------------------
(* Properties                                                              *)

TypeOK ==
    /\ closed \in BOOLEAN
    /\ tasks \subseteq Tasks /\ result \subseteq Tasks
    /\ state \in [Tasks -> {"none"} \union Active \union Final]
    /\ sem \subseteq Tasks /\ wg \subseteq Tasks
    /\ ctxDone \subseteq Tasks /\ cancelling \subseteq Tasks
    /\ iter \in [Tasks -> 0 .. MaxIterations]
    /\ pc \in [Tasks -> PCs]
    /\ stop \in {"no", "waiting", "returned", "exited"}

\* Slots are neither lost nor shared: a slot is held exactly while a submitter
\* or goroutine is between acquiring and releasing it, there are never more of
\* those than slots, and whatever the table shows as active holds one, so the
\* count /status prints never passes the limit (Submit, Exit, RunningCount).
SlotAccounting ==
    /\ sem = {t \in Tasks : HoldsSlot(t)}
    /\ Cardinality(sem) <= MaxSlots
    /\ \A t \in tasks : state[t] \in Active => t \in sem

\* A task that still works can always be stopped: its context is cancelled or
\* about to be, or the table still shows it as active, where Cancel and
\* CancelAll look for it, whatever Cleanup removed in the meantime.
Reachable ==
    \A t \in Tasks : Working(t) =>
        \/ t \in ctxDone \union cancelling
        \/ t \in tasks /\ state[t] \in Active

\* Once the pool is closed no goroutine works under a live context, not even
\* one whose submission raced with the shutdown (Submit's second look).
ClosedStops ==
    closed => \A t \in Tasks : Working(t) => t \in ctxDone \union cancelling

\* What /research inject would hand out does not become unavailable again
\* while the task is in the table: no state is reopened under a stored result.
InjectIsFinal ==
    [][\A t \in tasks :
          t \in result /\ state[t] \in Final /\ t \in tasks' =>
              t \in result' /\ state'[t] \in Final]_vars

\* Every slot comes back, whether the task is answered, refused, cancelled or
\* fails, unless the process ends first.
SlotFreed == \A t \in Tasks : t \in sem ~> t \notin sem \/ stop = "exited"

\* BackgroundPool.Wait returns: no cancelled task keeps the shutdown waiting and
\* no new one joins.
StopReturns == stop = "waiting" ~> stop # "waiting"

\* The table, the results and the goroutines agree: a task is not in the table
\* before Register, no finished goroutine leaves an active entry behind, and a
\* result is only there once the task can no longer be reopened.
TableOK ==
    /\ \A t \in tasks : pc[t] \notin {"new", "checked", "holding", "rejected"}
    /\ \A t \in tasks : pc[t] \in {"report", "exit", "gone"} => state[t] \notin Active
    /\ \A t \in result : pc[t] \in {"conclude", "report", "exit", "gone"}

IInv == TypeOK /\ SlotAccounting /\ Reachable /\ ClosedStops /\ TableOK
=============================================================================
