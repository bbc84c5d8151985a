----------------------------- MODULE RalphLoop -----------------------------
(***************************************************************************)
(* One /ralph loop from the inside: what BackgroundPool leaves open when   *)
(* an iteration is answered.  The loop counts iterations, cost and stalls, *)
(* starts its first run in a worktree and relies on the CLI's session to   *)
(* get back to it, and asks for permission under the id of the task, which *)
(* all its requests share.  Handlers tap the keyboards of these requests   *)
(* and cancel the loop at any time.                                        *)
(***************************************************************************)
EXTENDS Integers

CONSTANTS
    MaxAllowed,     \* maxAllowedIterations
    Default,        \* defaultMaxIterations
    StallThreshold,
    Limit,          \* defaultMaxCostUSD
    Costs,          \* what a run may cost
    Asked           \* numbers a user may write after --max

ASSUME IterationsAssumption == MaxAllowed \in Nat \ {0} /\ Default \in 1 .. MaxAllowed
ASSUME LimitsAssumption == StallThreshold \in Nat \ {0, 1} /\ Limit \in Nat \ {0}
ASSUME InputsAssumption == Costs \subseteq Nat /\ Asked \subseteq Int

VARIABLES
    pc,         \* where the goroutine is
    maxIter,    \* BackgroundTask.MaxIterations
    iter,       \* BackgroundTask.CurrentIteration
    recorded,   \* BackgroundTask.TotalCostUSD
    stall,      \* BackgroundTask.StallCount
    session,    \* where the executor's session works: "none", "tree" or "main"
    place,      \* where the run that is going on works
    ctxDone,    \* the task's context is cancelled
    open,       \* the iteration whose request is in bp.approvals, or 0
    channel,    \* what the channel of that request holds
    hand,       \* a callback handler between its Load and its send
    reason,     \* how the loop ended
    \* what has happened, for the properties
    spent,      \* what all runs together have cost
    heard,      \* a run in the worktree has reported its session
    allowed     \* iterations whose open request a handler found for a tap on Allow

task     == <<maxIter, iter, recorded, stall>>
runs     == <<session, place>>
approval == <<open, channel, hand>>
story    == <<spent, heard, allowed>>
vars     == <<pc, task, runs, ctxDone, approval, reason, story>>

Answers == {"allow", "deny"}
Empty   == "empty"
NoHand  == [req |-> 0, tap |-> Empty]

-----------------------------------------------------------------------------
(* /ralph: ParseRalphArgs and SubmitRalph                                  *)

\* A number out of range is taken for none.
ParseRalphArgs(n) == IF n \in 1 .. MaxAllowed THEN n ELSE Default

Clamp(n) == IF n <= 0 THEN Default ELSE IF n > MaxAllowed THEN MaxAllowed ELSE n

Init ==
    /\ pc = "head"
    /\ maxIter \in {Clamp(ParseRalphArgs(n)) : n \in Asked} \union {Default}
    /\ iter = 0 /\ recorded = 0 /\ stall = 0
    /\ session = "none" /\ place = "none"
    /\ ctxDone = FALSE
    /\ open = 0 /\ channel = Empty /\ hand = NoHand
    /\ reason = "none"
    /\ spent = 0 /\ heard = FALSE /\ allowed = {}

-----------------------------------------------------------------------------
(* runRalph                                                                *)

Goto(p) == pc' = p
End(r)  == pc' = "ended" /\ reason' = r

\* --worktree works in the worktree; --resume where its session did; neither, in
\* the directory of the project.
Place(worktree) ==
    IF worktree THEN "tree" ELSE IF session = "none" THEN "main" ELSE session

Head ==
    /\ pc = "head"
    /\ IF iter = maxIter THEN End("max") /\ UNCHANGED <<iter, place>>
       ELSE IF ctxDone THEN End("cancelled") /\ UNCHANGED <<iter, place>>
       ELSE /\ iter' = iter + 1
            /\ place' = Place(iter' = 1)
            /\ Goto("run") /\ UNCHANGED reason
    /\ UNCHANGED <<maxIter, recorded, stall, session, ctxDone, approval, story>>

\* A run that has ended costs c; its session is kept if it reports one.
Ran(c) ==
    /\ spent' = spent + c
    /\ \/ session' = place /\ heard' = (heard \/ place = "tree")
       \/ UNCHANGED <<session, heard>>

\* isRalphComplete.
Complete(tools, done) == ~tools \/ done

\* Mutant: the cost counts from the next iteration on.
SettleLate(c, near, tools, done) ==
    /\ recorded' = recorded + c
    /\ stall' = IF near /\ ~tools THEN stall + 1 ELSE 0
    /\ IF Complete(tools, done) THEN End("completed")
       ELSE IF stall' >= StallThreshold THEN End("stalled")
       ELSE IF recorded > Limit THEN End("cost")
       ELSE Goto("head") /\ UNCHANGED reason

\* After a run that counts.  An iteration that adds to stall used no tool, so it is
\* complete, and the second branch is never taken: near says that the answer is about as long as the
\* last one, tools that it used some, done that it says RALPH_DONE.
Settle(c, near, tools, done) ==
    /\ recorded' = recorded + c
    /\ stall' = IF near /\ ~tools THEN stall + 1 ELSE 0
    /\ IF Complete(tools, done) THEN End("completed")
       ELSE IF stall' >= StallThreshold THEN End("stalled")
       ELSE IF recorded' > Limit THEN End("cost")
       ELSE Goto("head") /\ UNCHANGED reason

\* What a failing run has cost nobody learns.
Fails ==
    /\ \E c \in Costs : spent' = spent + c
    /\ End(IF ctxDone THEN "cancelled" ELSE "failed")
    /\ UNCHANGED <<task, runs, ctxDone, approval, heard, allowed>>

Answered ==
    \E c \in Costs, near, tools, done \in BOOLEAN :
       /\ Ran(c) /\ Settle(c, near, tools, done)
       /\ UNCHANGED <<maxIter, iter, place, ctxDone, approval, allowed>>

\* The cost of a run that was denied a tool is not recorded; requestApproval
\* opens a new channel under the id of the task.
Denied ==
    /\ \E c \in Costs : Ran(c)
    /\ open' = iter /\ channel' = Empty /\ Goto("asking")
    /\ UNCHANGED <<task, place, ctxDone, hand, reason, allowed>>

Run == pc = "run" /\ (Fails \/ Answered \/ Denied)

\* Mutant: the approved run is not given the worktree of the first one.
ReceiveNoTree ==
    /\ pc = "asking" /\ channel # Empty
    /\ open' = 0 /\ channel' = Empty
    /\ IF channel = "allow" THEN place' = Place(FALSE) /\ Goto("rerun") /\ UNCHANGED reason
                            ELSE place' = place /\ End("refused")
    /\ UNCHANGED <<task, session, ctxDone, hand, story>>

Receive ==
    /\ pc = "asking" /\ channel # Empty
    /\ open' = 0 /\ channel' = Empty
    /\ IF channel = "allow" THEN place' = Place(iter = 1) /\ Goto("rerun") /\ UNCHANGED reason
                            ELSE place' = place /\ End("refused")
    /\ UNCHANGED <<task, session, ctxDone, hand, story>>

\* The request could not be sent, was cancelled or timed out: the loop is done.
GiveUp ==
    /\ pc = "asking"
    /\ open' = 0 /\ channel' = Empty
    /\ End("refused")
    /\ UNCHANGED <<task, runs, ctxDone, hand, story>>

\* A second denial of the same run is not looked at.
Rerun == pc = "rerun" /\ (Fails \/ Answered)

-----------------------------------------------------------------------------
(* Handlers                                                                *)

\* A keyboard the loop has shown, now or before, is tapped, and ResolveApproval
\* loads what the id of the task leads to, ...
Load(tap) ==
    /\ hand = NoHand /\ open # 0
    /\ hand' = [req |-> open, tap |-> tap]
    /\ allowed' = IF tap = "allow" THEN allowed \union {open} ELSE allowed
    /\ UNCHANGED <<pc, task, runs, ctxDone, open, channel, reason, spent, heard>>

\* Mutant: all requests of the task share a channel.
PostShared ==
    /\ hand # NoHand
    /\ hand' = NoHand
    /\ channel' = IF open # 0 /\ channel = Empty THEN hand.tap ELSE channel
    /\ UNCHANGED <<pc, task, runs, ctxDone, open, reason, story>>

\* ... and sends to that channel, unless its buffer is taken.
Post ==
    /\ hand # NoHand
    /\ hand' = NoHand
    /\ channel' = IF hand.req = open /\ channel = Empty THEN hand.tap ELSE channel
    /\ UNCHANGED <<pc, task, runs, ctxDone, open, reason, story>>

\* Cancel, or CancelAll when the worker stops.
Cancel ==
    /\ ~ctxDone /\ pc # "ended"
    /\ ctxDone' = TRUE
    /\ UNCHANGED <<pc, task, runs, approval, reason, story>>

Next ==
    \/ Head \/ Run \/ Receive \/ GiveUp \/ Rerun
    \/ (\E tap \in Answers : Load(tap)) \/ Post \/ Cancel

Spec == Init /\ [][Next]_vars

-----------------------------------------------------------------------------
(* Properties                                                              *)

Running == pc \in {"run", "rerun"}

TypeOK ==
    /\ pc \in {"head", "run", "asking", "rerun", "ended"}
    /\ maxIter \in 1 .. MaxAllowed /\ iter \in 0 .. maxIter
    /\ recorded \in Nat /\ stall \in Nat /\ spent \in Nat
    /\ session \in {"none", "tree", "main"} /\ place \in {"none", "tree", "main"}
    /\ ctxDone \in BOOLEAN /\ heard \in BOOLEAN
    /\ open \in 0 .. maxIter /\ channel \in Answers \union {Empty}
    /\ hand \in [req : 1 .. maxIter, tap : Answers] \union {NoHand}
    /\ reason \in {"none", "completed", "stalled", "cost", "max", "refused", "failed",
                   "cancelled"}
    /\ allowed \subseteq 1 .. maxIter

\* The circuit breaker: a loop that goes on has recorded no more than its limit,
\* and a loop overruns it by one run at most.  What it really spent is more:
\* nobody records the run of an iteration that was denied a tool, one for each
\* iteration, nor the failing run that ends a loop.
CostStops ==
    /\ pc # "ended" => recorded <= Limit
    /\ \A top \in Costs :
          (\A c \in Costs : c <= top) =>
              /\ recorded <= Limit + top
              /\ spent <= recorded + iter * top + top

\* An iteration runs with all permissions only if a tap on Allow found the request
\* of this very iteration open: no answer left over from an earlier request
\* counts, although all of them go by the id of the task.
PermissionIsFresh == pc = "rerun" => iter \in allowed

\* The loop works in its worktree (README, Ralph), unless no run of the first
\* iteration reported a session: then nothing takes the next one back to it.
StaysInWorktree == Running /\ place = "main" => iter > 1 /\ ~heard

-----------------------------------------------------------------------------
(* The inductive invariant                                                 *)

\* A request is open while its iteration waits; what its channel or a handler
\* holds for it was tapped while it was.
RequestOK ==
    /\ IF pc = "asking" THEN open = iter /\ iter > 0 ELSE open = 0 /\ channel = Empty
    /\ channel = "allow" => open \in allowed
    /\ hand.tap = "allow" => hand.req \in allowed

\* Until the loop ends the cost nobody records is that of one run for each iteration,
\* and the one that is going on has not lost it yet.
CountersOK ==
    /\ pc \in {"run", "rerun", "asking"} => iter > 0
    /\ \A top \in Costs :
          (\A c \in Costs : c <= top) =>
              /\ pc # "ended" => spent <= recorded + iter * top
              /\ pc = "run" => spent <= recorded + (iter - 1) * top

\* The session stays in the worktree once a run there has reported it.
PlaceOK ==
    /\ heard => session = "tree"
    /\ Running => /\ place # "none"
                  /\ iter = 1 \/ session = "tree" => place = "tree"

IInv ==
    /\ TypeOK /\ RequestOK /\ CountersOK /\ PlaceOK
    /\ CostStops /\ PermissionIsFresh /\ StaysInWorktree
=============================================================================
