--------------------------- MODULE RalphLoopProofs ---------------------------
(***************************************************************************)
(* A /ralph loop with any limits, costs and numbers after --max: it never  *)
(* passes its circuit breaker by more than one recorded run, never runs    *)
(* with permissions that were not given for this iteration, and leaves its *)
(* worktree only if nothing reported a session in it.                      *)
(***************************************************************************)
EXTENDS RalphLoop, TLAPS

USE IterationsAssumption, LimitsAssumption, InputsAssumption

\* What SubmitRalph takes from a command is a possible number of iterations.
LEMMA ClampInRange ==
    ASSUME NEW n \in Int
    PROVE  Clamp(ParseRalphArgs(n)) \in 1 .. MaxAllowed
BY DEF Clamp, ParseRalphArgs

LEMMA InitInv == Init => IInv
<1> SUFFICES ASSUME Init PROVE IInv
    OBVIOUS
<1>1. maxIter \in 1 .. MaxAllowed
    BY ClampInRange DEF Init
<1>2. \A top \in Costs : 0 * top = 0
    OBVIOUS
<1>3. /\ pc = "head" /\ reason = "none" /\ stall = 0 /\ recorded = 0 /\ spent = 0 /\ iter = 0
      /\ session = "none" /\ place = "none" /\ ctxDone = FALSE /\ heard = FALSE
      /\ open = 0 /\ channel = Empty /\ hand = NoHand /\ allowed = {}
    BY DEF Init
<1>4. TypeOK
  <2>1. 0 \in 0 .. maxIter /\ {} \subseteq 1 .. maxIter
    BY <1>1
  <2>2. hand \in [req : 1 .. maxIter, tap : Answers] \union {NoHand}
    BY <1>3
  <2> QED
    BY <1>1, <1>3, <2>1, <2>2 DEF TypeOK
<1>5. RequestOK /\ PlaceOK /\ PermissionIsFresh /\ StaysInWorktree
    BY <1>3 DEF RequestOK, PlaceOK, PermissionIsFresh, StaysInWorktree,
                Running, NoHand, Empty
<1>6. CountersOK /\ CostStops
  <2> SUFFICES ASSUME NEW top \in Costs
               PROVE  /\ recorded <= Limit + top
                      /\ spent <= recorded + iter * top /\ spent <= recorded + iter * top + top
    BY <1>3 DEF CountersOK, CostStops
  <2> QED
    BY <1>2, <1>3
<1> QED
    BY <1>4, <1>5, <1>6 DEF IInv

-----------------------------------------------------------------------------
(* The arithmetic of an iteration                                          *)

LEMMA OneMore ==
    ASSUME NEW i \in Nat, NEW top \in Nat
    PROVE  /\ i * top \in Nat
           /\ (i + 1 - 1) * top = i * top
           /\ (i + 1) * top = i * top + top
           /\ i > 0 => (i - 1) * top + top = i * top /\ (i - 1) * top \in Nat
<1>1. i * top \in Nat /\ (i + 1 - 1) * top = i * top
    BY Z3
<1>2. (i + 1) * top = i * top + top
    BY Z3
<1>3. i > 0 => (i - 1) * top + top = i * top
    BY Z3
<1>4. i > 0 => i - 1 \in Nat
    OBVIOUS
<1>5. \A j \in Nat : j * top \in Nat
    BY Z3
<1> QED
    BY <1>1, <1>2, <1>3, <1>4, <1>5

-----------------------------------------------------------------------------
LEMMA HeadInv == IInv /\ Head => IInv'
<1> SUFFICES ASSUME IInv, Head PROVE IInv'
    OBVIOUS
<1> USE DEF IInv
<1>1. CASE pc' = "ended"
    BY <1>1 DEF Head, End, Goto, TypeOK, RequestOK, CountersOK, PlaceOK, CostStops,
                PermissionIsFresh, StaysInWorktree, Running, approval, story
<1>2. CASE pc' # "ended"
  <2>1. /\ pc = "head" /\ pc' = "run" /\ iter # maxIter /\ iter' = iter + 1
        /\ place' = Place(iter' = 1)
        /\ UNCHANGED <<maxIter, recorded, stall, session, ctxDone, approval, story, reason>>
    BY <1>2 DEF Head, End, Goto
  <2>2. TypeOK'
    BY <2>1 DEF TypeOK, Place, approval, story
  <2>3. RequestOK' /\ PermissionIsFresh'
    BY <2>1 DEF RequestOK, PermissionIsFresh, TypeOK, approval, story
  <2>4. PlaceOK' /\ StaysInWorktree'
    BY <2>1 DEF PlaceOK, StaysInWorktree, Running, Place, TypeOK, story
  <2>5. CountersOK' /\ CostStops'
    <3> SUFFICES ASSUME NEW top \in Costs, \A c \in Costs : c <= top
                 PROVE  /\ spent' <= recorded' + (iter' - 1) * top
                        /\ recorded' <= Limit /\ recorded' <= Limit + top
                        /\ spent' <= recorded' + iter' * top
                        /\ spent' <= recorded' + iter' * top + top
        BY <2>1 DEF CountersOK, CostStops, TypeOK
    <3>1. spent <= recorded + iter * top /\ recorded <= Limit
        BY <2>1 DEF CountersOK, CostStops
    <3> QED
        BY <2>1, <3>1, OneMore DEF TypeOK, story
  <2> QED
    BY <2>2, <2>3, <2>4, <2>5
<1> QED
    BY <1>1, <1>2

\* A failing run ends the loop; it has cost something and changes nothing else.
LEMMA FailsInv == IInv /\ (Run \/ Rerun) /\ Fails => IInv'
<1> SUFFICES ASSUME IInv, Run \/ Rerun, Fails PROVE IInv'
    OBVIOUS
<1>1. TypeOK' /\ RequestOK'
    BY DEF IInv, Run, Rerun, Fails, End, TypeOK, RequestOK, task, runs, approval, story
<1>2. CountersOK' /\ CostStops'
  <2> SUFFICES ASSUME NEW top \in Costs, \A d \in Costs : d <= top
               PROVE  recorded' <= Limit + top /\ spent' <= recorded' + iter' * top + top
    BY DEF Fails, End, CountersOK, CostStops
  <2>1. PICK c \in Costs : spent' = spent + c
    BY DEF Fails
  <2>2. spent <= recorded + iter * top /\ recorded <= Limit + top /\ c <= top
    BY DEF IInv, CountersOK, CostStops, Run, Rerun
  <2>3. recorded' = recorded /\ iter' = iter
    BY DEF Fails, task
  <2>4. iter * top \in Nat
    BY OneMore DEF IInv, TypeOK
  <2> QED
    BY <2>1, <2>2, <2>3, <2>4 DEF IInv, TypeOK
<1>3. PlaceOK' /\ PermissionIsFresh' /\ StaysInWorktree'
    BY DEF IInv, Fails, End, PlaceOK, PermissionIsFresh, StaysInWorktree, Running, runs, story
<1> QED
    BY <1>1, <1>2, <1>3 DEF IInv

\* What a run leaves behind wherever it worked.
LEMMA RanPlace ==
    ASSUME IInv, Running, NEW c, Ran(c)
    PROVE  session' \in {"none", "tree", "main"} /\ heard' \in BOOLEAN /\ (heard' => session' = "tree")
<1>1. CASE session' = place /\ heard' = (heard \/ place = "tree")
    BY <1>1 DEF IInv, TypeOK, PlaceOK
<1>2. CASE UNCHANGED <<session, heard>>
    BY <1>2 DEF IInv, TypeOK, PlaceOK
<1> QED
    BY <1>1, <1>2 DEF Ran

LEMMA AnsweredInv == IInv /\ Running /\ Answered => IInv'
<1> SUFFICES ASSUME IInv, Running,
                    NEW c \in Costs, NEW near \in BOOLEAN, NEW tools \in BOOLEAN,
                    NEW done \in BOOLEAN, Ran(c), Settle(c, near, tools, done),
                    UNCHANGED <<maxIter, iter, place, ctxDone, approval, allowed>>
             PROVE  IInv'
    BY DEF Answered
<1>1. pc # "ended" /\ recorded <= Limit /\ iter > 0
    BY DEF IInv, CountersOK, CostStops, Running
<1>2. recorded' = recorded + c /\ spent' = spent + c /\ c \in Nat
    BY DEF Settle, Ran
<1>3. stall' \in Nat
    BY DEF IInv, TypeOK, Settle
<1>4. /\ pc' \in {"head", "ended"}
      /\ pc' # "ended" => recorded' <= Limit
      /\ reason' \in {reason, "completed", "stalled", "cost"}
    BY <1>1, <1>2 DEF IInv, TypeOK, Settle, End, Goto
<1>5. TypeOK'
    BY <1>2, <1>3, <1>4, RanPlace DEF IInv, TypeOK, approval
<1>6. RequestOK' /\ PermissionIsFresh' /\ StaysInWorktree' /\ PlaceOK'
    BY <1>3, <1>4, RanPlace DEF IInv, RequestOK, PermissionIsFresh, StaysInWorktree, PlaceOK,
                          Running, approval
<1>7. CountersOK' /\ CostStops'
  <2> SUFFICES ASSUME NEW top \in Costs, \A d \in Costs : d <= top
               PROVE  /\ recorded' <= Limit + top
                      /\ spent' <= recorded' + iter' * top
                      /\ spent' <= recorded' + iter' * top + top
    BY <1>4 DEF CountersOK, CostStops
  <2>1. spent <= recorded + iter * top
    BY <1>1 DEF IInv, CountersOK
  <2> QED
    BY <1>1, <1>2, <2>1, OneMore DEF IInv, TypeOK
<1> QED
    BY <1>5, <1>6, <1>7 DEF IInv

LEMMA DeniedInv == IInv /\ pc = "run" /\ Denied => IInv'
<1> SUFFICES ASSUME IInv, pc = "run", Denied, NEW c \in Costs, Ran(c) PROVE IInv'
    BY DEF Denied
<1>1. pc' = "asking" /\ spent' = spent + c /\ c \in Nat /\ iter > 0
    BY DEF Denied, Goto, Ran, IInv, CountersOK
<1>2. TypeOK'
    BY <1>1, RanPlace DEF Denied, IInv, TypeOK, Running, task
<1>3. RequestOK' /\ PermissionIsFresh' /\ StaysInWorktree'
    BY <1>1 DEF Denied, IInv, RequestOK, PermissionIsFresh, StaysInWorktree,
                Running, TypeOK, task, Empty
<1>4. PlaceOK'
    BY <1>1, RanPlace DEF PlaceOK, Running
<1>5. CountersOK' /\ CostStops'
  <2> SUFFICES ASSUME NEW top \in Costs, \A d \in Costs : d <= top
               PROVE  /\ spent' <= recorded + iter * top
                      /\ spent' <= recorded + iter * top + top
    BY <1>1 DEF Denied, IInv, CountersOK, CostStops, task
  <2>1. spent <= recorded + (iter - 1) * top
    BY DEF IInv, CountersOK
  <2> QED
    BY <1>1, <2>1, OneMore DEF IInv, TypeOK
<1> QED
    BY <1>2, <1>3, <1>4, <1>5 DEF IInv

-----------------------------------------------------------------------------
LEMMA ReceiveInv == IInv /\ Receive => IInv'
<1> SUFFICES ASSUME IInv, Receive PROVE IInv'
    OBVIOUS
<1>1. TypeOK'
    BY DEF IInv, Receive, Goto, End, TypeOK, Place, task, story, Empty, Answers
<1>2. RequestOK' /\ PermissionIsFresh'
    BY DEF IInv, Receive, Goto, End, TypeOK, RequestOK, PermissionIsFresh, task, story, Empty
<1>3. PlaceOK' /\ StaysInWorktree'
    BY DEF IInv, Receive, Goto, End, TypeOK, RequestOK, PlaceOK, StaysInWorktree, Running,
           Place, task, story
<1>4. CountersOK' /\ CostStops'
    BY DEF IInv, Receive, Goto, End, CountersOK, CostStops, task, story
<1> QED
    BY <1>1, <1>2, <1>3, <1>4 DEF IInv

LEMMA GiveUpInv == IInv /\ GiveUp => IInv'
<1> SUFFICES ASSUME IInv, GiveUp PROVE IInv'
    OBVIOUS
<1>1. TypeOK' /\ RequestOK' /\ PermissionIsFresh' /\ PlaceOK' /\ StaysInWorktree'
    BY DEF IInv, GiveUp, End, TypeOK, RequestOK, PermissionIsFresh, PlaceOK,
           StaysInWorktree, Running, task, runs, story, Empty
<1>2. CountersOK' /\ CostStops'
    BY DEF IInv, GiveUp, End, CountersOK, CostStops, task, story
<1> QED
    BY <1>1, <1>2 DEF IInv

\* The handlers leave the counters and the places alone.
LEMMA HandlersInv == IInv /\ ((\E tap \in Answers : Load(tap)) \/ Post \/ Cancel) => IInv'
<1> SUFFICES ASSUME IInv, (\E tap \in Answers : Load(tap)) \/ Post \/ Cancel PROVE IInv'
    OBVIOUS
<1>1. UNCHANGED <<pc, task, runs, reason, spent, heard>>
    BY DEF Load, Post, Cancel, story
<1>2. CountersOK' /\ CostStops' /\ PlaceOK' /\ StaysInWorktree'
    BY <1>1 DEF IInv, CountersOK, CostStops, PlaceOK, StaysInWorktree,
                Running, task, runs
<1>3. TypeOK' /\ RequestOK' /\ PermissionIsFresh'
  <2>1. ASSUME NEW tap \in Answers, Load(tap) PROVE TypeOK' /\ RequestOK' /\ PermissionIsFresh'
    BY <2>1 DEF IInv, Load, TypeOK, RequestOK, PermissionIsFresh, task, runs, NoHand, Empty,
                Answers
  <2>2. CASE Post
    BY <2>2 DEF IInv, Post, TypeOK, RequestOK, PermissionIsFresh, task, runs, story, NoHand,
                Empty, Answers
  <2>3. CASE Cancel
    BY <2>3 DEF IInv, Cancel, TypeOK, RequestOK, PermissionIsFresh, task, runs, approval, story
  <2> QED
    BY <2>1, <2>2, <2>3
<1> QED
    BY <1>2, <1>3 DEF IInv

-----------------------------------------------------------------------------
LEMMA StepInv == IInv /\ [Next]_vars => IInv'
<1> SUFFICES ASSUME IInv, [Next]_vars PROVE IInv'
    OBVIOUS
<1>1. CASE UNCHANGED vars
    BY <1>1 DEF IInv, vars, task, runs, approval, story, TypeOK, RequestOK, CountersOK, PlaceOK,
                CostStops, PermissionIsFresh, StaysInWorktree, Running
<1>2. CASE Run
    BY <1>2, FailsInv, AnsweredInv, DeniedInv DEF Run, Running
<1>3. CASE Rerun
    BY <1>3, FailsInv, AnsweredInv DEF Rerun, Running
<1> QED
    BY <1>1, <1>2, <1>3, HeadInv, ReceiveInv, GiveUpInv, HandlersInv DEF Next

\* The inductive invariant holds in every reachable state.
THEOREM Invariance == Spec => []IInv
BY InitInv, StepInv, PTL DEF Spec

\* A loop that goes on is within its limit, and a loop passes it by one recorded
\* run at most; what nobody records is one run for each iteration and one that fails.
THEOREM CostIsBounded == Spec => []CostStops
<1>1. IInv => CostStops
    BY DEF IInv
<1> QED
    BY <1>1, Invariance, PTL

\* A run with all permissions was allowed while its own request was open.
THEOREM FreshPermission == Spec => []PermissionIsFresh
<1>1. IInv => PermissionIsFresh
    BY DEF IInv
<1> QED
    BY <1>1, Invariance, PTL

\* The loop works in its worktree once a run there has reported its session.
THEOREM Isolation == Spec => []StaysInWorktree
<1>1. IInv => StaysInWorktree
    BY DEF IInv
<1> QED
    BY <1>1, Invariance, PTL
=============================================================================
