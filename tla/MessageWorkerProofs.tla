------------------------ MODULE MessageWorkerProofs ------------------------
(***************************************************************************)
(* The invariants of MessageWorker hold for any set of messages, any queue *)
(* capacity, any retry limit and any number of crashes, shutdowns and disk *)
(* errors.                                                                 *)
(***************************************************************************)
EXTENDS MessageWorker, SequenceTheorems, TLAPS

-----------------------------------------------------------------------------
(* The queue as a set of messages                                          *)

\* Appending to the channel adds exactly that element (Enqueue).
LEMMA RangeOfAppend ==
    ASSUME NEW S, NEW q \in Seq(S), NEW e \in S
    PROVE  Range(Append(q, e)) = Range(q) \union {e}
<1> DEFINE a == Append(q, e)
<1>1. /\ a \in Seq(S) /\ Len(a) = Len(q) + 1
      /\ \A i \in 1 .. Len(q) : a[i] = q[i]
      /\ a[Len(q) + 1] = e
  BY AppendProperties
<1>2. /\ DOMAIN q = 1 .. Len(q) /\ Len(q) \in Nat
      /\ DOMAIN a = 1 .. (Len(q) + 1)
  BY <1>1, LenProperties
<1>3. DOMAIN a = DOMAIN q \union {Len(q) + 1}
  BY <1>2
<1> HIDE DEF a
<1>4. Range(a) = {a[x] : x \in DOMAIN q} \union {a[Len(q) + 1]}
  BY <1>3 DEF Range
<1>5. {a[x] : x \in DOMAIN q} = {q[x] : x \in DOMAIN q}
  BY <1>1, <1>2
<1> QED BY <1>1, <1>4, <1>5 DEF Range, a

\* A queue without repetitions stays so when a new element is appended.
LEMMA InjectiveAppend ==
    ASSUME NEW S, NEW q \in Seq(S), NEW e \in S,
           IsInjective(q), e \notin Range(q)
    PROVE  IsInjective(Append(q, e))
<1> DEFINE a == Append(q, e)
<1>1. /\ Len(a) = Len(q) + 1
      /\ \A i \in 1 .. Len(q) : a[i] = q[i]
      /\ a[Len(q) + 1] = e
      /\ a \in Seq(S)
  BY AppendProperties
<1>2. /\ DOMAIN q = 1 .. Len(q) /\ Len(q) \in Nat
      /\ DOMAIN a = 1 .. (Len(q) + 1)
  BY <1>1, LenProperties
<1> HIDE DEF a
<1>3. \A i \in 1 .. Len(q) : q[i] # e
  BY <1>2 DEF Range
<1> SUFFICES ASSUME NEW i \in DOMAIN a, NEW j \in DOMAIN a, a[i] = a[j]
             PROVE  i = j
  BY DEF IsInjective, a
<1>4. CASE i \in DOMAIN q /\ j \in DOMAIN q
  BY <1>1, <1>2, <1>4 DEF IsInjective
<1>5. CASE i = Len(q) + 1 \/ j = Len(q) + 1
  BY <1>1, <1>2, <1>3, <1>5
<1> QED BY <1>2, <1>4, <1>5

\* Receiving from a channel without repetitions removes exactly its head
\* (Start's select).
LEMMA TailWithoutHead ==
    ASSUME NEW S, NEW q \in Seq(S), q # <<>>, IsInjective(q)
    PROVE  /\ IsInjective(Tail(q))
           /\ Range(Tail(q)) = Range(q) \ {Head(q)}
           /\ Head(q) \in Range(q)
<1> DEFINE t == Tail(q)
<1>1. /\ t \in Seq(S) /\ Len(t) = Len(q) - 1 /\ Head(q) = q[1]
      /\ \A i \in 1 .. Len(t) : t[i] = q[i + 1]
  BY HeadTailProperties
<1>2. /\ DOMAIN q = 1 .. Len(q) /\ DOMAIN t = 1 .. Len(t)
      /\ Len(q) \in Nat \ {0}
  BY <1>1, LenProperties, EmptySeq
<1> HIDE DEF t
<1>3. IsInjective(t)
  BY <1>1, <1>2 DEF IsInjective
<1>4. \A x \in Range(t) : x \in Range(q) /\ x # q[1]
  BY <1>1, <1>2 DEF IsInjective, Range
<1>5. \A x \in Range(q) : x # q[1] => x \in Range(t)
  <2> SUFFICES ASSUME NEW k \in DOMAIN q, q[k] # q[1]
               PROVE  q[k] \in Range(t)
    BY DEF Range
  <2>1. k - 1 \in DOMAIN t /\ t[k - 1] = q[k]
    BY <1>1, <1>2
  <2> QED BY <2>1 DEF Range
<1>6. q[1] \in Range(q)
  BY <1>2 DEF Range
<1> QED BY <1>1, <1>3, <1>4, <1>5, <1>6 DEF t

-----------------------------------------------------------------------------
(* Steps that share a reason                                               *)

USE MsgsAssumption, BoundsAssumption DEF AllCommands, AllFaults

WorkLocal == StartCLI \/ FinishCLI \/ Approve \/ Refuse \/ HandleError

\* A call of the store, whether it fails or not, keeps the types of the disk.
LEMMA AccessType ==
    ASSUME TypeOK, Access \/ AccessError
    PROVE  lock' \in {"free", "fresh"} /\ torn' \in BOOLEAN /\ faults' \in 0 .. MaxFaults
<1>1. CASE UNCHANGED disk
  BY <1>1 DEF disk, TypeOK
<1>2. CASE Meets("disk") /\ torn' \in BOOLEAN /\ UNCHANGED lock
  BY <1>2 DEF Meets, TypeOK
<1> QED BY <1>1, <1>2 DEF Access, AccessError

\* updateInboxStatus writes the status, or fails and leaves it as it was.
LEMMA SetStatusCases ==
    ASSUME TypeOK, NEW m \in Msgs, NEW s, SetStatus(m, s)
    PROVE  /\ \/ status' = [status EXCEPT ![m] = s] /\ status[m] \notin Absent
                 /\ missed' = missed \ {m}
              \/ status' = status /\ status[m] \in Absent /\ missed' = missed \ {m}
              \/ status' = status /\ status[m] # "processing" /\ missed' = missed
              \/ status' = status /\ status[m] = "processing" /\ missed' = missed \union {m}
           /\ Access \/ AccessError
BY DEF SetStatus, InInbox

\* updateInboxStatus and Enqueue keep the types of what they write.
LEMMA SetStatusType ==
    ASSUME TypeOK, NEW m \in Msgs, NEW s \in Statuses, SetStatus(m, s)
    PROVE  /\ status' \in [Msgs -> Statuses] /\ missed' \subseteq Msgs
           /\ lock' \in {"free", "fresh"} /\ torn' \in BOOLEAN /\ faults' \in 0 .. MaxFaults
<1>1. status' \in [Msgs -> Statuses] /\ missed' \subseteq Msgs
  BY SetStatusCases DEF TypeOK
<1> QED BY <1>1, SetStatusCases, AccessType

LEMMA EnqueueType ==
    ASSUME TypeOK, NEW m \in Msgs, Enqueue(m)
    PROVE  queue' \in Seq(Msgs) /\ Len(queue') <= QueueSize /\ inFlight' \subseteq Msgs
<1>1. CASE UNCHANGED <<queue, inFlight>>
  BY <1>1 DEF TypeOK
<1>2. CASE /\ Len(queue) < QueueSize
           /\ queue' = Append(queue, m) /\ inFlight' = inFlight \union {m}
  <2>1. queue' \in Seq(Msgs) /\ Len(queue') = Len(queue) + 1
    BY <1>2, AppendProperties DEF TypeOK
  <2>2. Len(queue) \in Nat
    BY LenProperties DEF TypeOK
  <2> QED BY <1>2, <2>1, <2>2 DEF TypeOK
<1> QED BY <1>1, <1>2 DEF Enqueue

\* The empty memory of a process that ended is well typed.
LEMMA LoseMemoryType ==
    ASSUME LoseMemory, TypeOK,
           UNCHANGED <<status, retries, outbox, old, delivered>>,
           lock' \in {"free", "fresh"}, torn' \in BOOLEAN, faults' \in 0 .. MaxFaults
    PROVE  TypeOK'
<1>1. <<>> \in Seq(Msgs) /\ Len(<<>>) = 0
  BY EmptySeq
<1>2. queue' \in Seq(Msgs) /\ Len(queue') <= QueueSize
  BY <1>1 DEF LoseMemory
<1> QED BY <1>2 DEF TypeOK, LoseMemory, PCs, ErrorKinds

-----------------------------------------------------------------------------
(* Type correctness                                                        *)

TypeInv == TypeOK /\ RestOK

LEMMA InitTypeInv == Init => TypeInv
<1>1. <<>> \in Seq(Msgs) /\ Len(<<>>) = 0
  BY EmptySeq
<1> SUFFICES ASSUME Init PROVE TypeInv
  OBVIOUS
<1>2. /\ status \in [Msgs -> Statuses] /\ retries \in [Msgs -> 0 .. MaxRetryCount]
      /\ faults \in 0 .. MaxFaults
  BY DEF Init, Statuses, Absent
<1>3. queue \in Seq(Msgs) /\ Len(queue) <= QueueSize
  BY <1>1 DEF Init
<1>4. pc \in PCs /\ err \in ErrorKinds
  BY DEF Init, PCs, ErrorKinds
<1> QED BY <1>2, <1>3, <1>4 DEF Init, TypeInv, TypeOK, RestOK

LEMMA NextTypeInv == TypeInv /\ [Next]_vars => TypeInv'
<1> SUFFICES ASSUME TypeInv, [Next]_vars PROVE TypeInv'
  OBVIOUS
<1> USE DEF TypeInv, TypeOK, RestOK, files, disk, world, intake, run
<1>0. ASSUME Access \/ AccessError
      PROVE  lock' \in {"free", "fresh"} /\ torn' \in BOOLEAN /\ faults' \in 0 .. MaxFaults
  BY <1>0, AccessType
<1>1. ASSUME NEW m \in Msgs, Arrive(m) PROVE TypeInv'
  BY <1>0, <1>1 DEF Arrive, Statuses, Absent, Open
<1>2. ASSUME NEW m \in Msgs, HandlerEnqueue(m) PROVE TypeInv'
  BY <1>2, EnqueueType DEF HandlerEnqueue
<1>3. CASE CmdCancel
  BY <1>3 DEF CmdCancel
<1>4. CASE CmdRetry
  <2>1. status' \in [Msgs -> Statuses] /\ retries' \in [Msgs -> 0 .. MaxRetryCount]
    BY <1>4, BoundsAssumption DEF CmdRetry, Statuses, Open
  <2>2. lock' \in {"free", "fresh"} /\ torn' \in BOOLEAN /\ faults' \in 0 .. MaxFaults
    BY <1>0, <1>4 DEF CmdRetry
  <2> QED
    BY <1>4, <2>1, <2>2 DEF CmdRetry
<1>5. CASE CmdClear
  <2>1. status' \in [Msgs -> Statuses] /\ delivered' \subseteq Msgs
    BY <1>5 DEF CmdClear, Statuses, Absent
  <2>2. lock' \in {"free", "fresh"} /\ torn' \in BOOLEAN /\ faults' \in 0 .. MaxFaults
    BY <1>0, <1>5 DEF CmdClear
  <2> QED
    BY <1>5, <2>1, <2>2 DEF CmdClear
<1>6. CASE PollRead
  BY <1>6 DEF PollRead
<1>7. ASSUME NEW m \in Msgs, PollEnqueue(m) PROVE TypeInv'
  BY <1>7, EnqueueType DEF PollEnqueue
<1>8. CASE RetryPass
  <2> DEFINE due == {m \in Msgs : status[m] = "error"}
  <2>1. \A m \in Msgs : Retried(m) \in Statuses
    BY DEF Retried, Statuses, Open, Closed
  <2>2. \A m \in Msgs : Retried(m) = "pending" => retries[m] + 1 \in 0 .. MaxRetryCount
    BY DEF Retried
  <2>3. status' \in [Msgs -> Statuses] /\ retries' \in [Msgs -> 0 .. MaxRetryCount]
    <3>1. CASE UNCHANGED <<status, retries>>
      BY <3>1
    <3>2. CASE /\ status' = [m \in Msgs |-> IF m \in due THEN Retried(m) ELSE status[m]]
               /\ retries' = [m \in Msgs |-> IF m \in due /\ Retried(m) = "pending"
                                             THEN retries[m] + 1 ELSE retries[m]]
      BY <2>1, <2>2, <3>2
    <3> QED BY <1>8, <3>1, <3>2 DEF RetryPass
  <2> QED BY <1>0, <1>8, <2>3 DEF RetryPass
<1>9. CASE OutboxPass
  BY <1>9 DEF OutboxPass
<1>10. CASE Take
  <2>1. /\ Head(queue) \in Msgs /\ Tail(queue) \in Seq(Msgs)
        /\ Len(Tail(queue)) = Len(queue) - 1
    BY <1>10, HeadTailProperties DEF Take
  <2>2. Len(queue) \in Nat
    BY LenProperties
  <2>3. pc' \in PCs \ {"idle"} /\ cancelled' \in BOOLEAN
    BY <1>10 DEF Take, Goto, PCs, ArmedAt
  <2>4. /\ cur' = Head(queue) /\ queue' = Tail(queue)
        /\ UNCHANGED <<files, world, up, inFlight, saved, snapshot, phase2, err, verdict>>
    BY <1>10 DEF Take
  <2> QED BY <2>1, <2>2, <2>3, <2>4
<1>11. CASE Expire
  BY <1>11, SetStatusType DEF Expire, Goto, PCs, Statuses, Closed
<1>12. CASE MarkProcessing
  BY <1>12, SetStatusType DEF MarkProcessing, Goto, PCs, ArmedAt, Statuses, Open
<1>13. CASE WorkLocal
  <2> USE DEF Fail, Answer, Goto, PCs, ArmedAt, ErrorKinds
  <2>1. CASE StartCLI
    BY <2>1, ZenonT(30) DEF StartCLI
  <2>2. CASE FinishCLI
    <3>1. \/ Answer \/ Fail("signal") \/ Fail("other")
          \/ Goto("asking") /\ UNCHANGED <<phase2, err, verdict>>
      BY <2>2 DEF FinishCLI
    <3>2. /\ UNCHANGED <<files, world, up, intake, cur, cancelled>>
          /\ pc = "executing"
      BY <2>2 DEF FinishCLI
    <3>3. /\ phase2' \in BOOLEAN /\ err' \in ErrorKinds /\ verdict' = verdict
          /\ pc' \in {"sending", "failing", "asking"}
      BY <3>1
    <3> QED BY <3>2, <3>3
  <2>3. CASE Approve
    BY <2>3 DEF Approve
  <2>5. CASE Refuse
    BY <2>5 DEF Refuse
  <2>4. CASE HandleError
    BY <2>4 DEF HandleError, Classify
  <2> QED BY <1>13, <2>1, <2>2, <2>3, <2>4, <2>5 DEF WorkLocal
<1>14. CASE Send
  BY <1>14 DEF Send, Goto, PCs, ArmedAt
<1>15. CASE AppendOutbox
  BY <1>15 DEF AppendOutbox, Goto, PCs, ArmedAt
<1>16. CASE Record
  BY <1>16, SetStatusType DEF Record, Goto, PCs, ErrorKinds, Statuses, Absent, Open, Closed
<1>17. CASE Finish
  BY <1>17 DEF Finish, Goto, PCs
<1>18. ASSUME NEW m \in Msgs, AgeMessage(m) PROVE TypeInv'
  BY <1>18 DEF AgeMessage
<1>19. CASE LockAges
  BY <1>19 DEF LockAges
<1>20. CASE Shutdown \/ LockStays
  BY <1>20 DEF Shutdown, LockStays, Meets
<1>21. CASE Exit
  BY <1>21, LoseMemoryType DEF Exit, LoseMemory
<1>22. CASE Crash
  <2>1. lock' \in {"free", "fresh"} /\ torn' \in BOOLEAN /\ faults' \in 0 .. MaxFaults
    <3>1. Meets("crash") /\ (UNCHANGED <<lock, torn>> \/ (lock' = "fresh" /\ torn' \in {torn, TRUE}))
      BY <1>22 DEF Crash
    <3>2. faults' \in 0 .. MaxFaults
      BY <3>1 DEF Meets
    <3> QED BY <3>1, <3>2
  <2>2. TypeOK'
    BY <1>22, <2>1, LoseMemoryType DEF Crash
  <2> QED BY <1>22, <2>2 DEF Crash, LoseMemory
<1>23. CASE Boot
  <2>1. \A m \in Msgs : Recover(m) \in Statuses
    BY DEF Recover, Statuses, Open, Closed
  <2> QED BY <1>0, <1>23, <2>1 DEF Boot
<1>24. CASE UNCHANGED vars
  BY <1>24 DEF vars
<1> QED
  BY <1>1, <1>2, <1>3, <1>4, <1>5, <1>6, <1>7, <1>8, <1>9, <1>10, <1>11, <1>12, <1>13,
     <1>14, <1>15, <1>16, <1>17, <1>18, <1>19, <1>20, <1>21, <1>22, <1>23, <1>24
  DEF Next, Handlers, Loops, Work, Outside, WorkLocal

\* Every reachable state is well typed: the channel never holds more than its
\* capacity and no retry count passes the configured maximum.
THEOREM TypeCorrect == Spec => []TypeOK
<1>1. TypeInv => TypeOK
  BY DEF TypeInv
<1> QED BY <1>1, InitTypeInv, NextTypeInv, PTL DEF Spec

-----------------------------------------------------------------------------
(* One flight per message                                                  *)

\* Offering a message, whoever does it, keeps the queue, the worker and inFlight
\* in agreement (Enqueue).
LEMMA EnqueueSingleFlight ==
    ASSUME TypeOK, SingleFlight, NEW m \in Msgs, Enqueue(m), cur' = cur
    PROVE  SingleFlight'
<1>1. CASE UNCHANGED <<queue, inFlight>>
  BY <1>1 DEF SingleFlight, Current
<1>2. CASE /\ m \notin inFlight
           /\ queue' = Append(queue, m) /\ inFlight' = inFlight \union {m}
  <2>1. queue \in Seq(Msgs) /\ IsInjective(queue) /\ m \notin Range(queue)
    BY <1>2 DEF TypeOK, SingleFlight
  <2>2. IsInjective(queue')
    BY <1>2, <2>1, InjectiveAppend
  <2>3. Range(queue') = Range(queue) \union {m}
    BY <1>2, <2>1, RangeOfAppend
  <2>4. Current' = Current
    BY DEF Current
  <2> QED BY <1>2, <2>2, <2>3, <2>4 DEF SingleFlight
<1> QED BY <1>1, <1>2 DEF Enqueue

\* An empty queue holds nothing.
LEMMA EmptyQueue == IsInjective(<<>>) /\ Range(<<>>) = {}
<1>1. DOMAIN <<>> = {}
  OBVIOUS
<1> QED BY <1>1 DEF IsInjective, Range

LEMMA NextSingleFlight ==
    TypeInv /\ SingleFlight /\ [Next]_vars => SingleFlight'
<1> SUFFICES ASSUME TypeInv, SingleFlight, [Next]_vars PROVE SingleFlight'
  OBVIOUS
<1> USE DEF TypeInv
<1>1. ASSUME NEW m \in Msgs, HandlerEnqueue(m) \/ PollEnqueue(m) PROVE SingleFlight'
  BY <1>1, EnqueueSingleFlight DEF HandlerEnqueue, PollEnqueue, run
<1>2. CASE Take
  <2>1. queue \in Seq(Msgs) /\ queue # <<>> /\ IsInjective(queue)
    BY <1>2 DEF Take, TypeOK, SingleFlight
  <2>2. /\ IsInjective(queue') /\ Range(queue') = Range(queue) \ {cur'}
        /\ cur' \in Range(queue)
    BY <1>2, <2>1, TailWithoutHead DEF Take
  <2>3. cur = NoMsg /\ inFlight' = inFlight /\ cur' # NoMsg
    BY <1>2, <2>1, HeadTailProperties DEF Take, RestOK
  <2> QED BY <2>2, <2>3 DEF SingleFlight, Current
<1>3. CASE Finish
  <2>1. /\ cur # NoMsg /\ cur' = NoMsg
        /\ queue' = queue /\ inFlight' = inFlight \ {cur}
    BY <1>3 DEF Finish, RestOK
  <2> QED BY <2>1 DEF SingleFlight, Current
<1>4. CASE LoseMemory
  <2>1. queue' = <<>> /\ inFlight' = {} /\ cur' = NoMsg
    BY <1>4 DEF LoseMemory
  <2> QED BY <2>1, EmptyQueue DEF SingleFlight, Current
<1>5. CASE UNCHANGED <<queue, inFlight, cur>>
  BY <1>5 DEF SingleFlight, Current
<1> QED BY <1>1, <1>2, <1>3, <1>4, <1>5
  DEF Next, Handlers, Loops, Work, Outside, vars, files, disk, world, intake, run,
      Arrive, CmdCancel, CmdRetry, CmdClear, PollRead, RetryPass, OutboxPass, Expire,
      MarkProcessing, StartCLI, FinishCLI, Approve, Refuse, HandleError, Send,
      AppendOutbox, Record, AgeMessage, LockAges, LockStays, Shutdown, Exit, Crash, Boot

\* No message is ever in two hands and no mark outlives its message: the
\* promise of Worker.inFlight, for every interleaving of handlers and poller.
THEOREM SingleFlightCorrect == Spec => []SingleFlight
<1>1. Init => SingleFlight
  BY EmptyQueue DEF Init, SingleFlight, Current
<1> QED BY <1>1, InitTypeInv, NextTypeInv, NextSingleFlight, PTL DEF Spec

-----------------------------------------------------------------------------
(* The other parts of the inductive invariant                              *)

LEMMA NextMemoryOK == IInv /\ [Next]_vars => MemoryOK'
<1> SUFFICES ASSUME IInv, [Next]_vars PROVE MemoryOK'
  OBVIOUS
<1> USE DEF IInv, MemoryOK, RestOK, Running, Goto, ArmedAt,
            vars, files, disk, world, intake, run
<1>1. CASE LoseMemory
  BY <1>1 DEF LoseMemory
<1>2. CASE Boot
  BY <1>2 DEF Boot
<1>3. CASE Handlers
  <2>1. /\ up # "down" /\ UNCHANGED <<up, pc>>
        /\ cancelled' = cancelled \/ pc \in ArmedAt
    BY <1>3 DEF Handlers, Arrive, HandlerEnqueue, CmdCancel, CmdRetry, CmdClear
  <2> QED BY <2>1
<1>4. CASE Loops
  <2>1. up # "down" /\ UNCHANGED <<up, pc, cancelled>>
    BY <1>4 DEF Loops, PollRead, PollEnqueue, RetryPass, OutboxPass
  <2> QED BY <2>1
<1>5. CASE Work
  <2>1. up # "down" /\ up' = up
    BY <1>5 DEF Work, Take, Expire, MarkProcessing, StartCLI, FinishCLI, Approve,
                Refuse, HandleError, Send, AppendOutbox, Record, Finish
  <2>2. CASE Take \/ Expire \/ Record \/ Finish
    BY <2>1, <2>2 DEF Take, Expire, Record, Finish
  <2>3. CASE ~(Take \/ Expire \/ Record \/ Finish)
    BY <1>5, <2>1, <2>3
    DEF Work, MarkProcessing, StartCLI, FinishCLI, Approve, Refuse, HandleError,
        Send, AppendOutbox, Fail, Answer
  <2> QED BY <2>2, <2>3
<1>6. CASE Shutdown
  BY <1>6 DEF Shutdown
<1>7. CASE UNCHANGED <<up, queue, inFlight, saved, snapshot, pc, cancelled>>
  BY <1>7
<1> QED BY <1>1, <1>2, <1>3, <1>4, <1>5, <1>6, <1>7
  DEF Next, Outside, AgeMessage, LockAges, LockStays, Exit, Crash

LEMMA NextVerdictOK == IInv /\ [Next]_vars => VerdictOK'
<1> SUFFICES ASSUME IInv, [Next]_vars PROVE VerdictOK'
  OBVIOUS
<1> USE DEF VerdictOK, Goto, OwnedAt, ArmedAt, vars, files, disk, world, intake, run
<1>0. /\ VerdictOK /\ TypeOK /\ RestOK /\ MemoryOK
      /\ pc # "idle" => cur \in Msgs
      /\ status \in [Msgs -> Statuses]
      /\ delivered \subseteq Msgs /\ outbox \subseteq Msgs
  BY DEF IInv, TypeOK, RestOK
<1>1. CASE LoseMemory
  BY <1>1 DEF LoseMemory
<1>2. ASSUME UNCHANGED <<pc, cur, verdict>>, cancelled => cancelled',
             \A m \in Msgs : status[m] = "cleared" => status'[m] = "cleared",
             \A m \in delivered : m \in delivered' \/ status'[m] = "cleared",
             outbox \subseteq outbox' \union delivered'
      PROVE  VerdictOK'
  BY <1>0, <1>2
<1>3. CASE Boot
  BY <1>0, <1>3 DEF Boot, MemoryOK
<1>4. CASE Handlers
  <2>1. CASE CmdClear
    BY <1>0, <1>2, <2>1 DEF CmdClear
  <2>2. CASE ~CmdClear
    <3>1. \A m \in Msgs : status[m] = "cleared" => status'[m] = "cleared"
      BY <1>0, <1>4, <2>2 DEF Handlers, Arrive, HandlerEnqueue, CmdCancel, CmdRetry
    <3>2. /\ UNCHANGED <<pc, cur, verdict, delivered, outbox>>
          /\ cancelled => cancelled'
      BY <1>4, <2>2 DEF Handlers, Arrive, HandlerEnqueue, CmdCancel, CmdRetry
    <3> QED BY <1>2, <3>1, <3>2
  <2> QED BY <2>1, <2>2
<1>5. CASE RetryPass
  <2>1. /\ \A m \in Msgs : status[m] = "cleared" => status'[m] = "cleared"
        /\ UNCHANGED <<pc, cur, verdict, cancelled, delivered, outbox>>
    BY <1>0, <1>5 DEF RetryPass
  <2> QED BY <1>2, <2>1
<1>6. CASE OutboxPass
  BY <1>0, <1>2, <1>6 DEF OutboxPass
<1>7. CASE Take \/ Expire \/ MarkProcessing
  <2>1. /\ verdict = "none" /\ verdict' = verdict
        /\ pc' \in {"expiring", "armed", "finishing", "ready"}
    BY <1>0, <1>7 DEF Take, Expire, MarkProcessing
  <2> QED BY <2>1
<1>8. CASE WorkLocal
  <2>1. UNCHANGED <<status, cur, cancelled>>
    BY <1>8 DEF WorkLocal, StartCLI, FinishCLI, Approve, Refuse, HandleError
  <2>2. CASE HandleError
    BY <1>0, <2>1, <2>2 DEF HandleError, Classify
  <2>3. CASE ~HandleError
    <3>1. /\ pc \in {"ready", "executing", "asking"}
          /\ pc' \in {"ready", "executing", "asking", "failing", "sending"}
          /\ verdict' = verdict
      BY <1>8, <2>3 DEF WorkLocal, StartCLI, FinishCLI, Approve, Refuse, Fail, Answer
    <3> QED BY <1>0, <2>1, <3>1
  <2> QED BY <2>2, <2>3
<1>9. CASE Send
  BY <1>0, <1>9 DEF Send
<1>10. CASE AppendOutbox
  BY <1>0, <1>10 DEF AppendOutbox
<1>11. CASE Record \/ Finish
  <2>1. verdict' = "none" /\ pc' \in {"finishing", "idle"}
    BY <1>0, <1>11 DEF Record, Finish
  <2> QED BY <2>1
<1>12. CASE UNCHANGED <<pc, verdict, cur, cancelled, delivered, outbox, status>>
  BY <1>0, <1>12
<1> QED BY <1>1, <1>3, <1>4, <1>5, <1>6, <1>7, <1>8, <1>9, <1>10, <1>11, <1>12
  DEF Next, Loops, Work, Outside, WorkLocal, PollEnqueue, PollRead, AgeMessage, LockAges,
      LockStays, Shutdown, Exit, Crash

\* No message is left in processing by anything but the worker that works on it
\* or a write of its status that failed.
LEMMA NextProcessingOwned == IInv /\ [Next]_vars => ProcessingOwned'
<1> SUFFICES ASSUME IInv, [Next]_vars, Running',
                    NEW m \in Msgs, status'[m] = "processing"
             PROVE  ((cur = m /\ pc \in OwnedAt) \/ m \in missed)'
  BY DEF ProcessingOwned
<1> USE DEF OwnedAt, ArmedAt, Goto, vars, files, disk, world, intake, run
<1>0. /\ status \in [Msgs -> Statuses] /\ TypeOK /\ RestOK /\ VerdictOK
      /\ Running /\ status[m] = "processing" => (cur = m /\ pc \in OwnedAt) \/ m \in missed
  BY DEF IInv, TypeOK, ProcessingOwned
<1>1. CASE LoseMemory
  BY <1>1 DEF LoseMemory, Running
<1>2. CASE Boot
  BY <1>0, <1>2 DEF Boot, Recover
<1>3. ASSUME Running, missed' = missed, status'[m] = status[m],
             cur' = cur, pc \in OwnedAt => pc' \in OwnedAt
      PROVE  ((cur = m /\ pc \in OwnedAt) \/ m \in missed)'
  BY <1>0, <1>3
<1>4. CASE Handlers
  <2>1. status'[m] = status[m]
    BY <1>0, <1>4 DEF Handlers, Arrive, HandlerEnqueue, CmdCancel, CmdRetry, CmdClear
  <2>2. Running /\ UNCHANGED <<missed, cur, pc>>
    BY <1>4 DEF Handlers, Arrive, HandlerEnqueue, CmdCancel, CmdRetry, CmdClear
  <2> QED BY <1>3, <2>1, <2>2
<1>5. CASE Loops
  <2>1. RetryPass => status'[m] = status[m]
    BY <1>0 DEF RetryPass, Retried
  <2> QED BY <1>0, <1>3, <1>5, <2>1 DEF Loops, PollRead, PollEnqueue, RetryPass, OutboxPass
<1>6. CASE MarkProcessing
  <2>1. /\ Running /\ pc = "armed" /\ cur \in Msgs /\ cur' = cur /\ pc' = "ready"
        /\ SetStatus(cur, "processing")
    BY <1>0, <1>6 DEF MarkProcessing, TypeOK, RestOK
  <2>2. CASE m = cur
    BY <2>1, <2>2
  <2>3. CASE m # cur
    BY <1>0, <2>1, <2>3, SetStatusCases
  <2> QED BY <2>2, <2>3
<1>7. CASE Take
  BY <1>0, <1>7 DEF Take
<1>8. CASE Expire \/ Record
  <2>1. PICK s \in {"expired", verdict} :
          /\ Running /\ cur \in Msgs /\ SetStatus(cur, s) /\ s # "processing"
    BY <1>0, <1>8 DEF Expire, Record, TypeOK, RestOK
  <2>2. CASE m = cur
    BY <1>0, <2>1, <2>2, SetStatusCases DEF Absent
  <2>3. CASE m # cur
    BY <1>0, <2>1, <2>3, SetStatusCases
  <2> QED BY <2>2, <2>3
<1>9. CASE Finish
  BY <1>0, <1>9 DEF Finish
<1>10. CASE WorkLocal \/ Send \/ AppendOutbox
  BY <1>0, <1>3, <1>10 DEF WorkLocal, StartCLI, FinishCLI, Approve, Refuse, HandleError,
                           Fail, Answer, Send, AppendOutbox
<1>11. CASE Shutdown
  BY <1>0, <1>11 DEF Shutdown, Running
<1>12. CASE UNCHANGED <<up, missed, status, cur, pc>>
  BY <1>0, <1>12 DEF Running
<1> QED BY <1>1, <1>2, <1>4, <1>5, <1>6, <1>7, <1>8, <1>9, <1>10, <1>11, <1>12
  DEF Next, Work, Outside, WorkLocal, AgeMessage, LockAges, LockStays, Exit, Crash

\* No answer is recorded before it is delivered or in the outbox.
LEMMA NextNoLostResult == IInv /\ [Next]_vars => NoLostResult'
<1> DEFINE Safe(m) == /\ status[m] = "sent" => m \in delivered
                      /\ status[m] = "done" => m \in delivered \union outbox
<1> SUFFICES ASSUME IInv, [Next]_vars, NEW m \in Msgs PROVE Safe(m)'
  BY DEF NoLostResult
<1> USE DEF vars, files, disk, world, intake, run
<1>0. /\ status \in [Msgs -> Statuses] /\ Safe(m) /\ TypeOK /\ RestOK
  BY DEF IInv, TypeOK, NoLostResult
<1>1. ASSUME status'[m] = status[m] \/ status'[m] \notin {"sent", "done"},
             UNCHANGED <<delivered, outbox>>
      PROVE  Safe(m)'
  BY <1>0, <1>1
<1>2. CASE Handlers
  <2>1. CASE CmdClear
    BY <1>0, <2>1 DEF CmdClear, Closed
  <2>2. CASE ~CmdClear
    <3>1. status'[m] = status[m] \/ status'[m] \notin {"sent", "done"}
      BY <1>0, <1>2, <2>2 DEF Handlers, Arrive, HandlerEnqueue, CmdCancel, CmdRetry
    <3>2. UNCHANGED <<delivered, outbox>>
      BY <1>2, <2>2 DEF Handlers, Arrive, HandlerEnqueue, CmdCancel, CmdRetry
    <3> QED BY <1>1, <3>1, <3>2
  <2> QED BY <2>1, <2>2
<1>3. CASE OutboxPass
  BY <1>0, <1>3 DEF OutboxPass
<1>4. CASE RetryPass
  <2>1. status'[m] = status[m] \/ status'[m] \notin {"sent", "done"}
    BY <1>0, <1>4 DEF RetryPass, Retried
  <2> QED BY <1>1, <1>4, <2>1 DEF RetryPass
<1>5. CASE MarkProcessing
  <2>1. /\ cur \in Msgs /\ SetStatus(cur, "processing") /\ outbox' = outbox
        /\ delivered' = IF status'[cur] = "processing" THEN delivered \ {cur} ELSE delivered
    BY <1>0, <1>5 DEF MarkProcessing, TypeOK, RestOK
  <2>2. CASE m = cur
    <3>1. status'[cur] = "processing" \/ status'[cur] = status[cur]
      BY <1>0, <2>1, SetStatusCases
    <3> QED BY <1>0, <2>1, <2>2, <3>1
  <2>3. CASE m # cur
    <3>1. status'[m] = status[m]
      BY <1>0, <2>1, <2>3, SetStatusCases
    <3> QED BY <1>0, <2>1, <2>3, <3>1
  <2> QED BY <2>2, <2>3
<1>6. CASE Expire
  <2>1. cur \in Msgs /\ SetStatus(cur, "expired") /\ UNCHANGED <<delivered, outbox>>
    BY <1>0, <1>6 DEF Expire, TypeOK, RestOK
  <2> QED BY <1>0, <1>1, <2>1, SetStatusCases
<1>7. CASE Send
  BY <1>0, <1>7 DEF Send
<1>8. CASE AppendOutbox
  BY <1>0, <1>8 DEF AppendOutbox
<1>9. CASE Record
  <2>1. /\ verdict = "sent" => cur \in delivered \/ status[cur] = "cleared"
        /\ verdict = "done" => cur \in delivered \union outbox \/ status[cur] = "cleared"
        /\ SetStatus(cur, verdict) /\ UNCHANGED <<delivered, outbox>> /\ cur \in Msgs
    BY <1>0, <1>9 DEF Record, IInv, VerdictOK, TypeOK, RestOK
  <2>2. \/ status'[m] = status[m]
        \/ m = cur /\ status'[m] = verdict /\ status[m] # "cleared"
    BY <1>0, <2>1, SetStatusCases DEF Absent
  <2> QED BY <1>0, <2>1, <2>2
<1>10. CASE Boot
  <2>1. status'[m] = status[m] \/ status'[m] \notin {"sent", "done"}
    BY <1>0, <1>10 DEF Boot, Recover
  <2> QED BY <1>1, <1>10, <2>1 DEF Boot
<1>11. CASE UNCHANGED <<status, delivered, outbox>>
  BY <1>0, <1>11
<1> QED BY <1>2, <1>3, <1>4, <1>5, <1>6, <1>7, <1>8, <1>9, <1>10, <1>11
  DEF Next, Loops, Work, Outside, PollRead, PollEnqueue, Take, StartCLI, FinishCLI, Approve,
      Refuse, HandleError, Finish, AgeMessage, LockAges, LockStays, Shutdown, Exit, Crash

-----------------------------------------------------------------------------
(* The inductive invariant and what follows from it                        *)

LEMMA InitIInv == Init => IInv
<1> SUFFICES ASSUME Init PROVE IInv
  OBVIOUS
<1>1. TypeOK /\ RestOK
  BY InitTypeInv DEF TypeInv
<1>2. SingleFlight
  BY EmptyQueue DEF Init, SingleFlight, Current
<1>3. ProcessingOwned /\ NoLostResult
  BY DEF Init, ProcessingOwned, NoLostResult
<1>4. MemoryOK /\ VerdictOK
  BY DEF Init, MemoryOK, VerdictOK, OwnedAt, ArmedAt
<1> QED BY <1>1, <1>2, <1>3, <1>4 DEF IInv

LEMMA NextIInv == IInv /\ [Next]_vars => IInv'
<1>1. IInv => TypeInv /\ SingleFlight
  BY DEF IInv, TypeInv
<1> QED BY <1>1, NextTypeInv, NextSingleFlight, NextProcessingOwned, NextNoLostResult,
           NextMemoryOK, NextVerdictOK DEF IInv, TypeInv

\* The inductive invariant holds in every reachable state.
THEOREM InvariantHolds == Spec => []IInv
BY InitIInv, NextIInv, PTL DEF Spec

\* A message shown as processing is being worked on, whatever was interrupted
\* before, unless the write of process or RecoverStale that should have moved it
\* on failed.
THEOREM ProcessingOwnedCorrect == Spec => []ProcessingOwned
<1>1. IInv => ProcessingOwned
  BY DEF IInv
<1> QED BY <1>1, InvariantHolds, PTL

\* An answer shown as sent or done was delivered or waits in the outbox, for
\* every interleaving with crashes, /clear and the outbox loop.
THEOREM NoLostResultCorrect == Spec => []NoLostResult
<1>1. IInv => NoLostResult
  BY DEF IInv
<1> QED BY <1>1, InvariantHolds, PTL

\* A step fails a message only when its retries are spent or /cancel named it.
LEMMA FailStep ==
    ASSUME IInv, [Next]_vars
    PROVE  /\ cur' # cur => ~cancelled'
           /\ \A m \in Msgs :
                 status[m] # "failed" /\ status'[m] = "failed" =>
                     \/ status[m] = "error" /\ retries[m] >= MaxRetryCount
                     \/ cancelled /\ cur = m
<1> USE DEF vars, files, disk, world, intake, run
<1>1. cur' # cur => ~cancelled'
  <2>1. CASE Take \/ Finish
    BY <2>1 DEF Take, Finish, IInv, MemoryOK, ArmedAt
  <2>2. CASE LoseMemory
    BY <2>2 DEF LoseMemory
  <2>3. CASE cur' = cur
    BY <2>3
  <2> QED BY <2>1, <2>2, <2>3
    DEF Next, Handlers, Loops, Work, Outside, Arrive, HandlerEnqueue, CmdCancel, CmdRetry,
        CmdClear, PollRead, PollEnqueue, RetryPass, OutboxPass, Expire, MarkProcessing,
        StartCLI, FinishCLI, Approve, Refuse, HandleError, Send, AppendOutbox, Record,
        AgeMessage, LockAges, LockStays, Shutdown, Exit, Crash, Boot
<1>2. ASSUME NEW m \in Msgs, status[m] # "failed", status'[m] = "failed"
      PROVE  (status[m] = "error" /\ retries[m] >= MaxRetryCount) \/ (cancelled /\ cur = m)
  <2>0. status \in [Msgs -> Statuses]
    BY DEF IInv, TypeOK
  <2>1. CASE RetryPass
    BY <1>2, <2>0, <2>1 DEF RetryPass, Retried
  <2>2. CASE Boot
    BY <1>2, <2>0, <2>2 DEF Boot, Recover
  <2>3. CASE Record
    <3>1. verdict = "failed" => cancelled
      BY DEF IInv, VerdictOK
    <3>2. cur \in Msgs /\ SetStatus(cur, verdict)
      BY <2>3 DEF Record, IInv, TypeOK, RestOK
    <3> QED BY <1>2, <2>0, <3>1, <3>2, SetStatusCases DEF IInv
  <2>4. CASE Expire \/ MarkProcessing
    <3>1. PICK s \in {"expired", "processing"} : cur \in Msgs /\ SetStatus(cur, s)
      BY <2>4 DEF Expire, MarkProcessing, IInv, TypeOK, RestOK
    <3> QED BY <1>2, <2>0, <3>1, SetStatusCases DEF IInv
  <2>5. CASE Handlers
    BY <1>2, <2>0, <2>5 DEF Handlers, Arrive, HandlerEnqueue, CmdCancel, CmdRetry, CmdClear
  <2>6. CASE status' = status
    BY <1>2, <2>6
  <2> QED BY <2>1, <2>2, <2>3, <2>4, <2>5, <2>6
    DEF Next, Loops, Work, Outside, PollRead, PollEnqueue, OutboxPass, Take, StartCLI,
        FinishCLI, Approve, Refuse, HandleError, Send, AppendOutbox, Finish, AgeMessage,
        LockAges, LockStays, Shutdown, Exit, Crash
<1> QED BY <1>1, <1>2

\* /cancel never reaches past the message it was typed for, and nothing else
\* but a spent retry budget makes a message failed.
THEOREM FailedIsDeliberateCorrect == Spec => FailedIsDeliberate
<1>1. IInv /\ [Next]_vars =>
        [/\ cur' # cur => ~cancelled'
         /\ \A m \in Msgs :
               status[m] # "failed" /\ status'[m] = "failed" =>
                   \/ status[m] = "error" /\ retries[m] >= MaxRetryCount
                   \/ cancelled /\ cur = m]_vars
  BY FailStep
<1> QED BY <1>1, InvariantHolds, PTL DEF Spec, FailedIsDeliberate
=============================================================================
