--------------------------- MODULE MessageWorker ---------------------------
(***************************************************************************)
(* The foreground message pipeline: a Telegram handler saves a message in  *)
(* inbox.json and offers it to the worker's channel; one worker goroutine  *)
(* runs the Claude CLI on it, possibly asks for permission, sends the      *)
(* answer and records the outcome; a poller re-offers pending messages, a  *)
(* retry loop re-opens failed runs, an outbox loop resends, the user types *)
(* /cancel, /retry and /clear, and the process is stopped, killed and      *)
(* started again.  Any access to inbox.json may fail, and a failing write  *)
(* may leave it unreadable; the faults of outbox.json are in Outbox.       *)
(* Every step below is one critical section of the code (an access under   *)
(* the inbox mutex, a channel operation, a CLI or Telegram call).          *)
(***************************************************************************)
EXTENDS Naturals, Sequences, Functions

CONSTANTS
    Msgs,           \* message identifiers (msgCounter never reuses one)
    NoMsg,          \* "the worker holds no message"
    QueueSize,      \* capacity of Worker.queue (WORKER_QUEUE_SIZE)
    MaxRetryCount,  \* Worker.maxRetryCount (MAX_RETRY_COUNT)
    MaxFaults,      \* bound on the faults of one behaviour
    Faults,         \* the faults it may meet: subset of AllFaults
    Commands        \* the commands the user types: subset of AllCommands

ASSUME MsgsAssumption == NoMsg \notin Msgs
AllCommands == {"cancel", "retry", "clear"}
AllFaults   == {"crash", "shutdown", "disk", "lock"}

ASSUME BoundsAssumption ==
    /\ QueueSize \in Nat \ {0}
    /\ MaxRetryCount \in Nat
    /\ MaxFaults \in Nat /\ Faults \subseteq AllFaults
    /\ Commands \subseteq AllCommands

VARIABLES
    \* files
    status,     \* inbox.json as last written: status of each message, see Statuses
    retries,    \* inbox.json: RetryCount
    outbox,     \* outbox.json: messages with an entry still "done"
    lock,       \* inbox.lock outside a critical section: "free", or "fresh"
                \* (left behind, and younger than lockTimeout)
    torn,       \* inbox.json is truncated: it does not parse
    \* the world
    old,        \* messages older than messageTTL
    \* what has happened
    delivered,  \* messages with an answer sent since they were last marked processing
    missed,     \* messages in processing whose status the worker, or this start,
                \* tried to write and could not
    faults,     \* crashes, shutdowns, disk errors and lock files left so far
    \* memory of the process
    up,         \* "up", "stopping" (ctx cancelled), "down"
    queue,      \* Worker.queue
    inFlight,   \* Worker.inFlight
    saved,      \* handlers between AppendToInbox and Enqueue
    snapshot,   \* pending messages of enqueuePending's copy still to offer
    pc,         \* where the worker goroutine is
    cur,        \* the message it holds
    phase2,     \* the CLI runs with --dangerously-skip-permissions
    cancelled,  \* Worker.cancelled
    err,        \* why Execute failed, see ErrorKinds
    verdict     \* the status process is about to record

disk    == <<lock, torn, faults>>
files   == <<status, retries, outbox, missed, disk>>
world   == <<old, delivered>>
intake  == <<queue, inFlight, saved, snapshot>>
run     == <<pc, cur, phase2, cancelled, err, verdict>>
vars    == <<files, world, up, intake, run>>

(***************************************************************************)
(* A message is "none" before it arrives, "dropped" when AppendToInbox     *)
(* failed and "cleared" once /clear removed it; the others are the status  *)
(* strings of models.go.                                                   *)
(***************************************************************************)
Absent   == {"none", "dropped", "cleared"}
Open     == {"pending", "processing", "error"}
Closed   == {"done", "sent", "failed", "expired"}
Statuses == Absent \union Open \union Closed

InInbox(m) == status[m] \notin Absent

\* "signal": the error text names the signal that ended the run; "other": any
\* other text, that of a cancelled context or of a timeout included.
ErrorKinds == {"none", "signal", "other"}

Running  == up # "down"
CtxDone  == cancelled \/ up = "stopping"

\* The worker's currentCancel is set from Take until Finish.
ArmedAt  == {"armed", "ready", "executing", "asking", "failing",
             "sending", "boxing", "recording"}
PCs      == ArmedAt \union {"idle", "expiring", "finishing"}

\* processing is on disk between MarkProcessing and Record.
OwnedAt  == ArmedAt \ {"armed"}

Init ==
    /\ status = [m \in Msgs |-> "none"]
    /\ retries = [m \in Msgs |-> 0]
    /\ outbox = {} /\ lock = "free" /\ torn = FALSE
    /\ old = {} /\ delivered = {} /\ missed = {} /\ faults = 0
    /\ up = "up"
    /\ queue = <<>> /\ inFlight = {} /\ saved = {} /\ snapshot = {}
    /\ pc = "idle" /\ cur = NoMsg /\ phase2 = FALSE /\ cancelled = FALSE
    /\ err = "none" /\ verdict = "none"

-----------------------------------------------------------------------------
(* Shared steps of the store and of the queue                              *)

Meets(kind) == kind \in Faults /\ faults < MaxFaults /\ faults' = faults + 1

\* A call of the store gets through: it finds no fresh lock file and can read
\* the inbox.
Access == lock = "free" /\ ~torn /\ UNCHANGED disk

\* Or it returns an error: a fresh lock file, an inbox that does not parse, or a
\* disk error before or after os.WriteFile truncated the file.
AccessError ==
    \/ (lock = "fresh" \/ torn) /\ UNCHANGED disk
    \/ /\ lock = "free" /\ ~torn /\ Meets("disk")
       /\ torn' \in BOOLEAN /\ UNCHANGED lock

\* updateInboxStatus: does nothing when the message is no longer in the inbox,
\* and drops the error when the inbox could not be written.
SetStatus(m, s) ==
    \/ /\ Access
       /\ status' = IF InInbox(m) THEN [status EXCEPT ![m] = s] ELSE status
       /\ missed' = missed \ {m}
    \/ /\ AccessError
       /\ missed' = IF status[m] = "processing" THEN missed \union {m} ELSE missed
       /\ UNCHANGED status

\* Mutant: a full queue keeps the mark.
EnqueueKeepsMark(m) ==
    /\ inFlight' = inFlight \union {m}
    /\ queue' = IF m \notin inFlight /\ Len(queue) < QueueSize
                THEN Append(queue, m) ELSE queue

\* Enqueue: LoadOrStore, then a non-blocking send; a full queue undoes the
\* mark.  No process can see the mark in between except another Enqueue of
\* the same message, which returns without effect in both orders.
Enqueue(m) ==
    IF m \notin inFlight /\ Len(queue) < QueueSize
    THEN /\ queue' = Append(queue, m)
         /\ inFlight' = inFlight \union {m}
    ELSE UNCHANGED <<queue, inFlight>>

Goto(next) == pc' = next

-----------------------------------------------------------------------------
(* Telegram handlers                                                       *)

Arrive(m) ==
    /\ Running /\ status[m] = "none"
    /\ \/ /\ Access
          /\ status' = [status EXCEPT ![m] = "pending"] /\ saved' = saved \union {m}
       \/ /\ AccessError
          /\ status' = [status EXCEPT ![m] = "dropped"] /\ saved' = saved
    /\ UNCHANGED <<retries, outbox, missed, world, up, queue, inFlight, snapshot, run>>

HandlerEnqueue(m) ==
    /\ Running /\ m \in saved
    /\ saved' = saved \ {m}
    /\ Enqueue(m)
    /\ UNCHANGED <<files, world, up, snapshot, run>>

CmdCancel ==
    /\ "cancel" \in Commands
    /\ Running /\ pc \in ArmedAt /\ ~cancelled
    /\ cancelled' = TRUE
    /\ UNCHANGED <<files, world, up, intake, pc, cur, phase2, err, verdict>>

CmdRetry ==
    LET again == {m \in Msgs : status[m] \in {"error", "failed"}}
    IN /\ "retry" \in Commands
       /\ Running /\ again # {}
       /\ \/ /\ Access
             /\ status' = [m \in Msgs |-> IF m \in again THEN "pending" ELSE status[m]]
             /\ retries' = [m \in Msgs |-> IF m \in again THEN 0 ELSE retries[m]]
          \/ AccessError /\ UNCHANGED <<status, retries>>
       /\ UNCHANGED <<outbox, missed, world, up, intake, run>>

CmdClear ==
    LET gone == {m \in Msgs : status[m] \in Closed}
    IN /\ "clear" \in Commands
       /\ Running /\ gone # {}
       /\ \/ /\ Access
             /\ status' = [m \in Msgs |-> IF m \in gone THEN "cleared" ELSE status[m]]
             /\ delivered' = delivered \ gone
          \/ AccessError /\ UNCHANGED <<status, delivered>>
       /\ UNCHANGED <<retries, outbox, missed, old, up, intake, run>>

-----------------------------------------------------------------------------
(* PollPending, ProcessRetries, PollOutbox                                 *)

\* ReadInbox takes the mutex but not the lock file: the copy is stale as soon
\* as the mutex is released.  The order in which it is offered is left open.
PollRead ==
    /\ Running /\ snapshot = {} /\ ~torn
    /\ snapshot' = {m \in Msgs : status[m] = "pending"}
    /\ snapshot' # {}
    /\ UNCHANGED <<files, world, up, queue, inFlight, saved, run>>

PollEnqueue(m) ==
    /\ Running /\ m \in snapshot
    /\ snapshot' = snapshot \ {m}
    /\ Enqueue(m)
    /\ UNCHANGED <<files, world, up, saved, run>>

Retried(m) == IF m \in old THEN "expired"
              ELSE IF retries[m] >= MaxRetryCount THEN "failed" ELSE "pending"

RetryPass ==
    LET due == {m \in Msgs : status[m] = "error"}
    IN /\ Running /\ due # {}
       /\ \/ /\ Access
             /\ status' = [m \in Msgs |-> IF m \in due THEN Retried(m) ELSE status[m]]
             /\ retries' = [m \in Msgs |-> IF m \in due /\ Retried(m) = "pending"
                                           THEN retries[m] + 1 ELSE retries[m]]
          \/ AccessError /\ UNCHANGED <<status, retries>>
       /\ UNCHANGED <<outbox, missed, world, up, intake, run>>

\* Mutant: entries are marked sent although the send failed.
OutboxPassForgets ==
    /\ Running /\ outbox # {}
    /\ outbox' = {}
    /\ UNCHANGED <<status, retries, missed, disk, world, up, intake, run>>

\* processOutbox sends what it can: any subset gets through.
OutboxPass ==
    /\ Running
    /\ \E through \in (SUBSET outbox) \ {{}} :
          /\ outbox' = outbox \ through
          /\ delivered' = delivered \union through
    /\ UNCHANGED <<status, retries, missed, disk, old, up, intake, run>>

-----------------------------------------------------------------------------
(* The worker goroutine: Start and process                                 *)

\* The select of Start may take a message even when ctx is already done.  The
\* TTL decides at once; otherwise currentCancel is set and cancelled reset.
Take ==
    /\ Running /\ pc = "idle" /\ queue # <<>>
    /\ cur' = Head(queue) /\ queue' = Tail(queue)
    /\ IF Head(queue) \in old THEN Goto("expiring") /\ UNCHANGED cancelled
                               ELSE Goto("armed") /\ cancelled' = FALSE
    /\ UNCHANGED <<files, world, up, inFlight, saved, snapshot, phase2, err, verdict>>

Expire ==
    /\ Running /\ pc = "expiring"
    /\ SetStatus(cur, "expired")
    /\ Goto("finishing")
    /\ UNCHANGED <<retries, outbox, world, up, intake,
                   cur, phase2, cancelled, err, verdict>>

MarkProcessing ==
    /\ Running /\ pc = "armed"
    /\ SetStatus(cur, "processing")
    /\ delivered' = IF status'[cur] = "processing" THEN delivered \ {cur} ELSE delivered
    /\ Goto("ready")
    /\ UNCHANGED <<retries, outbox, old, up, intake,
                   cur, phase2, cancelled, err, verdict>>

Fail(kind) == Goto("failing") /\ phase2' = FALSE /\ err' = kind /\ UNCHANGED verdict
Answer     == Goto("sending") /\ phase2' = FALSE /\ UNCHANGED <<err, verdict>>

\* exec.CommandContext refuses to start under a cancelled context, with an
\* error that does not name a signal.
StartCLI ==
    /\ Running /\ pc = "ready"
    /\ IF CtxDone THEN Fail("other")
                  ELSE Goto("executing") /\ UNCHANGED <<phase2, err, verdict>>
    /\ UNCHANGED <<files, world, up, intake, cur, cancelled>>

FinishCLI ==
    /\ Running /\ pc = "executing"
    /\ \/ Answer
       \/ ~phase2 /\ Goto("asking") /\ UNCHANGED <<phase2, err, verdict>>
       \/ Fail("signal")
       \/ Fail("other")
    /\ UNCHANGED <<files, world, up, intake, cur, cancelled>>

\* requestApproval: an approval starts phase 2; a denial, the two-minute
\* timeout, a cancelled context or a failed send deliver the partial answer.
Approve ==
    /\ Running /\ pc = "asking"
    /\ phase2' = TRUE
    /\ Goto("ready")
    /\ UNCHANGED <<files, world, up, intake, cur, cancelled, err, verdict>>

Refuse ==
    /\ Running /\ pc = "asking"
    /\ Answer
    /\ UNCHANGED <<files, world, up, intake, cur, cancelled>>

\* Mutant: any cancelled context counts as the user's /cancel.
ClassifyContext == IF CtxDone THEN "failed"
                   ELSE IF err = "signal" THEN "pending" ELSE "error"

\* handleError reads cancelled under its mutex, then classifies the text.
Classify == IF cancelled THEN "failed"
            ELSE IF err = "signal" THEN "pending" ELSE "error"

HandleError ==
    /\ Running /\ pc = "failing"
    /\ verdict' = Classify
    /\ Goto("recording")
    /\ UNCHANGED <<files, world, up, intake, cur, phase2, cancelled, err>>

\* sendAndRecord: send, append to the outbox, then record.  The entry appended
\* for an answer that was sent is an archive nobody reads; it is left out.
Send ==
    /\ Running /\ pc = "sending"
    /\ \/ verdict' = "sent" /\ delivered' = delivered \union {cur} /\ Goto("recording")
       \/ verdict' = "done" /\ UNCHANGED delivered /\ Goto("boxing")
    /\ UNCHANGED <<files, old, up, intake, cur, phase2, cancelled, err>>

AppendOutbox ==
    /\ Running /\ pc = "boxing"
    /\ outbox' = outbox \union {cur}
    /\ Goto("recording")
    /\ UNCHANGED <<status, retries, missed, disk, world, up, intake,
                   cur, phase2, cancelled, err, verdict>>

\* A /cancel between this step and the deferred reset finds currentCancel set
\* but its flag is cleared unread, so the two are one step.
Record ==
    /\ Running /\ pc = "recording"
    /\ SetStatus(cur, verdict)
    /\ Goto("finishing")
    /\ cancelled' = FALSE /\ err' = "none" /\ verdict' = "none"
    /\ UNCHANGED <<retries, outbox, world, up, intake, cur, phase2>>

Finish ==
    /\ Running /\ pc = "finishing"
    /\ inFlight' = inFlight \ {cur}
    /\ cur' = NoMsg
    /\ Goto("idle")
    /\ UNCHANGED <<files, world, up, queue, saved, snapshot,
                   phase2, cancelled, err, verdict>>

Work == \/ Take \/ Expire \/ MarkProcessing \/ StartCLI \/ FinishCLI
        \/ Approve \/ Refuse \/ HandleError \/ Send \/ AppendOutbox
        \/ Record \/ Finish

-----------------------------------------------------------------------------
(* Time, shutdown, crash and start                                         *)

\* The age of a message matters only while it can still be worked on.
AgeMessage(m) ==
    /\ m \notin old
    /\ \/ status[m] \in Open \union {"failed"}
       \/ m \in saved \union snapshot \union inFlight
    /\ old' = old \union {m}
    /\ UNCHANGED <<files, delivered, up, intake, run>>

LockAges ==
    /\ lock = "fresh" /\ lock' = "free"
    /\ UNCHANGED <<status, retries, outbox, missed, torn, faults, world, up, intake, run>>

\* releaseLock could not remove the file at the end of a call; the retry pass
\* makes one at every tick, with or without messages to change.
LockStays ==
    /\ Running /\ lock = "free" /\ Meets("lock")
    /\ lock' = "fresh"
    /\ UNCHANGED <<status, retries, outbox, missed, torn, world, up, intake, run>>

Shutdown ==
    /\ up = "up" /\ Meets("shutdown")
    /\ up' = "stopping"
    /\ UNCHANGED <<status, retries, outbox, missed, lock, torn, world, intake, run>>

\* The process ends: everything in memory is gone.
LoseMemory ==
    /\ up' = "down" /\ missed' = {}
    /\ queue' = <<>> /\ inFlight' = {} /\ saved' = {} /\ snapshot' = {}
    /\ pc' = "idle" /\ cur' = NoMsg /\ phase2' = FALSE /\ cancelled' = FALSE
    /\ err' = "none" /\ verdict' = "none"

\* w.Stop waits for the worker and the poller, but no one waits for handlers.
Exit ==
    /\ up = "stopping" /\ pc = "idle" /\ snapshot = {}
    /\ LoseMemory
    /\ UNCHANGED <<status, retries, outbox, disk, world>>

\* Killed at any point; if it was inside UpdateInbox or AppendToInbox the lock
\* file stays behind, and the inbox truncated if it was being written.
Crash ==
    /\ Running /\ Meets("crash")
    /\ \/ UNCHANGED <<lock, torn>>
       \/ lock = "free" /\ lock' = "fresh" /\ torn' \in {torn, TRUE}
    /\ LoseMemory
    /\ UNCHANGED <<status, retries, outbox, world>>

\* Mutant: a start looks only at errors.
RecoverErrorsOnly(m) ==
    IF status[m] = "error" /\ retries[m] >= MaxRetryCount THEN "failed"
    ELSE IF status[m] = "error" /\ m \in old THEN "expired"
    ELSE status[m]

Recover(m) ==
    IF status[m] = "processing"
    THEN IF m \in old THEN "expired" ELSE "pending"
    ELSE IF status[m] = "error" /\ retries[m] >= MaxRetryCount THEN "failed"
    ELSE IF status[m] = "error" /\ m \in old THEN "expired"
    ELSE status[m]

\* main runs RecoverStale once; its error is ignored.
Boot ==
    /\ up = "down"
    /\ up' = "up"
    /\ \/ Access /\ status' = [m \in Msgs |-> Recover(m)] /\ missed' = {}
       \/ /\ AccessError /\ UNCHANGED status
          /\ missed' = {m \in Msgs : status[m] = "processing"}
    /\ UNCHANGED <<retries, outbox, world, intake, run>>

-----------------------------------------------------------------------------
Handlers == \/ \E m \in Msgs : Arrive(m) \/ HandlerEnqueue(m)
            \/ CmdCancel \/ CmdRetry \/ CmdClear
Loops    == PollRead \/ (\E m \in Msgs : PollEnqueue(m)) \/ RetryPass \/ OutboxPass
Outside  == (\E m \in Msgs : AgeMessage(m)) \/ LockAges \/ LockStays
            \/ Shutdown \/ Exit \/ Crash \/ Boot

Next == Handlers \/ Loops \/ Work \/ Outside
Spec == Init /\ [][Next]_vars

(***************************************************************************)
(* Fairness.  A started goroutine keeps running (Go's scheduler); the CLI  *)
(* ends by its timeout and requestApproval by its own; the tickers fire;   *)
(* time passes.  Users, crashes, shutdowns and starts owe nothing.         *)
(***************************************************************************)
Fairness ==
    /\ WF_vars(Work)
    /\ WF_vars(PollRead) /\ WF_vars(RetryPass)
    /\ \A m \in Msgs : /\ WF_vars(HandlerEnqueue(m))
                       /\ WF_vars(PollEnqueue(m))
                       /\ WF_vars(AgeMessage(m))
    /\ WF_vars(LockAges)

FairSpec == Spec /\ Fairness

-----------------------------------------------------------------------------
(* Properties                                                              *)

Current == IF cur = NoMsg THEN {} ELSE {cur}

\* Every variable keeps the shape the code gives it; the queue never exceeds
\* the channel's capacity nor RetryCount the configured maximum.
TypeOK ==
    /\ status \in [Msgs -> Statuses]
    /\ retries \in [Msgs -> 0 .. MaxRetryCount]
    /\ outbox \subseteq Msgs /\ lock \in {"free", "fresh"} /\ torn \in BOOLEAN
    /\ old \subseteq Msgs /\ delivered \subseteq Msgs
    /\ missed \subseteq Msgs /\ faults \in 0 .. MaxFaults
    /\ up \in {"up", "stopping", "down"}
    /\ queue \in Seq(Msgs) /\ Len(queue) <= QueueSize
    /\ inFlight \subseteq Msgs /\ saved \subseteq Msgs /\ snapshot \subseteq Msgs
    /\ pc \in PCs /\ cur \in Msgs \union {NoMsg}
    /\ phase2 \in BOOLEAN /\ cancelled \in BOOLEAN
    /\ err \in ErrorKinds
    /\ verdict \in {"none", "sent", "done", "failed", "pending", "error"}

\* However many pollers and handlers offer a message, it is in the queue or in
\* the worker's hands at most once, and inFlight names exactly those messages:
\* none is processed twice at a time and none stays marked, and so unable to
\* be queued again, after the worker let it go (Enqueue, process).
SingleFlight ==
    /\ IsInjective(queue)
    /\ Range(queue) \intersect Current = {}
    /\ inFlight = Range(queue) \union Current

\* A message that inbox.json shows as processing, from which nothing but a start
\* reopens it, is in the worker's hands, in every life of the process: it is left
\* there only if the very write that should have moved it on, by the worker or by
\* this start, failed.  No interleaving of a run with a crash, a start, a stale
\* offer, /retry or /clear does it.
ProcessingOwned ==
    Running =>
        \A m \in Msgs : status[m] = "processing" =>
            (cur = m /\ pc \in OwnedAt) \/ m \in missed

\* An answer is never recorded before it is safe: a message shown as sent was
\* delivered by its latest run, and one shown as done is delivered or still in
\* the outbox, whatever crashes between send, append and record
\* (sendAndRecord, processOutbox).
NoLostResult ==
    \A m \in Msgs :
        /\ status[m] = "sent" => m \in delivered
        /\ status[m] = "done" => m \in delivered \union outbox

\* A message becomes failed only from an error whose retries are spent or because
\* /cancel was typed while this very message was in the worker's hands: a
\* cancellation never leaks to the next message, and a shutdown is not taken for
\* one (CancelCurrent, handleError, processRetries, RecoverStale).
FailedIsDeliberate ==
    [][/\ cur' # cur => ~cancelled'
       /\ \A m \in Msgs :
             status[m] # "failed" /\ status'[m] = "failed" =>
                 \/ status[m] = "error" /\ retries[m] >= MaxRetryCount
                 \/ cancelled /\ cur = m]_vars

\* A message whose saved status still asks for work gets settled: it reaches a
\* closed status (or is cleared), through a full queue, retries and a lock file
\* left behind, unless the process goes down, the inbox became unreadable, or the
\* write that should have closed it failed.
Settles ==
    \A m \in Msgs :
        status[m] \in Open ~>
            status[m] \notin Open \/ up = "down" \/ torn \/ m \in missed

-----------------------------------------------------------------------------
(* The inductive invariant                                                 *)

\* A worker at rest holds no message, and only then.
RestOK == pc = "idle" <=> cur = NoMsg

\* A process that is down holds nothing; a cancellation flag is only set while
\* currentCancel is.
MemoryOK ==
    /\ up = "down" => /\ queue = <<>> /\ inFlight = {} /\ saved = {}
                      /\ snapshot = {} /\ pc = "idle"
    /\ cancelled => pc \in ArmedAt

\* What process carries to updateInboxStatus is backed by what it has done, or
\* the message was cleared and nothing will be recorded.
VerdictOK ==
    /\ verdict # "none" => pc \in {"boxing", "recording"}
    /\ pc = "boxing" => verdict = "done"
    /\ pc = "recording" => verdict # "none"
    /\ verdict = "sent" => cur \in delivered \/ status[cur] = "cleared"
    /\ verdict = "done" /\ pc = "recording" =>
          cur \in delivered \union outbox \/ status[cur] = "cleared"
    /\ verdict = "failed" => cancelled

\* TypeOK and the safety invariants together with what makes them inductive:
\* memory and verdict agree with where the worker is.
IInv ==
    /\ TypeOK /\ SingleFlight /\ ProcessingOwned /\ NoLostResult
    /\ RestOK /\ MemoryOK /\ VerdictOK

-----------------------------------------------------------------------------
(* What the documentation says and the code does not do                    *)

\* README.md:228-239: a message that was sent is at the end of its lifecycle.
SentIsFinal ==
    [][\A m \in Msgs : status[m] = "sent" => status'[m] \in {"sent", "cleared"}]_vars
=============================================================================
