# Verification of pocket-claude

pocket-claude is a Telegram bot that passes messages to the Claude CLI. This
directory holds TLA+ models of its concurrent core and of the state it keeps,
the TLC configurations that check them, and TLAPS proofs of their most important
properties. Paths are relative to `src/internal` unless they start with `src/`.

## 1. The system

| Component | State | Operations | Interacts through |
|---|---|---|---|
| Handlers and commands (`bot/bot.go`, `bot/commands.go`) | a semaphore of 10 handlers, message counter | `handleMessage`, `handleCallback`, `/btw /plan /cancel /retry /clear /research /ralph /new /resume /project ...` | store, worker, pool; each handler is a goroutine of its own |
| Message worker (`worker/worker.go`) | `queue`, `inFlight`, `currentCancel`, `cancelled` | `Enqueue`, `process`, `handleError`, `sendAndRecord`, `CancelCurrent`, `PollPending`, `ProcessRetries`, `RecoverStale`, `Stop` | store, CLI, Telegram; three goroutines |
| Background pool (`worker/background.go`, `worker/ralph.go`) | `sem`, `tasks`, `wg`, `closed`, a context per task | `Submit`, `SubmitRalph`, `run`, `runRalph`, `Cancel`, `CancelAll`, `Wait`, `Cleanup`, `GetResult` | handlers, CLI, `Worker.Stop`; a goroutine per task |
| Approvals (`worker/approval.go`, `requestApproval` of both) | a map from an id to a channel of capacity one | `requestApproval`, `ResolveApproval` | Telegram callbacks, two-minute timers, contexts |
| Store (`store/store.go`, `store/models.go`) | `inbox.json`, `outbox.json`, `inbox.lock`, two mutexes | `AppendToInbox`, `UpdateInbox`, `ReadInbox`, `ClearCompleted`, `GetInboxStats`, `UpdateOutbox` | files; every other component |
| Outbox loop (`bot/bot.go`) | `outbox.json` | `processOutbox` | store, Telegram |
| Project manager (`project/manager.go`) | active project, executors, usage, `projects.json` | add, switch, rename, remove, execute, usage | worker, pool |
| CLI executor (`claude/executor.go`) | session id, session list, model | `ExecuteWithOptions`, `ResetSession`, `SetResumeID` | the `claude` process |
| Start and end (`src/cmd/pocket-claude/main.go`, `config/config.go`) | PID file | `AcquirePIDFile`, start of the goroutines, signal, `Shutdown`, `Stop` | everything |

What is hard here: the same message is offered to the queue by its handler and
by a poller that works on a copy of the inbox; `/cancel` hits whatever is
running at that moment; the answer, the outbox and the inbox are three places
updated one after the other; the process is killed at any point and finds its
files, and its own lock file, at the next start; background tasks are
submitted, cancelled, cleaned up and waited for by different goroutines that
agree only on short critical sections. `PROJECT.json` lists the hazards line by
line with the properties that watch them.

What makes each component correct: the worker processes a message once at a
time, settles it, loses no answer and fails none by accident; the pool never
loses or exceeds slots, can always cancel what works, and stops; a loop ends by
its bounds and works where it was told to; an answer to a permission request is
kept while somebody waits for it and dropped when nobody does; the store is
atomic whatever its steps and whenever it is killed; the outbox delivers what it
holds and loses no entry; the project table stays one table, every answered run
is billed once, and sessions stay with their project; one process works on the
files. Some of the documentation promises more than that; section 3 lists where.

## 2. The modules

| Module | Models | State and actions against the code |
|---|---|---|
| `MessageWorker` | the foreground pipeline with its loops, commands, crash and restart | `status`, `retries`, `outbox`, `lock`, `torn` are the files; `queue`, `inFlight`, `cancelled` the fields of `Worker`; `saved` and `snapshot` are the handlers and the poller between their read and their `Enqueue`; `pc` is where `process` is. One action per critical section, and each access to the inbox goes through (`Access`) or returns an error (`AccessError`), which `SetStatus` drops as `updateInboxStatus` does |
| `BackgroundPool` | the pool, its submitters and its goroutines | `sem`, `tasks`, `wg`, `closed` are the fields; `pc` follows `Submit`/`SubmitRalph` and then `run`/`runRalph`; `cancelling` is a handler between the unlock and `cancelFn()` |
| `RalphLoop` | one loop from the inside | `iter`, `recorded`, `stall` are the counters of `BackgroundTask`; `Settle` is the tail of the loop body; `session` and `place` say where the CLI works; `open`, `channel`, `hand` are the permission request and a handler answering it |
| `Approvals` | `requestApproval` and `ResolveApproval` of worker and pool, keyboards, taps | `approvals` and `chan` are the map and the channels; `Load` and `Post` are the two halves of `ResolveApproval`; a tap is an update that may be delivered again after a crash |
| `AtomicInbox` | what callers of the store rely on | each call takes effect at one instant or returns an error |
| `InboxStore` | how the store does it | mutex, lock file (created empty, then stamped), read, change, truncate, write, release; any of them may fail (a failing `os.Remove` leaves the lock file), and crashes come between them |
| `Outbox` | `sendAndRecord` and `processOutbox` on one `outbox.json` | a step per chunk sent; `mu` is `outboxMu`, kept by the poller through a whole pass; `poller.copy` is the file as it read it |
| `Projects` | the manager, its ledgers, `projects.json` | `active`, `projects`, `execs`, `usage` are the fields; an executor and the ledger made with it are a number; `total` and `session` hold the runs billed. `Restart` is `NewManager` with a file that is whole, torn, or cannot be read |
| `ProjectSessions` | the executors' sessions | `current` and `listed` are the fields; the lookup under `Manager.mu` and the change under `Executor.mu` are separate steps; `fg` is a run with one or two phases |
| `Instances` | starts, stops and deaths of the bot on one `bot.pid` | `life` is where a process is in `main`; one action per read, signal, removal and write |
| `MC*` | `MessageWorker` and `ProjectSessions` with symmetry sets | the others are run as they are |
| `*Proofs` | theorems | see section 5 |

How they fit together. `InboxStore` implements `AtomicInbox` (`StoreIsAtomic`,
an `INSTANCE` with `content <- file` and a file that counts as readable while
its writer holds the mutex). `MessageWorker` is written at the level of
`AtomicInbox`: each access to the inbox is one step, which takes effect, refuses
(a lock file that was left behind, a disk error, an inbox that does not parse) or
spoils the file. In `MessageWorker` the outbox never fails and is resent in one
step; `Outbox` opens that step up, and takes `process` to be a run that starts
again after a crash, which `MessageWorker` shows. `BackgroundPool` leaves open
how an iteration ends; `RalphLoop` says it. Both leave the outcome of a request
to the user, the timer and the context; `Approvals` has the map and the
channels, for ids of messages and of tasks together because the handler picks
the map by the prefix of the id. `Projects` and `ProjectSessions` split the
manager: who is billed and where, and which conversation goes on. All but
`Instances` model one process, which is what `Instances` is about.

Abstractions. A message is an identifier; its text and result are not modelled.
Time is whether a message is older than `MESSAGE_TTL_MINUTES` (`old`) and a lock
file younger than `LOCK_TIMEOUT_MINUTES`. A CLI run ends with an answer, with
permission denials, or with an error whose text names a signal or does not.
Denial, timeout, cancelled context and failed send of an approval request lead
to the same code in `process`, so they are one action there and different ones
in `Approvals`. `UpdateInbox` of `InboxStore` is represented by a change of one
message (`close`), an append and `/clear`; the worker's callbacks change several
messages under the same critical section. `AppendToInbox` of an id that is
already there does not occur because ids come from a counter. Ledgers hold sets
of runs, not sums, so that billing a run twice shows. The CLI resumes the
session it is given and may report any session (`Reported`); a refused or lost
send to Telegram may still have arrived.

History variables. `story` in `RalphLoop` and `ProjectSessions`, `homes`,
`unsaved` and `unread` in `Projects`, `copies`, `dropped` and the counts of faults
in `Outbox`, `overlap` and `returned` in `Instances`, `delivered`, `missed` and
`faults` in `MessageWorker`, `stuck` in `InboxStore` record what has happened. No
guard reads them except to bound the faults, and `stuck`, which says that a lock
file is old enough to age (`LockAges`) because no call is using it.

## 3. The runs

| Run | Checks | Instance and why it is enough |
|---|---|---|
| `restarts` | `SingleFlight`, `FailedIsDeliberate` | two messages and a queue of one: one is in the worker's hands while the other is queued, refused by a full queue, offered twice, cancelled, retried, cleared; one crash or shutdown at any point, with and without a lock file left behind or a torn inbox. The retry limit is 0: the limit is reached by every error, and `settles_restarts` has a retry |
| `settles_restarts` | `ProcessingOwned`, `NoLostResult`, `Settles` | one message, a retry and any two of crash, shutdown, disk error and lock file that could not be removed: a failing status write and then a crash, a crash and a recovery that cannot write, a crash during recovery, a torn inbox |
| `pool` | `SlotAccounting`, `Reachable`, `ClosedStops`, `TableOK`, `InjectIsFinal`, `SlotFreed`, `StopReturns` | a research task and a two-iteration loop on one slot: the second submission is refused or follows; cancel, cleanup and shutdown hit every step |
| `store` | `LockIsReleased`, `StoreIsAtomic`, `CallsReturn` | three goroutines (one inside, two waiting), two messages, unbounded crashes and disk errors in every step |
| `approvals` | `IInv`, `AnswerKept`, `AnswerIsAwaited`, `RequestsEnd`, `HandlersReturn` | a message and a loop asking twice each: an old keyboard of each is tapped while the next request is open; two taps race for one channel; one restart redelivers a tap |
| `projects` | `IInv`, `BilledToOwn`, `RestartKeepsProjects` | default and two names, a message and a task, four executors: a project is removed and made again under a run, switched under a message, renamed under a task, and lost with a torn file or a read error |
| `sessions` | `IInv`, `SessionsStayHome`, `NewIsFresh`, `ApprovalContinues` | two projects, two sessions, lists of one: a list overflows, a handler stops between lookup and change, any number of runs, commands and restarts |
| `ralph` | `CostStops`, `PermissionIsFresh`, `StaysInWorktree` | up to four iterations (a stall would need three), costs from 0 to the limit, so that the limit is met, hit and passed; every number a user may write on either side of the bounds |
| `outbox` | `IInv`, `RecordedIsSafe`, `WholeCopies`, `Delivered`, `WorkerReturns` | two answers of two chunks, so that an entry is appended while another is sent and a second chunk fails; any number of refused chunks, one fault of the others |
| `instances` | `OneActive`, `FileNamesActive`, `StaleIsUnclean` | four starts: one works, one ends it, one overlaps, one comes after |

Bounds. `MaxRestarts` and `MaxCrashes` count crashes and shutdowns in a
behaviour, `MaxFaults` failing writes (in `Outbox` lost replies and crashes as
well; in `MessageWorker` every fault of a kind in `Faults`), `MaxRequests`, `MaxTaps` and
`MaxObjects` cap what users do. `MaxRetryCount`, `QueueSize`, `MaxSlots`, `MaxIterations`, `MaxListed`, `MaxAllowed`, `Limit` and
`Chunks` are parameters of the program set small. `Commands` says which commands
the user types. Deadlock checking is off where the system may really rest: all
messages closed, a loop ended, or the process gone.

`Settles` is checked with one message, so the full queue occurs in `restarts`
only; that two messages compete for a slot without losing a mark is
`SingleFlight`. The proofs of `ProcessingOwned` and `NoLostResult` hold for any
number of messages.

### Where the documentation and the code differ

Two runs check one sentence of the documentation each, and TLC finds it
violated.

| Run | Sentence | What happens |
|---|---|---|
| `stale_offer` | README: `sent` ends the lifecycle | a message is offered from an old copy of the inbox after it was finished: it is run and delivered again |
| `two_instances` | config.go and README: one instance at a time | two starts that both read `bot.pid` before either writes it both run |

Others follow from the definitions and have no run of their own:

- `updateInboxStatus` (worker.go:523) drops the error of the store. One failed
  write (a disk error, an inbox that does not parse, a lock file left behind)
  leaves a message in `processing` although it was answered or failed, and only
  the next start reopens it and runs it again. `RecoverStale` (worker.go:287)
  ignores the same error, and then `processing` stays for the whole life of the
  process. README:228-239 knows no such state. `ProcessingOwned` and `Settles`
  name this case (`missed`, `torn`) and say that it is the only one.
- The lock file outlives its call when `os.Remove` fails (store.go:60): every
  write of the next `LOCK_TIMEOUT_MINUTES` fails (`stuck`, `LockStays`).
- `/cancel` while a permission request is open sends the partial answer and
  records `sent` (README:421 says `failed`); the pool does the same.
- A run ended by the shutdown is counted as a retry when its error text does not
  name a signal (worker.go:205 says restart kills are not counted).
- `Wait` (background.go:423) may return before a task just submitted starts,
  because `wg.Add` comes after the mutex was released; the task is cancelled by
  then (`ClosedStops`).
- "Auto-retry up to 2x" in the README is `MAX_RETRY_COUNT`, three by default.
- A keyboard whose text says "Expires in 2 min" (approval.go:98, README:410) can
  decide a later request of the same id: `ResolveApproval` finds the channel by the
  id alone, and nothing removes the buttons when the time is up. An expired one
  says "Approved" when it is tapped, whether somebody waits or not.
  `AnswerIsAwaited` and `PermissionIsFresh` state what is left: the tap was handled
  while the request it decides was open.
- Costs are tracked by project (README:40, README:261), but `TrackUsage`
  (manager.go:370) bills a foreground run to the project that is active when the
  run ends: a switch during the run moves its cost to the other project, and a
  switch between an approval and the second phase moves the run itself
  (`touched`). A task whose project was removed and added again is billed to the
  new one. `BilledToOwn` states what is left: each answered run is billed once, to
  a ledger that was the active project's, or the one under the task's name, at
  some time since its phase began. The cost of a run that was refused or failed,
  and of a first phase that was denied, is billed to nobody.
- Projects survive restarts (README:298), unless `NewManager` cannot read
  `projects.json`: it takes any error for a missing file and writes the default
  project over an intact one (manager.go:65, manager.go:86; `unread`).
- A run that ends after `/new` brings the closed session back (`revived`).
- Switching projects resets the session cost of the project switched to.
- The stall detection (README:375, CHANGELOG:21) never stops a loop. The counter
  grows only when an iteration used no tool (ralph.go:180), and an iteration that
  used no tool ends the loop as completed (ralph.go:191) before the counter is
  looked at. `Settle` of
  `RalphLoop` has the branch; no property is stated, because none the code keeps
  would tell a reader that the detection works.
- A loop leaves its worktree when no run of the first iteration reports a
  session (`StaysInWorktree` excuses it).
- `--max` with a number over the limit becomes the default and not the limit:
  `ParseRalphArgs` drops it before `SubmitRalph` can clamp it.
- An `outbox.json` torn by a crash is never repaired; answers recorded as `done`
  stay in it (`torn` in `RecordedIsSafe` and `Delivered`).

## 4. Fairness

Weak fairness is assumed of what the Go runtime, timers and timeouts drive, and
of nothing else, except where named.

- `MessageWorker`: the worker goroutine (the CLI ends by `CLAUDE_TIMEOUT_SECONDS`,
  an approval request after two minutes), the handler's `Enqueue`, each offer of
  the poller and its ticker, the retry ticker, and time (`AgeMessage`,
  `LockAges`). Users, crashes, shutdowns and starts owe nothing. `AgeMessage`
  stands for a positive `MESSAGE_TTL_MINUTES`: with 0 a run that is killed by a
  signal for ever is retried for ever, and `Settles` does not hold.
- `BackgroundPool`: each goroutine, a submission that has begun, the second half
  of `Cancel`, and `wg.Wait`.
- `InboxStore`: a goroutine inside the critical section, and strong fairness of
  entering it, because `sync.Mutex` hands over to a starved waiter.
- `Approvals`: each requester (its timer fires) and each tap (Telegram delivers
  what it holds, the handler runs). Nobody has to ask, tap or crash.
- `Outbox`: the worker's sends and records and the poller's ticker; strong
  fairness of `AppendOutbox`, for the same reason as in `InboxStore`, since the
  poller takes the mutex again and again; strong fairness of sending a chunk,
  which says that Telegram does not refuse one chunk for ever. `WorkerReturns`
  needs the first, `Delivered` the second.

`Settles` excuses a message whose process goes down (nobody has to start it
again; when somebody does, the promise begins anew), an inbox that does not parse
(nothing repairs it), and a message in `processing` whose status the worker, or
this start, tried to write and could not.

## 5. The proofs

Everything below holds for any set of messages, tasks, goroutines or processes
and any value of the limits and costs; the only assumptions are the `ASSUME`s of
the modules (`NoMsg` is not a message, `None` not a goroutine, an answer or an
executor, `Fresh` not a session, `NoPid` not a process, limits are natural
numbers, the sets of tasks and of project names are finite, "default" is a name,
no message is a task). The inductive invariants were checked by
TLC before they were proved; those of `Approvals`, `Projects`, `ProjectSessions` and
`Outbox` stay in the runs as `IInv`.

**MessageWorkerProofs.** `TypeCorrect`, `SingleFlightCorrect`, `InvariantHolds`,
`ProcessingOwnedCorrect`, `NoLostResultCorrect`, `FailedIsDeliberateCorrect`.
`SingleFlight` is inductive with the types once it is known that a resting
worker holds nothing (`RestOK`); it rests on three lemmas on the queue (what
append and tail do to its range and its injectivity). `NoLostResult` is not
inductive: recording `sent` is right only because `verdict = "sent"` implies the
message was delivered (`VerdictOK`). `ProcessingOwned` needs that a
worker at rest holds no message and that a process that is down holds nothing
(`MemoryOK`); every access that may fail is a case of its own, and the case that
fails puts the message into `missed` exactly when it is in `processing`. Each
invariant has a lemma per group of actions. `FailedIsDeliberate` is an action
property that follows from `IInv`, the part that a cancellation flag is set only
while a message is in the worker's hands (`MemoryOK`) included.

**BackgroundPoolProofs.** `TypeCorrect`, `InvariantHolds`,
`SlotAccountingCorrect`, `ReachableCorrect`, `ClosedStopsCorrect`,
`TableOKCorrect`, `InjectIsFinalCorrect`. `TableOK` is the strengthening: a task
enters the table with a slot, a goroutine that is done leaves no active entry,
and a result is only stored when no later step can reopen the task. The
goroutine's fourteen actions fall into those that touch nothing shared, those
that set a state, and three others, and there is a lemma for each kind. The
bound on the slots is separate because it needs cardinalities.

**RalphLoopProofs.** `Invariance`, `CostIsBounded`, `FreshPermission`,
`Isolation`. The three properties are not inductive by themselves.
`RequestOK` ties the channel to the request that is open and to what a handler has
in its hand: an answer in the channel was tapped while this very
request was open. `CountersOK` says that what a loop that goes on spent beyond what
it recorded is at most one run for each iteration, this one not counted while its
first run is under way. `PlaceOK` follows the session from the worktree
through the reports of the runs.

**ProcessProofs.** What one process leaves to the next. On `Projects`:
`ProjectsInvariance`, `CostsReachOwnLedger`, `ProjectsSurvive`. `BilledToOwn`
speaks of runs that are billed, and needs `RunsOK` for those that are not yet: the
ledger a run under way would be billed to now is among its `homes`. Every command
that moves the table must keep this, the rename under a task included, because
the ledger is found by the name or by what is active at the end.
`TableOK`, a part of the invariant, is that no lookup finds a nil executor. That
`NewManager` can give each project an executor of its own is a bijection between
finite sets. On `Instances`: `StartsInvariance`, `OneAtATime`, `FileIsRight`,
`StaleFile`, with `InTurn` as the strengthening: without an overlap at most one
start is under way, whoever is up is named by the file, and is then the target of
that start until it has been killed; removal and write come after the kill, so
nobody else is up. It is `OneAtATime` that lets the `Restart` of `Projects`, and
the restarts of the other modules, be one step.

**InboxStoreProofs.** `InvariantHolds`, `LockIsReleasedCorrect`,
`StoreIsAtomicCorrect`. `SectionOK` says that only the owner of the mutex is in
the critical section and that its copy is the file. Every step then is a stutter
of `AtomicInbox` or one of its actions: a call is decided where it fails, where
its callback changes nothing, or where its write ends. `LockIsReleased` is of the
process that runs: what a crash leaves is `"left"`, and what a failing `os.Remove`
leaves is named by `stuck`.

**ApprovalsProofs.** `Invariance`, `EntriesAreOwned`, `AnswersAreKept`,
`AnswersAreAwaited`. Who gets an answer depends on what the handlers in flight
hold: `TapsOK` says that a handler posts to a request that was made, `ChannelsOK`
that an answer in a channel was put there by a handler that is done and had loaded
this channel, under its own id. `FutureOK` says that nothing is known of a request
before it is made. `AnswersAreAwaited` is an action property: `EntryOwned` makes
the channel a handler finds that of the request in progress, and `ChannelsOK`
brings this to the step that takes the answer.

**ProjectSessionsProofs.** `Invariance`, `ProjectsKeepTheirSessions`,
`NewStartsFresh`, `ApprovalsContinue`. The properties are about executors, and it
is the run under way that could break them when it ends. `RunOK` says that the
session it was given belongs to its executor and, if `/new` closed it last, that
the run is known to be late or the session was back before; `PhasesOK` that until
the user interferes the run's project is the active one, and the session its
first phase ended with the current one. `StepsOK` says the like of handlers that
have looked up an executor and not changed it yet. What `Track` puts in a list,
drops and keeps are lemmas on ranges of sequences.

**OutboxProofs.** `Invariance`, `NoAnswerIsLost`, `CopiesAreBounded`. `PollerOK`
says why the poller's stale-looking copy is safe to write back: while it holds
the mutex nobody else writes, and the copy differs from the file only in entries
it has sent. The bound on copies is proved by a potential (`CopiesOK`): the
copies of an answer, the entries of it that are still due and the run that may
still send it are together at most (1 + crashes)(1 + faults). A sending
turns one due entry into one copy; only a fault raises the sum, and a crash
raises it by at most the number of entries that are due again. That the poller's
next entry is the first one due is a minimum of a set of indices, which is where
the well-foundedness theorems come in.

Only model-checked: liveness (`Settles`, `SlotFreed`, `StopReturns`,
`CallsReturn`, `RequestsEnd`, `HandlersReturn`, `Delivered`, `WorkerReturns`),
which is outside the reach of the prover. Every safety invariant and action
property of a passing run has a theorem.

## 6. Not modelled, and the plan

In the order in which they will be added:

1. Pure operators against a reference: `splitMessage` (chunks of at most the
   limit, which together are the text) and the stream parser's choice of the
   result.
2. Two processes on one lock file, after the overlap of `Instances`.

Not planned: Markdown, status, help and usage texts, logging, media download,
model names and session names (labels no decision depends on; `/new` leaves the
name of the closed session in place), the older formats of `outbox.json`, the
Telegram and CLI protocols (their outcomes are choices of the environment); a
stale `bot.pid` that names the pid the new process was given itself, or that
cannot be read or parsed; a lock file that cannot be read, which `acquireLock`
takes for none. When
all ten handlers are busy the listener runs the next one itself: the models have
handlers start at any time, late ones included. The order of handlers, and of
the chunks of two answers sent at a time, is left open in the models as it is in
the program.
