----------------------------- MODULE InboxStore ------------------------------
(***************************************************************************)
(* How store.go does it: inboxMu serialises the goroutines of the process; *)
(* a writing call also takes the lock file, reads inbox.json, applies its  *)
(* change to the copy and rewrites the whole file with os.WriteFile, which *)
(* truncates it first.  The process can be killed, and the disk can fail,  *)
(* between any two of these steps.                                         *)
(***************************************************************************)
EXTENDS Naturals

CONSTANTS Clients, Msgs, None

ASSUME ClientsAssumption == None \notin Clients

VARIABLES
    file,   \* what the last complete write of inbox.json put there
    torn,   \* inbox.json is truncated: it does not parse
    lock,   \* inbox.lock: "none", "torn" (truncated), "held" (stamped in this life
            \* of the process), "left" (stamped by a dead process), both younger than
            \* lockTimeout, or "stale"
    stuck,  \* history: the last releaseLock could not remove that file
    mutex,  \* the owner of inboxMu, or None
    pc,     \* where each client is
    op,     \* its call
    copy,   \* the InboxFile it read
    reply   \* the error or nil it is about to return

vars == <<file, torn, lock, stuck, mutex, pc, op, copy, reply>>

\* The content of an unreadable file is kept in "file", but nobody can read it.
\* While a write is in progress nobody else can look: it counts as readable.
A == INSTANCE AtomicInbox
        WITH content <- file,
             readable <- ~torn \/ \E c \in Clients : pc[c] = "writing"

Empty == [m \in Msgs |-> "absent"]

InSection == {"entered", "locking", "locked", "apply", "writing", "release", "leaving"}

Init ==
    /\ file = Empty /\ torn = FALSE
    /\ lock = "none" /\ stuck = FALSE /\ mutex = None
    /\ pc = [c \in Clients |-> "idle"]
    /\ op = [c \in Clients |-> A!NoOp]
    /\ copy = [c \in Clients |-> Empty]
    /\ reply = [c \in Clients |-> "none"]

-----------------------------------------------------------------------------
At(c, p)    == pc[c] = p
Goto(c, p)  == pc' = [pc EXCEPT ![c] = p]
Reply(c, r) == reply' = [reply EXCEPT ![c] = r]

Fresh(m) ==
    file[m] = "absent" /\ \A c \in Clients : op[c] # [kind |-> "append", msg |-> m]

Call(c) ==
    /\ At(c, "idle")
    /\ \E o \in A!Ops : /\ o.kind = "append" => Fresh(o.msg)
                        /\ op' = [op EXCEPT ![c] = o]
    /\ Goto(c, "waiting")
    /\ UNCHANGED <<file, torn, lock, stuck, mutex, copy, reply>>

\* Mutant: the mutex is not looked at.
EnterUnlocked(c) ==
    /\ At(c, "waiting")
    /\ mutex' = c
    /\ Goto(c, "entered")
    /\ UNCHANGED <<file, torn, lock, stuck, op, copy, reply>>

Enter(c) ==
    /\ At(c, "waiting") /\ mutex = None
    /\ mutex' = c
    /\ Goto(c, "entered")
    /\ UNCHANGED <<file, torn, lock, stuck, op, copy, reply>>

\* ReadInbox and GetInboxStats take the mutex only.  Any read may fail.
ReadOnly(c) ==
    /\ At(c, "entered") /\ op[c] \in A!Reads
    /\ \/ Reply(c, "error")
       \/ ~torn /\ Reply(c, "ok")
    /\ Goto(c, "leaving")
    /\ UNCHANGED <<file, torn, lock, stuck, mutex, op, copy>>

\* acquireLock: a fresh lock file is an error; a stale one or one that does not
\* parse is removed.  os.WriteFile creates the new one empty.
AcquireLock(c) ==
    /\ At(c, "entered") /\ op[c] \in A!Writes
    /\ IF lock \in {"held", "left"}
       THEN Reply(c, "error") /\ Goto(c, "leaving") /\ UNCHANGED lock
       ELSE lock' = "torn" /\ Goto(c, "locking") /\ UNCHANGED reply
    /\ UNCHANGED <<file, torn, stuck, mutex, op, copy>>

\* Then fills it; when that fails the lock file is not removed.
StampLock(c) ==
    /\ At(c, "locking")
    /\ \/ lock' = "held" /\ Goto(c, "locked") /\ UNCHANGED reply
       \/ UNCHANGED lock /\ Goto(c, "leaving") /\ Reply(c, "error")
    /\ UNCHANGED <<file, torn, stuck, mutex, op, copy>>

\* Mutant: the error path returns before the deferred release is registered.
ReadKeepsLock(c) ==
    /\ At(c, "locked")
    /\ \/ Reply(c, "error") /\ Goto(c, "leaving") /\ UNCHANGED copy
       \/ /\ ~torn /\ copy' = [copy EXCEPT ![c] = file]
          /\ Goto(c, "apply") /\ UNCHANGED reply
    /\ UNCHANGED <<file, torn, lock, stuck, mutex, op>>

Read(c) ==
    /\ At(c, "locked")
    /\ \/ Reply(c, "error") /\ Goto(c, "release") /\ UNCHANGED copy
       \/ /\ ~torn /\ copy' = [copy EXCEPT ![c] = file]
          /\ Goto(c, "apply") /\ UNCHANGED reply
    /\ UNCHANGED <<file, torn, lock, stuck, mutex, op>>

\* Nothing is written when the callback changed nothing, or when the file cannot be
\* opened for writing.
Apply(c) ==
    /\ At(c, "apply")
    /\ IF A!Effect(op[c], copy[c]) = copy[c]
       THEN Reply(c, "ok") /\ Goto(c, "release") /\ UNCHANGED torn
       ELSE \/ torn' = TRUE /\ Goto(c, "writing") /\ UNCHANGED reply
            \/ Reply(c, "error") /\ Goto(c, "release") /\ UNCHANGED torn
    /\ UNCHANGED <<file, lock, stuck, mutex, op, copy>>

Write(c) ==
    /\ At(c, "writing")
    /\ \/ /\ file' = A!Effect(op[c], copy[c]) /\ torn' = FALSE
          /\ Reply(c, "ok")
       \/ UNCHANGED <<file, torn>> /\ Reply(c, "error")
    /\ Goto(c, "release")
    /\ UNCHANGED <<lock, stuck, mutex, op, copy>>

\* releaseLock: when os.Remove fails the file stays, and the call returns as if
\* it had not.
ReleaseLock(c) ==
    /\ At(c, "release")
    /\ lock' \in {"none", lock}
    /\ stuck' = (lock' = lock)
    /\ Goto(c, "leaving")
    /\ UNCHANGED <<file, torn, mutex, op, copy, reply>>

\* Mutant: an error returns without unlocking.
LeaveKeepsMutex(c) ==
    /\ At(c, "leaving")
    /\ mutex' = IF reply[c] = "error" THEN mutex ELSE None
    /\ op' = [op EXCEPT ![c] = A!NoOp]
    /\ copy' = [copy EXCEPT ![c] = Empty]
    /\ Reply(c, "none")
    /\ Goto(c, "idle")
    /\ UNCHANGED <<file, torn, lock, stuck>>

Leave(c) ==
    /\ At(c, "leaving")
    /\ mutex' = None
    /\ op' = [op EXCEPT ![c] = A!NoOp]
    /\ copy' = [copy EXCEPT ![c] = Empty]
    /\ Reply(c, "none")
    /\ Goto(c, "idle")
    /\ UNCHANGED <<file, torn, lock, stuck>>

Section(c) ==
    \/ ReadOnly(c) \/ AcquireLock(c) \/ StampLock(c) \/ Read(c) \/ Apply(c)
    \/ Write(c) \/ ReleaseLock(c) \/ Leave(c)

-----------------------------------------------------------------------------
\* The steps of one call take no time against lockTimeout.
LockAges ==
    /\ lock = "left" \/ (lock = "held" /\ stuck)
    /\ lock' = "stale" /\ stuck' = FALSE
    /\ UNCHANGED <<file, torn, mutex, pc, op, copy, reply>>

\* Killed at any point and started again: the files stay as they are.
Crash ==
    /\ lock' = IF lock = "held" THEN "left" ELSE lock
    /\ stuck' = FALSE /\ mutex' = None
    /\ pc' = [c \in Clients |-> "idle"]
    /\ op' = [c \in Clients |-> A!NoOp]
    /\ copy' = [c \in Clients |-> Empty]
    /\ reply' = [c \in Clients |-> "none"]
    /\ UNCHANGED <<file, torn>>

Next ==
    \/ \E c \in Clients : Call(c) \/ Enter(c) \/ Section(c)
    \/ LockAges \/ Crash

Spec == Init /\ [][Next]_vars

(***************************************************************************)
(* Fairness.  A goroutine inside the critical section keeps running, and   *)
(* sync.Mutex hands the lock to the longest waiter once it has starved for *)
(* a millisecond.                                                          *)
(***************************************************************************)
FairSpec == Spec /\ \A c \in Clients : WF_vars(Section(c)) /\ SF_vars(Enter(c))

-----------------------------------------------------------------------------
(* Properties                                                              *)

TypeOK ==
    /\ file \in [Msgs -> A!Values] /\ torn \in BOOLEAN
    /\ lock \in {"none", "torn", "held", "left", "stale"} /\ stuck \in BOOLEAN
    /\ mutex \in Clients \union {None}
    /\ pc \in [Clients -> {"idle", "waiting"} \union InSection]
    /\ op \in [Clients -> A!Ops \union {A!NoOp}]
    /\ copy \in [Clients -> [Msgs -> A!Values]]
    /\ reply \in [Clients -> {"none", "ok", "error"}]

\* A lock file the process stamped, which makes every write fail until lockTimeout
\* has passed, is there only while one of its goroutines is between acquireLock
\* and releaseLock, or because os.Remove failed: no return path, not even that of
\* a read error or a failed write, leaves one behind by itself (the deferred
\* releaseLock of the four operations).
LockIsReleased ==
    lock = "held" =>
        \/ mutex # None /\ pc[mutex] \in {"locked", "apply", "writing", "release"}
        \/ stuck

\* The store implements the atomic inbox: calls of different goroutines do not
\* lose each other's updates, a call that returned an error did not change the
\* messages, no read sees a write in progress, and a truncated inbox.json is
\* never replaced by an empty one.
StoreIsAtomic == A!Spec

\* Every call returns unless the process dies: none waits for ever for inboxMu.
CallsReturn == \A c \in Clients : op[c] # A!NoOp ~> op[c] = A!NoOp

-----------------------------------------------------------------------------
(* The inductive invariant behind the refinement                           *)

\* Only the owner of the mutex is in the critical section, its copy is what the
\* file holds, and its call is decided exactly from "release" on, or "leaving".
SectionOK ==
    \A c \in Clients :
        /\ pc[c] \in InSection <=> mutex = c
        /\ pc[c] = "idle" <=> op[c] = A!NoOp
        /\ pc[c] \in {"locking", "locked", "apply", "writing", "release"} => op[c] \in A!Writes
        /\ pc[c] \in {"apply", "writing"} => copy[c] = file
        /\ pc[c] = "apply" => ~torn
        /\ pc[c] = "writing" => torn
        /\ reply[c] # "none" <=> pc[c] \in {"release", "leaving"}

IInv == TypeOK /\ SectionOK /\ LockIsReleased
=============================================================================
