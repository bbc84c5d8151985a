------------------------------- MODULE Outbox -------------------------------
(***************************************************************************)
(* The way of an answer to the chat.  The worker sends it in chunks; when  *)
(* a chunk fails the whole answer goes to outbox.json, and a poller        *)
(* resends what that file still shows as done.  Both update the file under *)
(* outboxMu, and the poller keeps the mutex while it sends.  Telegram may  *)
(* refuse a chunk, or take it and lose the reply; a write of the file may  *)
(* fail, or leave it unreadable; the process may die between any two       *)
(* steps.  MessageWorker takes this module's AppendOutbox as never failing *)
(* and its sends as one step each.                                         *)
(***************************************************************************)
EXTENDS Naturals, Sequences, FiniteSets

CONSTANTS
    Answers,    \* the answers to deliver, one for each message
    Chunks,     \* chunks splitMessage makes of an answer
    MaxFaults   \* bound: lost replies, failed writes and crashes together

ASSUME BoundsAssumption == Chunks \in Nat \ {0} /\ MaxFaults \in Nat

None == "none"
ASSUME NoneAssumption == None \notin Answers

VARIABLES
    file,       \* outbox.json: its entries
    torn,       \* outbox.json cannot be parsed
    inbox,      \* the status recorded for the message of an answer
    up,
    mu,         \* who holds outboxMu between two steps
    worker,     \* sendAndRecord: where it is, with which answer and chunk
    poller,     \* processOutbox: where it is, its copy of the file, entry and chunk
    \* what has happened
    copies,     \* how often the last chunk of an answer arrived
    lost,       \* replies of Telegram that were lost
    bad,        \* writes of the file that failed
    crashes,
    dropped     \* answers whose entry could not be written

faults == <<lost, bad, crashes>>
vars   == <<file, torn, inbox, up, mu, worker, poller, copies, faults, dropped>>

Idle == [at |-> "idle", ans |-> None, chunk |-> 0, verdict |-> None]
Rest == [at |-> "idle", copy |-> <<>>, next |-> 0, chunk |-> 0, changed |-> FALSE]

Init ==
    /\ file = <<>> /\ torn = FALSE
    /\ inbox = [a \in Answers |-> "processing"]
    /\ up = TRUE /\ mu = None
    /\ worker = Idle /\ poller = Rest
    /\ copies = [a \in Answers |-> 0]
    /\ lost = 0 /\ bad = 0 /\ crashes = 0 /\ dropped = {}

Spare == lost + bad + crashes < MaxFaults

-----------------------------------------------------------------------------
(* Telegram and the file                                                   *)

Arrived(a, chunk) ==
    copies' = IF chunk = Chunks THEN [copies EXCEPT ![a] = @ + 1] ELSE copies

\* api.Send returns without an error.
Accepted(a, chunk) == Arrived(a, chunk) /\ UNCHANGED faults

\* api.Send returns an error: the chunk did not arrive, or only the reply is lost.
Rejected(a, chunk) ==
    \/ UNCHANGED <<copies, faults, dropped>>
    \/ Spare /\ Arrived(a, chunk) /\ lost' = lost + 1 /\ UNCHANGED <<bad, crashes>>

\* writeOutbox, whose error nobody looks at: os.WriteFile replaces the file, or
\* fails before it truncates it, or after.
Write(entries) ==
    \/ file' = entries /\ UNCHANGED <<torn, bad>>
    \/ Spare /\ bad' = bad + 1 /\ file' = file /\ torn' \in BOOLEAN

-----------------------------------------------------------------------------
(* The worker: sendAndRecord and SendMessage                               *)

\* process, for the first time or again after a crash.
Deliver(a) ==
    /\ up /\ worker.at = "idle" /\ inbox[a] = "processing"
    /\ worker' = [Idle EXCEPT !.at = "sending", !.ans = a, !.chunk = 1]
    /\ UNCHANGED <<file, torn, inbox, up, mu, poller, copies, faults, dropped>>

\* Mutant: the loop runs past the last chunk.
SendOneMore ==
    /\ up /\ worker.at = "sending"
    /\ Accepted(worker.ans, worker.chunk)
    /\ worker' = IF worker.chunk <= Chunks THEN [worker EXCEPT !.chunk = @ + 1]
                 ELSE [worker EXCEPT !.at = "boxing", !.verdict = "sent"]
    /\ UNCHANGED <<file, torn, inbox, up, mu, poller, dropped>>

SendChunk ==
    /\ up /\ worker.at = "sending"
    /\ \/ /\ Accepted(worker.ans, worker.chunk)
          /\ worker' = IF worker.chunk < Chunks THEN [worker EXCEPT !.chunk = @ + 1]
                       ELSE [worker EXCEPT !.at = "boxing", !.verdict = "sent"]
       \/ /\ Rejected(worker.ans, worker.chunk)
          /\ worker' = [worker EXCEPT !.at = "boxing", !.verdict = "done"]
    /\ UNCHANGED <<file, torn, inbox, up, mu, poller, dropped>>

\* Read, change and write in one critical section; a file that cannot be parsed
\* is left alone and the error is ignored.
AppendOutbox ==
    /\ up /\ worker.at = "boxing" /\ mu = None
    /\ IF torn THEN UNCHANGED <<file, torn, bad>>
       ELSE Write(Append(file, [id |-> worker.ans, status |-> worker.verdict]))
    /\ dropped' = IF file' = file THEN dropped \union {worker.ans} ELSE dropped
    /\ worker' = [worker EXCEPT !.at = "recording"]
    /\ UNCHANGED <<inbox, up, mu, poller, copies, lost, crashes>>

Record ==
    /\ up /\ worker.at = "recording"
    /\ inbox' = [inbox EXCEPT ![worker.ans] = worker.verdict]
    /\ worker' = Idle
    /\ UNCHANGED <<file, torn, up, mu, poller, copies, faults, dropped>>

-----------------------------------------------------------------------------
(* The poller: processOutbox inside UpdateOutbox                           *)

\* The next entry from i on that is still to be sent, or the end.
NextDone(entries, i) ==
    LET due == {j \in i .. Len(entries) : entries[j].status = "done"}
    IN IF due = {} THEN Len(entries) + 1 ELSE CHOOSE j \in due : \A k \in due : j <= k

At(copy, changed, i) ==
    [at |-> "sending", copy |-> copy, changed |-> changed, chunk |-> 1,
     next |-> NextDone(copy, i)]

\* Mutant: the mutex is not kept while the entries are sent.
PollUnlocked ==
    /\ up /\ poller = Rest /\ mu = None /\ ~torn
    /\ poller' = At(file, FALSE, 1)
    /\ UNCHANGED <<file, torn, inbox, up, mu, worker, copies, faults, dropped>>

Poll ==
    /\ up /\ poller = Rest /\ mu = None /\ ~torn
    /\ mu' = "poller" /\ poller' = At(file, FALSE, 1)
    /\ UNCHANGED <<file, torn, inbox, up, worker, copies, faults, dropped>>

Sending(a, chunk) ==
    /\ up /\ poller.at = "sending" /\ poller.next <= Len(poller.copy)
    /\ poller.copy[poller.next].id = a /\ poller.chunk = chunk

\* Mutant: the entry keeps its status.
ResendKeepsDone(a, chunk) ==
    /\ Sending(a, chunk) /\ Accepted(a, chunk)
    /\ poller' = IF chunk < Chunks THEN [poller EXCEPT !.chunk = chunk + 1]
                 ELSE At(poller.copy, TRUE, poller.next + 1)
    /\ UNCHANGED <<file, torn, inbox, up, mu, worker, dropped>>

Resend(a, chunk) ==
    /\ Sending(a, chunk) /\ Accepted(a, chunk)
    /\ poller' = IF chunk < Chunks THEN [poller EXCEPT !.chunk = chunk + 1]
                 ELSE At([poller.copy EXCEPT ![poller.next].status = "sent"], TRUE,
                         poller.next + 1)
    /\ UNCHANGED <<file, torn, inbox, up, mu, worker, dropped>>

\* Mutant: the entry counts as sent although a chunk failed.
SkipMarks(a, chunk) ==
    /\ Sending(a, chunk) /\ Rejected(a, chunk)
    /\ poller' = At([poller.copy EXCEPT ![poller.next].status = "sent"], TRUE, poller.next + 1)
    /\ UNCHANGED <<file, torn, inbox, up, mu, worker, dropped>>

\* A failing entry is left for the next pass, from its first chunk.
Skip(a, chunk) ==
    /\ Sending(a, chunk) /\ Rejected(a, chunk)
    /\ poller' = At(poller.copy, poller.changed, poller.next + 1)
    /\ UNCHANGED <<file, torn, inbox, up, mu, worker, dropped>>

\* Mutant: a pass that changed nothing returns without unlocking.
FinishLocked ==
    /\ up /\ poller.at = "sending" /\ poller.next > Len(poller.copy)
    /\ IF poller.changed THEN Write(poller.copy) /\ mu' = None
                         ELSE UNCHANGED <<file, torn, bad, mu>>
    /\ poller' = Rest
    /\ UNCHANGED <<inbox, up, worker, copies, lost, crashes, dropped>>

Finish ==
    /\ up /\ poller.at = "sending" /\ poller.next > Len(poller.copy)
    /\ IF poller.changed THEN Write(poller.copy) ELSE UNCHANGED <<file, torn, bad>>
    /\ mu' = None /\ poller' = Rest
    /\ UNCHANGED <<inbox, up, worker, copies, lost, crashes, dropped>>

-----------------------------------------------------------------------------
\* Only the files are left; inbox.json makes the interrupted run start again.
Crash ==
    /\ up /\ Spare
    /\ crashes' = crashes + 1
    /\ up' = FALSE /\ mu' = None /\ worker' = Idle /\ poller' = Rest
    /\ UNCHANGED <<file, torn, inbox, copies, lost, bad, dropped>>

Boot ==
    /\ ~up /\ up' = TRUE
    /\ UNCHANGED <<file, torn, inbox, mu, worker, poller, copies, faults, dropped>>

Worker == (\E a \in Answers : Deliver(a)) \/ SendChunk \/ AppendOutbox \/ Record

Poller ==
    \/ Poll \/ Finish
    \/ \E a \in Answers, chunk \in 1 .. Chunks : Resend(a, chunk) \/ Skip(a, chunk)

Next == Worker \/ Poller \/ Crash \/ Boot

Spec == Init /\ [][Next]_vars

(***************************************************************************)
(* Fairness.  The goroutines run and calls of Telegram return; a waiter    *)
(* gets Go's mutex although the poller takes it again and again; a chunk   *)
(* that is tried again and again gets through.  Nothing crashes, or        *)
(* starts, by necessity.                                                   *)
(***************************************************************************)
Fairness ==
    /\ WF_vars(SendChunk) /\ SF_vars(AppendOutbox) /\ WF_vars(Record)
    /\ WF_vars(Poller)
    /\ \A a \in Answers, chunk \in 1 .. Chunks : SF_vars(Resend(a, chunk))

FairSpec == Spec /\ Fairness

-----------------------------------------------------------------------------
(* Properties                                                              *)

Entry   == [id : Answers, status : {"done", "sent"}]
Entries == Seq(Entry)

\* The entries of an answer that are still to be sent.
Due(entries, a) == {i \in 1 .. Len(entries) : entries[i] = [id |-> a, status |-> "done"]}

InFile(a) == Due(file, a) # {}

Senders == [at : {"idle", "sending", "boxing", "recording"},
            ans : Answers \union {None}, chunk : 0 .. Chunks,
            verdict : {None, "done", "sent"}]
Pollers == [at : {"idle", "sending"}, copy : Entries, next : Nat,
            chunk : 0 .. Chunks, changed : BOOLEAN]

TypeOK ==
    /\ file \in Entries /\ torn \in BOOLEAN /\ up \in BOOLEAN
    /\ inbox \in [Answers -> {"processing", "done", "sent"}]
    /\ mu \in {None, "poller"}
    /\ worker \in Senders
    /\ poller \in Pollers /\ poller.next <= Len(poller.copy) + 1
    /\ copies \in [Answers -> Nat]
    /\ lost \in Nat /\ bad \in Nat /\ crashes \in Nat
    /\ lost + bad + crashes <= MaxFaults /\ dropped \subseteq Answers

\* An answer inbox.json shows as sent has arrived; one it shows as done has, or
\* the outbox still shows it as done: neither the other user of the file nor a
\* crash loses an entry.  It is lost only if its own entry could not be written,
\* or the file became unreadable, which nothing in the program repairs.
RecordedIsSafe ==
    \A a \in Answers :
        /\ inbox[a] = "sent" => copies[a] > 0
        /\ inbox[a] = "done" => copies[a] > 0 \/ InFile(a) \/ torn \/ a \in dropped

Bound(ends, all) == (1 + ends) * (1 + all)

\* Without a crash an answer arrives whole once, and once more at most for each
\* lost reply and failed write: refused chunks alone never double it.  Each crash
\* may leave one entry more, as the run starts again, and makes the poller send
\* once more what it had sent and not written.
WholeCopies ==
    \A a \in Answers : copies[a] <= Bound(crashes, lost + bad + crashes)

\* An entry that is done gets through, while the process lives and the file can
\* be read, whatever was refused before.
Delivered ==
    \A a \in Answers : InFile(a) ~> copies[a] > 0 \/ torn \/ ~up

\* sendAndRecord ends: the poller, which keeps the mutex through all its sends,
\* does not keep the worker from the outbox for good.
WorkerReturns == worker.at # "idle" ~> worker.at = "idle"

-----------------------------------------------------------------------------
(* The inductive invariant                                                 *)

\* A run is on a message inbox.json shows as processing, and has its verdict once
\* it is through: sent only if the last chunk arrived, and done, once it has
\* written, only if the entry is safe.
WorkerOK ==
    IF worker.at = "idle" THEN worker = Idle
    ELSE /\ worker.ans \in Answers /\ inbox[worker.ans] = "processing"
         /\ worker.at = "sending" => worker.chunk > 0 /\ worker.verdict = None
         /\ worker.at # "sending" => worker.verdict # None
         /\ worker.verdict = "sent" => copies[worker.ans] > 0
         /\ worker.at = "recording" /\ worker.verdict = "done" =>
               \/ copies[worker.ans] > 0 \/ InFile(worker.ans)
               \/ torn \/ worker.ans \in dropped

\* The poller holds the mutex over a readable file that nobody else changes, and
\* its copy differs from it only in entries it has sent.
PollerOK ==
    IF poller.at = "idle" THEN poller = Rest /\ mu = None
    ELSE /\ mu = "poller" /\ ~torn /\ poller.next > 0 /\ poller.chunk > 0
         /\ Len(poller.copy) = Len(file)
         /\ \A i \in 1 .. Len(file) :
               \/ poller.copy[i] = file[i]
               \/ /\ poller.copy[i].id = file[i].id /\ poller.copy[i].status = "sent"
                  /\ copies[file[i].id] > 0
         /\ ~poller.changed => poller.copy = file
         /\ poller.next <= Len(poller.copy) => poller.copy[poller.next].status = "done"

\* What the poller goes by, and one run of a message that may still send.
View == IF poller.at = "sending" THEN poller.copy ELSE file
Pending(a) ==
    IF \/ inbox[a] # "processing"
       \/ worker.ans = a /\ (worker.at = "recording" \/ worker.verdict = "sent")
    THEN 0 ELSE 1

\* A sending takes one of the copies that are still to come, and only a fault
\* brings new ones: each crash one run more, and each fault every entry of the
\* file again.
CopiesOK ==
    \A a \in Answers :
        /\ Cardinality(Due(file, a)) + Pending(a) <= 1 + crashes
        /\ copies[a] + Cardinality(Due(View, a)) + Pending(a) <= Bound(crashes, lost + bad + crashes)

\* The invariants together with what makes them inductive.
IInv ==
    /\ TypeOK /\ RecordedIsSafe
    /\ WorkerOK /\ PollerOK /\ CopiesOK

=============================================================================
