------------------------------ MODULE Instances ------------------------------
(***************************************************************************)
(* Processes of the bot in one directory.  Each start reads bot.pid, ends  *)
(* the process it names (SIGTERM, two seconds, SIGKILL, one second),       *)
(* removes the file and writes its own pid; a process that ends by itself  *)
(* removes the file, whoever it names by then.  A signal that comes before *)
(* signal.Notify ends the process on the spot, as a failing bot.New and a  *)
(* crash do, and leaves the file behind.                                   *)
(* The definitions every specification has carry the word Starts here, so  *)
(* that ProcessProofs can extend this module and Projects.                 *)
(***************************************************************************)

CONSTANTS
    Procs,      \* processes, named by their pids
    NoPid       \* there is no bot.pid

ASSUME NoPidAssumption == NoPid \notin Procs

VARIABLES
    pidFile,    \* what bot.pid says
    life,       \* where each process is in main
    target,     \* the process a start is ending
    \* what has happened
    overlap,    \* two processes were in AcquirePIDFile at a time
    returned    \* processes whose main returned

startsVars == <<pidFile, life, target, overlap, returned>>

Acquiring == {"term", "kill", "remove", "write"}    \* in AcquirePIDFile, after the read
Active    == {"active", "running", "stopping"}      \* its goroutines work on the files
Alive     == {"started", "booting"} \union Acquiring \union Active
Lives     == {"none", "dead"} \union Alive

StartsInit ==
    /\ pidFile = NoPid
    /\ life = [p \in Procs |-> "none"] /\ target = [p \in Procs |-> NoPid]
    /\ overlap = FALSE /\ returned = {}

MoveTo(p, l) == life[p] # "none" /\ life' = [life EXCEPT ![p] = l]

-----------------------------------------------------------------------------
(* main and AcquirePIDFile                                                 *)

Start(p) ==
    /\ life[p] = "none"
    /\ life' = [life EXCEPT ![p] = "started"]
    /\ UNCHANGED <<pidFile, target, overlap, returned>>

\* A pid answers signal 0 if its process lives, or if the system has given it to
\* a stranger since.  Not modelled: a stale file that names the pid this process has
\* been given again, which it would end itself over, and a file that cannot be read
\* or holds no number, which the start passes by and replaces.
Read(p) ==
    /\ life[p] = "started"
    /\ target' = [target EXCEPT ![p] = pidFile]
    /\ overlap' = (overlap \/ \E q \in Procs : life[q] \in Acquiring)
    /\ IF pidFile = NoPid THEN MoveTo(p, "write")
       ELSE \/ MoveTo(p, "term")
            \/ life[pidFile] \notin Alive /\ MoveTo(p, "remove")
    /\ UNCHANGED <<pidFile, returned>>

\* SIGTERM ends a process that has not reached signal.Notify; one that is
\* stopping already takes no notice.
Terminated(l) ==
    IF l = "running" THEN "stopping"
    ELSE IF l \in Alive \ {"stopping"} THEN "dead" ELSE l

SendTerm(p) ==
    /\ life[p] = "term"
    /\ life' = [life EXCEPT ![p] = "kill", ![target[p]] = Terminated(@)]
    /\ UNCHANGED <<pidFile, target, overlap, returned>>

\* Mutant: the process is asked to end, and no more.
SendNoKill(p) ==
    /\ life[p] = "kill"
    /\ life' = [life EXCEPT ![p] = "remove"]
    /\ UNCHANGED <<pidFile, target, overlap, returned>>

\* After two seconds; what the process had left to do is not done.
SendKill(p) ==
    /\ life[p] = "kill"
    /\ life' = [life EXCEPT ![p] = "remove",
                            ![target[p]] = IF @ \in Alive THEN "dead" ELSE @]
    /\ UNCHANGED <<pidFile, target, overlap, returned>>

\* Mutant: the file of the process that was ended is kept, and this one does not
\* write its own: AcquirePIDFile returns once it has ended the other.
RemoveNothing(p) ==
    /\ life[p] = "remove"
    /\ MoveTo(p, "booting")
    /\ UNCHANGED <<pidFile, target, overlap, returned>>

Remove(p) ==
    /\ life[p] = "remove"
    /\ pidFile' = NoPid
    /\ MoveTo(p, "write")
    /\ UNCHANGED <<target, overlap, returned>>

Write(p) ==
    /\ life[p] = "write"
    /\ pidFile' = p /\ target' = [target EXCEPT ![p] = NoPid]
    /\ MoveTo(p, "booting")
    /\ UNCHANGED <<overlap, returned>>

\* bot.New reaches Telegram; RecoverStale and the goroutines start.
Boot(p) ==
    /\ life[p] = "booting"
    /\ MoveTo(p, "active")
    /\ UNCHANGED <<pidFile, target, overlap, returned>>

Notify(p) ==
    /\ life[p] = "active"
    /\ MoveTo(p, "running")
    /\ UNCHANGED <<pidFile, target, overlap, returned>>

\* Ctrl-C, or kill by hand.
Stop(p) ==
    /\ life[p] \in Alive \ {"stopping"}
    /\ MoveTo(p, Terminated(life[p]))
    /\ UNCHANGED <<pidFile, target, overlap, returned>>

\* Mutant: nothing removes the file.
ReturnKeepsFile(p) ==
    /\ life[p] = "stopping"
    /\ returned' = returned \union {p}
    /\ MoveTo(p, "dead")
    /\ UNCHANGED <<pidFile, target, overlap>>

\* Shutdown and Stop are done: the deferred os.Remove, and the end.
MainReturns(p) ==
    /\ life[p] = "stopping"
    /\ pidFile' = NoPid /\ returned' = returned \union {p}
    /\ MoveTo(p, "dead")
    /\ UNCHANGED <<target, overlap>>

\* os.Exit(1) after a failing bot.New or write, a crash, SIGKILL: nothing deferred.
Die(p) ==
    /\ life[p] \in Alive
    /\ MoveTo(p, "dead")
    /\ UNCHANGED <<pidFile, target, overlap, returned>>

Step(p) ==
    \/ Start(p) \/ Read(p) \/ SendTerm(p) \/ SendKill(p) \/ Remove(p) \/ Write(p)
    \/ Boot(p) \/ Notify(p) \/ Stop(p) \/ MainReturns(p) \/ Die(p)

StartsNext == \E p \in Procs : Step(p)

StartsSpec == StartsInit /\ [][StartsNext]_startsVars

-----------------------------------------------------------------------------
(* Properties                                                              *)

StartsTypeOK ==
    /\ pidFile \in Procs \union {NoPid}
    /\ life \in [Procs -> Lives] /\ target \in [Procs -> Procs \union {NoPid}]
    /\ overlap \in BOOLEAN /\ returned \subseteq Procs

\* Two processes work on the files at a time only after two starts were in
\* AcquirePIDFile at a time: one start after the other always ends the process
\* before it, even one that is slow to stop or has not reached signal.Notify.
OneActive ==
    ~overlap => \A p, q \in Procs : life[p] \in Active /\ life[q] \in Active => p = q

\* Without such an overlap the file names the process that works, so that the
\* next start finds it, unless a start is about to replace it.
FileNamesActive ==
    \A p \in Procs :
        ~overlap /\ life[p] \in Active /\ (\A q \in Procs : life[q] \notin Acquiring) =>
            pidFile = p

\* A file left behind is the work of a process that did not return: no start
\* finds the pid of a process that ended in order, which may be a stranger's.
StaleIsUnclean == pidFile \notin returned

-----------------------------------------------------------------------------
(* The inductive invariant                                                 *)

\* From booting on a process has its pid in the file.
Up(p) == life[p] \in Active \union {"booting"}

\* Without an overlap one start at most is under way, and a process that is up is
\* the one the file names, which this start is ending.
InTurn ==
    ~overlap =>
        /\ \A p, q \in Procs : life[p] \in Acquiring /\ life[q] \in Acquiring => p = q
        /\ \A q \in Procs : Up(q) => pidFile = q
        /\ \A p, q \in Procs :
              life[p] \in Acquiring /\ Up(q) => life[p] \in {"term", "kill"} /\ target[p] = q

\* Before its Write the file does not name a process.
Unnamed == {"none", "started"} \union Acquiring

\* StartsTypeOK with whom a start ends, who is up and who has returned.
StartsInv ==
    /\ StartsTypeOK /\ InTurn /\ StaleIsUnclean
    /\ \A p \in returned : life[p] = "dead"
    /\ \A p \in Procs : life[p] \in Unnamed => pidFile # p
    /\ \A p \in Procs : life[p] \in {"term", "kill"} => target[p] \in Procs \ {p}

-----------------------------------------------------------------------------
(* What the documentation says and the code does not do                    *)

\* config.go:85: AcquirePIDFile ensures that only one instance runs at a time.
OnlyOneRuns == \A p, q \in Procs : life[p] \in Active /\ life[q] \in Active => p = q
=============================================================================
