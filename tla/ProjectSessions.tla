-------------------------- MODULE ProjectSessions --------------------------
(***************************************************************************)
(* The session each project's executor resumes.  A run reads it when the   *)
(* CLI starts and replaces it by the one the CLI reports when it ends;     *)
(* /new clears it and /resume sets it, in the executor of the project that *)
(* is active then.  Both first look the executor up under Manager.mu and   *)
(* then change it under Executor.mu, and neither knows of the other or of  *)
(* the run.  Billing and the table of projects are in Projects.            *)
(***************************************************************************)
EXTENDS Naturals, Sequences, Functions

CONSTANTS
    Executors,      \* one for each project
    Sessions,       \* ids the CLI gives (bound: as many as it ever opens)
    MaxListed       \* maxSessions

ASSUME ExecutorsAssumption == Executors # {}
ASSUME BoundsAssumption == MaxListed \in Nat \ {0}

Fresh == <<>>       \* currentSessionID = ""
None  == <<>>       \* no executor

\* The id of a session is not the empty string, an executor is not nil.
ASSUME NothingAssumption == Fresh \notin Sessions /\ None \notin Executors

VARIABLES
    active,     \* the executor of the active project
    current,    \* Executor.currentSessionID
    listed,     \* Executor.sessions, the oldest first
    fg,         \* the run in the worker's hands
    cmd,        \* a handler of /new or /resume
    \* what has happened, for the properties
    home,       \* the executor a session was opened in
    moved,      \* <<executor, session>> set by /resume
    left,       \* the session /new closed last, per executor
    revived     \* executors that got a session since, by a late run or /resume

story == <<home, moved, left, revived>>
vars  == <<active, current, listed, fg, cmd, story>>

\* For the properties, first: the executor of the first phase and the session it
\* left there; late: /new was used in its executor after it read the session;
\* touched: the user switched, or used /new or /resume, since the run was taken.
Idle == [at |-> "idle", phase |-> 0, exec |-> None, sid |-> Fresh,
         first |-> <<None, Fresh>>, late |-> FALSE, touched |-> FALSE]
Rest == [at |-> "no", exec |-> None, sid |-> Fresh]

Init ==
    /\ active \in Executors
    /\ current = [k \in Executors |-> Fresh] /\ listed = [k \in Executors |-> <<>>]
    /\ fg = Idle /\ cmd = Rest
    /\ home = [s \in Sessions |-> None] /\ moved = {}
    /\ left = [k \in Executors |-> Fresh]
    /\ revived = {}

-----------------------------------------------------------------------------
(* A run: process and ExecuteWithOptions                                   *)

Take ==
    /\ fg.at = "idle"
    /\ fg' = [Idle EXCEPT !.at = "captured", !.phase = 1, !.exec = active]
    /\ UNCHANGED <<active, current, listed, cmd, story>>

\* The session of the captured executor is read when the CLI starts.
ReadSession ==
    /\ fg.at = "captured"
    /\ fg' = [fg EXCEPT !.at = "running", !.sid = current[fg.exec], !.late = FALSE]
    /\ UNCHANGED <<active, current, listed, cmd, story>>

\* The CLI reports the session it was given, a new one, or none.
Reported == {fg.sid, Fresh} \union {s \in Sessions : home[s] = None}

\* Mutant: nothing is dropped from the list.
TrackAll(list, s) == IF s \in Range(list) THEN list ELSE Append(list, s)

\* trackSession: new ids only, the newest MaxListed of them.
Track(list, s) ==
    LET longer == Append(list, s)
    IN IF s \in Range(list) THEN list
       ELSE IF Len(longer) > MaxListed THEN Tail(longer) ELSE longer

\* The run is over, or it was denied a tool and asks the user; a second phase
\* never asks.
End == fg' = Idle
Ask == fg.phase = 1 /\ fg' = [fg EXCEPT !.at = "asking", !.first = <<fg.exec, current'[fg.exec]>>]

Record(k, s) ==
    /\ current' = [current EXCEPT ![k] = s]
    /\ listed' = [listed EXCEPT ![k] = Track(@, s)]
    /\ home' = [home EXCEPT ![s] = IF @ = None THEN fg.exec ELSE @]
    /\ revived' = IF fg.late THEN revived \union {k} ELSE revived

\* Mutant: the result goes to the executor that is active at the end.
AnswerActive ==
    /\ fg.at = "running"
    /\ \E s \in Reported \ {Fresh} : Record(active, s)
    /\ End \/ Ask
    /\ UNCHANGED <<active, cmd, moved, left>>

\* Mutant: a run that was denied a tool leaves no session behind.
AnswerIfDone ==
    /\ fg.at = "running"
    /\ \E s \in Reported \ {Fresh} :
          \/ Record(fg.exec, s) /\ End
          \/ /\ fg.phase = 1
             /\ fg' = [fg EXCEPT !.at = "asking", !.first = <<fg.exec, s>>]
             /\ UNCHANGED <<current, listed, home, revived>>
    /\ UNCHANGED <<active, cmd, moved, left>>

\* A session that was reported becomes the one of the executor the run was
\* started in, whatever /new, /resume or a switch did meanwhile.
Answer ==
    /\ fg.at = "running"
    /\ \E s \in Reported :
          IF s = Fresh THEN UNCHANGED <<current, listed, home, revived>> ELSE Record(fg.exec, s)
    /\ End \/ Ask
    /\ UNCHANGED <<active, cmd, moved, left>>

\* The second phase runs in the executor that is active by now.
Approve ==
    /\ fg.at = "asking"
    /\ fg' = [fg EXCEPT !.at = "captured", !.phase = 2, !.exec = active, !.sid = Fresh]
    /\ UNCHANGED <<active, current, listed, cmd, story>>

\* The CLI failed, or the user refused or did not answer.
Finish ==
    /\ fg.at \in {"running", "asking"}
    /\ End
    /\ UNCHANGED <<active, current, listed, cmd, story>>

Work == Take \/ ReadSession \/ Answer \/ Approve \/ Finish

-----------------------------------------------------------------------------
(* Handlers                                                                *)

Touched(run) == [run EXCEPT !.touched = run.at # "idle"]

SwitchProject(k) ==
    /\ k # active
    /\ active' = k /\ fg' = Touched(fg)
    /\ UNCHANGED <<current, listed, cmd, story>>

\* Manager.ResetSession looks the executor up ...
NewBegin ==
    /\ cmd = Rest
    /\ cmd' = [Rest EXCEPT !.at = "new", !.exec = active]
    /\ UNCHANGED <<active, current, listed, fg, story>>

Closed(k) ==
    /\ IF current[k] = Fresh THEN UNCHANGED <<left, revived>>
       ELSE left' = [left EXCEPT ![k] = current[k]] /\ revived' = revived \ {k}
    /\ fg' = [Touched(fg) EXCEPT !.late = @ \/ (fg.at = "running" /\ fg.exec = k)]

\* Mutant: a run that is going on makes /new wait for the next message.
ResetIdle ==
    /\ cmd.at = "new"
    /\ current' = IF fg.at = "idle" THEN [current EXCEPT ![cmd.exec] = Fresh] ELSE current
    /\ Closed(cmd.exec)
    /\ cmd' = Rest
    /\ UNCHANGED <<active, listed, home, moved>>

\* ... and Executor.ResetSession clears its session.
ResetSession ==
    /\ cmd.at = "new"
    /\ current' = [current EXCEPT ![cmd.exec] = Fresh]
    /\ Closed(cmd.exec)
    /\ cmd' = Rest
    /\ UNCHANGED <<active, listed, home, moved>>

\* /resume shows the sessions of the active project, and its keyboards stay in
\* the chat: a tap, or /resume <n>, names any session there has been, and goes
\* to the executor of the project that is active now.
ResumeBegin(s) ==
    /\ cmd = Rest /\ home[s] # None
    /\ cmd' = [at |-> "resume", exec |-> active, sid |-> s]
    /\ UNCHANGED <<active, current, listed, fg, story>>

SetResumeID ==
    /\ cmd.at = "resume"
    /\ current' = [current EXCEPT ![cmd.exec] = cmd.sid]
    /\ moved' = IF home[cmd.sid] = cmd.exec THEN moved ELSE moved \union {<<cmd.exec, cmd.sid>>}
    /\ revived' = revived \union {cmd.exec}
    /\ fg' = Touched(fg) /\ cmd' = Rest
    /\ UNCHANGED <<active, listed, home, left>>

Handlers ==
    \/ \E k \in Executors : SwitchProject(k)
    \/ NewBegin \/ ResetSession
    \/ (\E s \in Sessions : ResumeBegin(s)) \/ SetResumeID

\* Sessions and their lists are kept in memory only.
Restart ==
    /\ current' = [k \in Executors |-> Fresh] /\ listed' = [k \in Executors |-> <<>>]
    /\ fg' = Idle /\ cmd' = Rest
    /\ UNCHANGED <<active, story>>

Next == Work \/ Handlers \/ Restart

Spec == Init /\ [][Next]_vars

-----------------------------------------------------------------------------
(* Properties                                                              *)

Runs == [at : {"idle", "captured", "running", "asking"},
         phase : 0 .. 2,
         exec : Executors \union {None}, sid : Sessions \union {Fresh},
         first : (Executors \union {None}) \X (Sessions \union {Fresh}),
         late : BOOLEAN, touched : BOOLEAN]

Commands == [at : {"no", "new", "resume"},
             exec : Executors \union {None}, sid : Sessions \union {Fresh}]

TypeOK ==
    /\ active \in Executors
    /\ current \in [Executors -> Sessions \union {Fresh}]
    /\ listed \in [Executors -> Seq(Sessions)]
    /\ \A k \in Executors : Len(listed[k]) <= MaxListed
    /\ fg \in Runs /\ cmd \in Commands
    /\ home \in [Sessions -> Executors \union {None}]
    /\ moved \subseteq Executors \X Sessions
    /\ left \in [Executors -> Sessions \union {Fresh}] /\ revived \subseteq Executors

\* Each project has its own sessions (README, Multi-Project Support): an executor
\* resumes, and lists, only sessions opened in it or brought to it by /resume
\* (a tap on a keyboard of another project), whatever was switched, reset or
\* resumed while a run was going on.
SessionsStayHome ==
    \A k \in Executors :
        \A s \in Range(listed[k]) \union ({current[k]} \ {Fresh}) :
            home[s] = k \/ <<k, s>> \in moved

\* /new closes a conversation (README, Commands): the executor goes back to it
\* only through a run that had read the session before, and ends after, the
\* reset, or through /resume; no other order of steps brings it back.
NewIsFresh ==
    \A k \in Executors : current[k] = left[k] /\ left[k] # Fresh => k \in revived

\* What the user approves is carried out in the conversation that asked for it:
\* the second phase resumes, in the same project, the session the first one
\* ended with, unless the user switched, or used /new or /resume, meanwhile.
ApprovalContinues ==
    fg.phase = 2 /\ fg.at = "running" /\ ~fg.touched =>
        <<fg.exec, fg.sid>> = fg.first

-----------------------------------------------------------------------------
(* The inductive invariant                                                 *)

Brought(k, s) == home[s] = k \/ <<k, s>> \in moved

\* A run and a handler have an executor, /resume has a session that was opened,
\* and only such sessions were ever closed or brought to an executor.
StepsOK ==
    /\ fg.at # "idle" => fg.exec \in Executors
    /\ cmd.at # "no" => cmd.exec \in Executors
    /\ cmd.at = "resume" => cmd.sid \in Sessions /\ home[cmd.sid] # None
    /\ \A k \in Executors, s \in Sessions : <<k, s>> \in moved => home[s] # None
    /\ \A k \in Executors : left[k] # Fresh => home[left[k]] # None

\* The session a run was given belongs to its executor; when /new closed it last,
\* the run is late or the session was back before the run read it.
RunOK ==
    fg.at = "running" /\ fg.sid # Fresh =>
        /\ Brought(fg.exec, fg.sid)
        /\ fg.sid = left[fg.exec] => fg.late \/ fg.exec \in revived

\* Until the user interferes the run's project is the active one, and the session
\* the first phase ended with stays the current one.
PhasesOK ==
    fg.at # "idle" /\ ~fg.touched =>
        /\ fg.exec = active
        /\ fg.at = "asking" \/ (fg.at = "captured" /\ fg.phase = 2) =>
              fg.first = <<active, current[active]>>

\* The invariants together with what makes them inductive.
IInv ==
    /\ TypeOK /\ SessionsStayHome /\ NewIsFresh /\ ApprovalContinues
    /\ StepsOK /\ RunOK /\ PhasesOK

=============================================================================
