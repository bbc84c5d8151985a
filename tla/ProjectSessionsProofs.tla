------------------------ MODULE ProjectSessionsProofs ------------------------
(***************************************************************************)
(* The sessions of the projects, for any number of projects and sessions   *)
(* and any length of the list: no executor resumes or lists a session of   *)
(* another project unless /resume brought it there, no order of steps but  *)
(* a late run or /resume undoes /new, and an approved phase goes on with   *)
(* the session that asked.                                                 *)
(***************************************************************************)
EXTENDS ProjectSessions, TLAPS

USE ExecutorsAssumption, BoundsAssumption, NothingAssumption

-----------------------------------------------------------------------------
(* The list of an executor                                                 *)

LEMMA AppendRange ==
    ASSUME NEW list \in Seq(Sessions), NEW s \in Sessions
    PROVE  /\ Append(list, s) \in Seq(Sessions)
           /\ Len(Append(list, s)) = Len(list) + 1
           /\ \A x \in Range(Append(list, s)) : x \in Range(list) \/ x = s
<1> DEFINE longer == Append(list, s)
<1>1. longer \in Seq(Sessions) /\ Len(longer) = Len(list) + 1 /\ Len(list) \in Nat
    OBVIOUS
<1>2. \A i \in 1 .. Len(longer) : longer[i] = IF i = Len(list) + 1 THEN s ELSE list[i]
    OBVIOUS
<1>3. DOMAIN longer = 1 .. Len(list) + 1 /\ DOMAIN list = 1 .. Len(list)
    OBVIOUS
<1>4. ASSUME NEW x \in Range(longer) PROVE x \in Range(list) \/ x = s
  <2>1. PICK i \in 1 .. Len(list) + 1 : x = longer[i]
    BY <1>3 DEF Range
  <2>2. CASE i = Len(list) + 1
    BY <1>1, <1>2, <2>1, <2>2
  <2>3. CASE i # Len(list) + 1
    <3>1. i \in DOMAIN list /\ x = list[i]
      BY <1>1, <1>2, <1>3, <2>1, <2>3
    <3> QED
      BY <3>1 DEF Range
  <2> QED
    BY <2>2, <2>3
<1> QED
    BY <1>1, <1>4

LEMMA TailRange ==
    ASSUME NEW list \in Seq(Sessions), list # <<>>
    PROVE  /\ Tail(list) \in Seq(Sessions)
           /\ Len(Tail(list)) = Len(list) - 1
           /\ \A x \in Range(Tail(list)) : x \in Range(list)
<1>1. Tail(list) \in Seq(Sessions) /\ Len(Tail(list)) = Len(list) - 1 /\ Len(list) \in Nat
    OBVIOUS
<1>2. \A i \in 1 .. Len(Tail(list)) : Tail(list)[i] = list[i + 1]
    OBVIOUS
<1>3. DOMAIN Tail(list) = 1 .. Len(list) - 1 /\ DOMAIN list = 1 .. Len(list)
    BY <1>1
<1>4. ASSUME NEW x \in Range(Tail(list)) PROVE x \in Range(list)
  <2>1. PICK i \in 1 .. Len(list) - 1 : x = Tail(list)[i]
    BY <1>3 DEF Range
  <2>2. i + 1 \in DOMAIN list /\ x = list[i + 1]
    BY <1>1, <1>2, <1>3, <2>1
  <2> QED
    BY <2>2 DEF Range
<1> QED
    BY <1>1, <1>4

\* trackSession keeps at most MaxListed sessions and adds none but the new one.
LEMMA TrackKeeps ==
    ASSUME NEW list \in Seq(Sessions), Len(list) <= MaxListed, NEW s \in Sessions
    PROVE  /\ Track(list, s) \in Seq(Sessions)
           /\ Len(Track(list, s)) <= MaxListed
           /\ \A x \in Range(Track(list, s)) : x \in Range(list) \/ x = s
<1> DEFINE longer == Append(list, s)
<1>1. /\ longer \in Seq(Sessions) /\ Len(longer) = Len(list) + 1 /\ Len(list) \in Nat
      /\ \A x \in Range(longer) : x \in Range(list) \/ x = s
    BY AppendRange
<1>4. \/ Track(list, s) = list
      \/ Track(list, s) = Tail(longer)
      \/ Track(list, s) = longer /\ ~(Len(longer) > MaxListed)
    BY DEF Track
<1> HIDE DEF longer
<1>2. longer # <<>>
  <2>1. Len(<<>>) = 0
    OBVIOUS
  <2> QED
    BY <1>1, <2>1
<1>3. /\ Tail(longer) \in Seq(Sessions) /\ Len(Tail(longer)) = Len(list)
      /\ \A x \in Range(Tail(longer)) : x \in Range(longer)
    BY <1>1, <1>2, TailRange
<1>5. CASE Track(list, s) = list
    BY <1>5
<1>6. CASE Track(list, s) = Tail(longer)
    BY <1>1, <1>3, <1>6
<1>7. CASE Track(list, s) = longer /\ ~(Len(longer) > MaxListed)
    BY <1>1, <1>7
<1> QED
    BY <1>4, <1>5, <1>6, <1>7

-----------------------------------------------------------------------------
(* Steps of the worker                                                     *)

LEMMA IdleRuns == Idle \in Runs /\ Rest \in Commands
    BY DEF Idle, Rest, Runs, Commands

LEMMA InitInv == Init => IInv
<1> SUFFICES ASSUME Init PROVE IInv
    OBVIOUS
<1>1. TypeOK
    BY IdleRuns DEF Init, TypeOK
<1>2. \A k \in Executors : Range(listed[k]) = {}
    BY DEF Init, Range
<1>3. SessionsStayHome
    BY <1>2 DEF Init, SessionsStayHome
<1>4. NewIsFresh /\ ApprovalContinues /\ StepsOK /\ RunOK /\ PhasesOK
    BY DEF Init, Idle, Rest, NewIsFresh, ApprovalContinues, StepsOK, RunOK, PhasesOK
<1> QED
    BY <1>1, <1>3, <1>4 DEF IInv

\* The session of an executor, whatever it is, was opened.
LEMMA CurrentOpened ==
    ASSUME IInv
    PROVE  /\ \A k \in Executors : current[k] # Fresh =>
                 current[k] \in Sessions /\ Brought(k, current[k]) /\ home[current[k]] # None
           /\ fg \in Runs /\ cmd \in Commands
<1>1. ASSUME NEW k \in Executors, current[k] # Fresh
      PROVE  current[k] \in Sessions /\ Brought(k, current[k]) /\ home[current[k]] # None
  <2>1. current[k] \in Sessions
    BY <1>1 DEF IInv, TypeOK
  <2>2. Brought(k, current[k])
    BY <1>1 DEF IInv, SessionsStayHome, Brought
  <2>3. home[current[k]] # None
    BY <2>1, <2>2 DEF IInv, StepsOK, Brought
  <2> QED
    BY <2>1, <2>2, <2>3
<1> QED
    BY <1>1 DEF IInv, TypeOK

LEMMA TakeInv == ASSUME IInv, Take PROVE IInv'
<1>1. /\ fg.at = "idle" /\ fg' = [Idle EXCEPT !.at = "captured", !.phase = 1, !.exec = active]
      /\ UNCHANGED <<active, current, listed, cmd, home, moved, left, revived>>
    BY DEF Take, story
<1>2. /\ fg'.at = "captured" /\ fg'.phase = 1 /\ fg'.exec = active
      /\ fg' \in Runs
  <2>1. active \in Executors \union {None}
    BY DEF IInv, TypeOK
  <2> DEFINE r == [Idle EXCEPT !.at = "captured"]
             q == [r EXCEPT !.phase = 1]
  <2>2. r \in Runs /\ r.at = "captured"
    BY IdleRuns DEF Runs
  <2> HIDE DEF r
  <2>3. q \in Runs /\ q.at = "captured" /\ q.phase = 1
    BY <2>2 DEF Runs
  <2> HIDE DEF q
  <2>4. fg' = [q EXCEPT !.exec = active]
    BY <1>1 DEF q, r
  <2> QED
    BY <2>1, <2>3, <2>4 DEF Runs
<1>3. UNCHANGED <<active, current, listed, cmd, home, moved, left, revived>>
    BY <1>1
<1>4. TypeOK'
    BY <1>2, <1>3 DEF IInv, TypeOK
<1>5. SessionsStayHome' /\ NewIsFresh'
    BY <1>3 DEF IInv, SessionsStayHome, NewIsFresh
<1>6. StepsOK'
    BY <1>2, <1>3 DEF IInv, StepsOK, TypeOK
<1>7. ApprovalContinues' /\ RunOK' /\ PhasesOK'
    BY <1>2, <1>3 DEF ApprovalContinues, RunOK, PhasesOK
<1> QED
    BY <1>4, <1>5, <1>6, <1>7 DEF IInv

\* What the run reads: a session of its executor, and one that /new has closed
\* only if it is back.
LEMMA ReadInv == ASSUME IInv, ReadSession PROVE IInv'
<1>1. /\ fg.at = "captured"
      /\ fg' = [fg EXCEPT !.at = "running", !.sid = current[fg.exec], !.late = FALSE]
      /\ UNCHANGED <<active, current, listed, cmd, home, moved, left, revived>>
    BY DEF ReadSession, story
<1>2. fg.exec \in Executors /\ current[fg.exec] \in Sessions \union {Fresh}
    BY <1>1 DEF IInv, StepsOK, TypeOK
<1>3. /\ fg'.at = "running" /\ fg'.sid = current[fg.exec] /\ fg'.exec = fg.exec
      /\ fg'.phase = fg.phase /\ fg'.first = fg.first /\ fg'.touched = fg.touched
      /\ fg' \in Runs
    BY <1>1, <1>2 DEF Runs, IInv, TypeOK
<1>4. UNCHANGED <<active, current, listed, cmd, home, moved, left, revived>>
    BY <1>1
<1>5. TypeOK'
    BY <1>3, <1>4 DEF IInv, TypeOK
<1>6. SessionsStayHome' /\ NewIsFresh'
    BY <1>4 DEF IInv, SessionsStayHome, NewIsFresh
<1>7. StepsOK'
    BY <1>2, <1>3, <1>4 DEF IInv, StepsOK
<1>8. RunOK'
    BY <1>2, <1>3, <1>4, CurrentOpened DEF IInv, RunOK, NewIsFresh, Brought
<1>9. ApprovalContinues' /\ PhasesOK'
    BY <1>1, <1>3, <1>4 DEF IInv, ApprovalContinues, PhasesOK
<1> QED
    BY <1>5, <1>6, <1>7, <1>8, <1>9 DEF IInv

\* A run ends without a report: the CLI failed, or nobody allowed a second phase.
LEMMA EndInv == ASSUME IInv, Finish PROVE IInv'
<1>1. /\ fg' = Idle /\ fg'.at = "idle" /\ fg' \in Runs
      /\ UNCHANGED <<active, current, listed, cmd, home, moved, left, revived>>
    BY IdleRuns DEF Finish, End, story, Idle
<1>2. TypeOK'
    BY <1>1 DEF IInv, TypeOK
<1>3. SessionsStayHome' /\ NewIsFresh' /\ StepsOK'
    BY <1>1 DEF IInv, SessionsStayHome, NewIsFresh, StepsOK
<1>4. ApprovalContinues' /\ RunOK' /\ PhasesOK'
    BY <1>1 DEF ApprovalContinues, RunOK, PhasesOK
<1> QED
    BY <1>2, <1>3, <1>4 DEF IInv

LEMMA ApproveInv == ASSUME IInv, Approve PROVE IInv'
<1>1. /\ fg.at = "asking"
      /\ fg' = [fg EXCEPT !.at = "captured", !.phase = 2, !.exec = active, !.sid = Fresh]
      /\ UNCHANGED <<active, current, listed, cmd, home, moved, left, revived>>
    BY DEF Approve, story
<1>2. /\ fg'.at = "captured" /\ fg'.exec = active
      /\ fg'.first = fg.first /\ fg'.touched = fg.touched /\ fg' \in Runs
  <2>1. active \in Executors \union {None} /\ fg \in Runs
    BY DEF IInv, TypeOK
  <2> DEFINE r == [fg EXCEPT !.at = "captured"]
             q == [r EXCEPT !.phase = 2]
  <2>2. r \in Runs /\ r.at = "captured" /\ r.first = fg.first /\ r.touched = fg.touched
    BY <2>1 DEF Runs
  <2> HIDE DEF r
  <2>3. q \in Runs /\ q.at = "captured" /\ q.first = r.first /\ q.touched = r.touched
    BY <2>2 DEF Runs
  <2> HIDE DEF q
  <2>4. fg' = [q EXCEPT !.exec = active, !.sid = Fresh]
    BY <1>1 DEF q, r
  <2> QED
    BY <2>1, <2>2, <2>3, <2>4 DEF Runs
<1>3. UNCHANGED <<active, current, listed, cmd, home, moved, left, revived>>
    BY <1>1
<1>4. TypeOK'
    BY <1>2, <1>3 DEF IInv, TypeOK
<1>5. SessionsStayHome' /\ NewIsFresh'
    BY <1>3 DEF IInv, SessionsStayHome, NewIsFresh
<1>6. StepsOK'
    BY <1>2, <1>3 DEF IInv, StepsOK, TypeOK
<1>7. ApprovalContinues' /\ RunOK'
    BY <1>2, <1>3 DEF ApprovalContinues, RunOK
<1>8. PhasesOK'
    BY <1>1, <1>2, <1>3 DEF IInv, PhasesOK
<1> QED
    BY <1>4, <1>5, <1>6, <1>7, <1>8 DEF IInv

\* A run that ends leaves the executor it was started in the session it reports,
\* one of its own, and undoes /new only when it is late.
LEMMA AnswerInv == ASSUME IInv, Answer PROVE IInv'
<1> DEFINE k == fg.exec
<1>1. fg.at = "running" /\ UNCHANGED <<active, cmd, moved, left>> /\ (End \/ Ask)
    BY DEF Answer
<1>2. PICK s \in Reported :
         IF s = Fresh THEN UNCHANGED <<current, listed, home, revived>> ELSE Record(k, s)
    BY DEF Answer
<1>3. k \in Executors /\ k # None /\ fg \in Runs
    BY <1>1 DEF IInv, TypeOK, StepsOK
<1>4. s # Fresh => s \in Sessions /\ (home[s] = None \/ s = fg.sid)
    BY <1>2, <1>3 DEF Reported, Runs
<1>5. UNCHANGED <<active, cmd, moved, left>>
    BY <1>1
<1>6. /\ current' \in [Executors -> Sessions \union {Fresh}]
      /\ \A j \in Executors : current'[j] = IF j = k /\ s # Fresh THEN s ELSE current[j]
  <2>1. CASE s = Fresh
    BY <1>2, <2>1 DEF IInv, TypeOK
  <2>2. CASE s # Fresh
    <3>1. current' = [current EXCEPT ![k] = s] /\ s \in Sessions
      BY <1>2, <1>4, <2>2 DEF Record
    <3> QED
      BY <1>3, <2>2, <3>1 DEF IInv, TypeOK
  <2> QED
    BY <2>1, <2>2
<1>7. /\ home' \in [Sessions -> Executors \union {None}]
      /\ \A x \in Sessions : home[x] # None => home'[x] = home[x]
      /\ s # Fresh => home'[s] = IF home[s] = None THEN k ELSE home[s]
  <2>1. CASE s = Fresh
    BY <1>2, <2>1 DEF IInv, TypeOK
  <2>2. CASE s # Fresh
    <3>1. home' = [home EXCEPT ![s] = IF home[s] = None THEN k ELSE home[s]] /\ s \in Sessions
      BY <1>2, <1>4, <2>2 DEF Record
    <3> QED
      BY <1>3, <3>1 DEF IInv, TypeOK
  <2> QED
    BY <2>1, <2>2
<1>8. /\ listed' \in [Executors -> Seq(Sessions)]
      /\ \A j \in Executors :
            /\ Len(listed'[j]) <= MaxListed
            /\ \A x \in Range(listed'[j]) :
                  x \in Range(listed[j]) \/ (j = k /\ s # Fresh /\ x = s)
  <2>1. CASE s = Fresh
    BY <1>2, <2>1 DEF IInv, TypeOK
  <2>2. CASE s # Fresh
    <3>1. listed' = [listed EXCEPT ![k] = Track(listed[k], s)] /\ s \in Sessions
      BY <1>2, <1>4, <2>2 DEF Record
    <3>2. listed \in [Executors -> Seq(Sessions)] /\ \A j \in Executors : Len(listed[j]) <= MaxListed
      BY DEF IInv, TypeOK
    <3>3. listed[k] \in Seq(Sessions) /\ Len(listed[k]) <= MaxListed
      BY <1>3, <3>2
    <3>4. /\ Track(listed[k], s) \in Seq(Sessions) /\ Len(Track(listed[k], s)) <= MaxListed
          /\ \A x \in Range(Track(listed[k], s)) : x \in Range(listed[k]) \/ x = s
      BY <3>1, <3>3, TrackKeeps
    <3>5. \A j \in Executors : listed'[j] = IF j = k THEN Track(listed[k], s) ELSE listed[j]
      BY <1>3, <3>1, <3>2
    <3>6. listed' \in [Executors -> Seq(Sessions)]
      BY <1>3, <3>1, <3>2, <3>4
    <3> QED
      BY <2>2, <3>2, <3>4, <3>5, <3>6
  <2> QED
    BY <2>1, <2>2
<1>9. /\ revived \subseteq revived' /\ revived' \subseteq Executors
      /\ fg.late /\ s # Fresh => k \in revived'
  <2>1. CASE s = Fresh
    BY <1>2, <2>1 DEF IInv, TypeOK
  <2>2. CASE s # Fresh
    BY <1>2, <1>3, <2>2 DEF Record, IInv, TypeOK
  <2> QED
    BY <2>1, <2>2
<1>10. /\ fg' \in Runs /\ fg'.at \in {"idle", "asking"}
       /\ fg'.at = "asking" => /\ fg'.exec = k /\ fg'.touched = fg.touched
                               /\ fg'.first = <<k, current'[k]>>
  <2>1. CASE End
    BY <2>1, IdleRuns DEF End, Idle
  <2>2. CASE Ask
    <3> DEFINE r == [fg EXCEPT !.at = "asking"]
    <3>1. fg' = [r EXCEPT !.first = <<k, current'[k]>>]
      BY <2>2 DEF Ask
    <3>2. r \in Runs /\ r.at = "asking" /\ r.exec = k /\ r.touched = fg.touched
      BY <1>3 DEF Runs
    <3>3. <<k, current'[k]>> \in (Executors \union {None}) \X (Sessions \union {Fresh})
      BY <1>3, <1>6
    <3> HIDE DEF r
    <3> QED
      BY <3>1, <3>2, <3>3 DEF Runs
  <2> QED
    BY <1>1, <2>1, <2>2
<1> HIDE DEF k
<1>11. s # Fresh => s \in Sessions /\ (home'[s] = k \/ <<k, s>> \in moved)
  <2> SUFFICES ASSUME s # Fresh, home[s] # None
               PROVE  home'[s] = k \/ <<k, s>> \in moved
    BY <1>4, <1>7
  <2>1. s = fg.sid
    BY <1>4
  <2>2. home[s] = k \/ <<k, s>> \in moved
    BY <1>1, <2>1 DEF IInv, RunOK, Brought, k
  <2> QED
    BY <1>7, <2>2
<1>12. TypeOK'
    BY <1>5, <1>6, <1>7, <1>8, <1>9, <1>10 DEF IInv, TypeOK
<1>13. SessionsStayHome'
  <2> SUFFICES ASSUME NEW j \in Executors,
                      NEW x \in Range(listed'[j]) \union ({current'[j]} \ {Fresh})
               PROVE  home'[x] = j \/ <<j, x>> \in moved
    BY <1>5 DEF SessionsStayHome
  <2>1. \/ x \in Range(listed[j]) \union ({current[j]} \ {Fresh})
        \/ j = k /\ s # Fresh /\ x = s
    BY <1>6, <1>8
  <2>2. CASE x \in Range(listed[j]) \union ({current[j]} \ {Fresh})
    <3>1. home[x] = j \/ <<j, x>> \in moved
      BY <2>2 DEF IInv, SessionsStayHome
    <3>2. x \in Sessions
      BY <2>2 DEF IInv, TypeOK, Range
    <3> QED
      BY <1>7, <3>1, <3>2
  <2> QED
    BY <1>11, <2>1, <2>2
<1>14. StepsOK'
    BY <1>3, <1>5, <1>7, <1>10 DEF IInv, StepsOK, TypeOK, k
<1>15. NewIsFresh'
  <2> SUFFICES ASSUME NEW j \in Executors, current'[j] = left[j], left[j] # Fresh
               PROVE  j \in revived'
    BY <1>5 DEF NewIsFresh
  <2>1. CASE j = k /\ s # Fresh
    <3>1. s = left[k] /\ home[s] # None
      BY <1>6, <2>1 DEF IInv, StepsOK
    <3>2. s = fg.sid
      BY <1>4, <2>1, <3>1
    <3>3. fg.late \/ k \in revived
      BY <1>1, <2>1, <3>1, <3>2 DEF IInv, RunOK, k
    <3> QED
      BY <1>9, <2>1, <3>3
  <2>2. CASE ~(j = k /\ s # Fresh)
    BY <1>6, <1>9, <2>2 DEF IInv, NewIsFresh
  <2> QED
    BY <2>1, <2>2
<1>16. ApprovalContinues' /\ RunOK'
    BY <1>10 DEF ApprovalContinues, RunOK
<1>17. PhasesOK'
    BY <1>1, <1>5, <1>10 DEF IInv, PhasesOK, k
<1> QED
    BY <1>12, <1>13, <1>14, <1>15, <1>16, <1>17 DEF IInv

-----------------------------------------------------------------------------
(* Steps of the handlers                                                   *)

LEMMA TouchedRun ==
    ASSUME NEW r \in Runs
    PROVE  /\ Touched(r) \in Runs
           /\ Touched(r).at = r.at /\ Touched(r).phase = r.phase
           /\ Touched(r).exec = r.exec /\ Touched(r).sid = r.sid
           /\ Touched(r).first = r.first /\ Touched(r).late = r.late
           /\ r.at # "idle" => Touched(r).touched
<1> DEFINE b == r.at # "idle"
<1>1. Touched(r) = [r EXCEPT !.touched = b] /\ b \in BOOLEAN
    BY DEF Touched
<1>2. (r.at # "idle") => b
    OBVIOUS
<1> HIDE DEF b
<1>3. /\ Touched(r) \in Runs
      /\ Touched(r).at = r.at /\ Touched(r).phase = r.phase
      /\ Touched(r).exec = r.exec /\ Touched(r).sid = r.sid
      /\ Touched(r).first = r.first
    BY <1>1 DEF Runs
<1>4. Touched(r).late = r.late
    BY <1>1 DEF Runs
<1>5. Touched(r).touched = b
    BY <1>1 DEF Runs
<1> QED
    BY <1>2, <1>3, <1>4, <1>5

LEMMA SwitchInv == ASSUME IInv, NEW k \in Executors, SwitchProject(k) PROVE IInv'
<1>1. fg' = Touched(fg) /\ fg \in Runs /\ active' \in Executors
    BY DEF SwitchProject, IInv, TypeOK
<1>2. UNCHANGED <<current, listed, cmd, home, moved, left, revived>>
    BY DEF SwitchProject, story
<1>3. /\ fg' \in Runs /\ fg'.at = fg.at /\ fg'.exec = fg.exec /\ fg'.sid = fg.sid
      /\ fg'.late = fg.late /\ (fg.at # "idle" => fg'.touched)
    BY <1>1, TouchedRun
<1>4. TypeOK'
    BY <1>1, <1>2, <1>3 DEF IInv, TypeOK
<1>5. SessionsStayHome' /\ NewIsFresh'
    BY <1>2 DEF IInv, SessionsStayHome, NewIsFresh
<1>6. StepsOK'
    BY <1>2, <1>3 DEF IInv, StepsOK
<1>7. RunOK'
    BY <1>2, <1>3 DEF IInv, RunOK, Brought
<1>8. ApprovalContinues' /\ PhasesOK'
    BY <1>3 DEF ApprovalContinues, PhasesOK
<1> QED
    BY <1>4, <1>5, <1>6, <1>7, <1>8 DEF IInv

\* The handlers' first steps only look the executor up.
LEMMA BeginInv == ASSUME IInv, NewBegin \/ \E s \in Sessions : ResumeBegin(s) PROVE IInv'
<1>1. UNCHANGED <<active, current, listed, fg, home, moved, left, revived>>
    BY DEF NewBegin, ResumeBegin, story
<1>2. /\ cmd' \in Commands /\ cmd'.exec \in Executors
      /\ cmd'.at = "resume" => cmd'.sid \in Sessions /\ home[cmd'.sid] # None
  <2>1. active \in Executors
    BY DEF IInv, TypeOK
  <2>2. CASE NewBegin
    <3>1. cmd' = [at |-> "new", exec |-> active, sid |-> Fresh]
      BY <2>2 DEF NewBegin, Rest
    <3> QED
      BY <2>1, <3>1 DEF Commands
  <2>3. ASSUME NEW s \in Sessions, ResumeBegin(s)
        PROVE  /\ cmd' \in Commands /\ cmd'.exec \in Executors
               /\ cmd'.at = "resume" => cmd'.sid \in Sessions /\ home[cmd'.sid] # None
    BY <2>1, <2>3 DEF ResumeBegin, Commands
  <2> QED
    BY <2>2, <2>3
<1>3. TypeOK'
    BY <1>1, <1>2 DEF IInv, TypeOK
<1>4. StepsOK'
    BY <1>1, <1>2 DEF IInv, StepsOK
<1>5. SessionsStayHome' /\ NewIsFresh' /\ ApprovalContinues' /\ RunOK' /\ PhasesOK'
    BY <1>1 DEF IInv, SessionsStayHome, NewIsFresh, ApprovalContinues, RunOK, PhasesOK, Brought
<1> QED
    BY <1>3, <1>4, <1>5 DEF IInv

\* /new takes its executor's session away; a run of that executor that has read
\* the session is late from then on.
LEMMA ResetInv == ASSUME IInv, ResetSession PROVE IInv'
<1> DEFINE k == cmd.exec
<1>1. cmd.at = "new" /\ Closed(k)
    BY DEF ResetSession
<1>2. UNCHANGED <<active, listed, home, moved>> /\ cmd' = Rest
    BY DEF ResetSession
<1>3. k \in Executors /\ fg \in Runs
    BY <1>1 DEF IInv, TypeOK, StepsOK
<1>4. /\ current' \in [Executors -> Sessions \union {Fresh}]
      /\ \A j \in Executors : current'[j] = IF j = k THEN Fresh ELSE current[j]
    BY <1>3 DEF ResetSession, IInv, TypeOK
<1>5. \A j \in Executors : j # k => left'[j] = left[j] /\ (j \in revived' <=> j \in revived)
    BY <1>1, <1>3 DEF Closed, IInv, TypeOK
<1>6. /\ left' \in [Executors -> Sessions \union {Fresh}] /\ revived' \subseteq Executors
      /\ \A j \in Executors : left'[j] # Fresh => home[left'[j]] # None
  <2>1. CASE current[k] = Fresh
    BY <1>1, <2>1 DEF Closed, IInv, TypeOK, StepsOK
  <2>2. CASE current[k] # Fresh
    <3>1. left' = [left EXCEPT ![k] = current[k]] /\ revived' = revived \ {k}
      BY <1>1, <2>2 DEF Closed
    <3>2. current[k] \in Sessions /\ home[current[k]] # None
      BY <1>3, <2>2, CurrentOpened
    <3> QED
      BY <1>3, <3>1, <3>2 DEF IInv, TypeOK, StepsOK
  <2> QED
    BY <2>1, <2>2
<1>7. /\ fg' \in Runs /\ fg'.at = fg.at /\ fg'.exec = fg.exec /\ fg'.sid = fg.sid
      /\ fg.at # "idle" => fg'.touched
      /\ fg.late => fg'.late
      /\ fg.at = "running" /\ fg.exec = k => fg'.late
  <2> DEFINE r == Touched(fg)
             b == fg.late \/ (fg.at = "running" /\ fg.exec = k)
  <2>1. /\ r \in Runs /\ r.at = fg.at /\ r.exec = fg.exec /\ r.sid = fg.sid
        /\ r.late = fg.late /\ (fg.at # "idle" => r.touched)
    BY <1>3, TouchedRun
  <2>2. fg' = [r EXCEPT !.late = r.late \/ (fg.at = "running" /\ fg.exec = k)]
    BY <1>1 DEF Closed
  <2>3. fg' = [r EXCEPT !.late = b]
    BY <2>1, <2>2
  <2>4. b \in BOOLEAN /\ (fg.late => b) /\ (fg.at = "running" /\ fg.exec = k => b)
    OBVIOUS
  <2> HIDE DEF r, b
  <2>5. fg' \in Runs /\ fg'.at = r.at /\ fg'.exec = r.exec /\ fg'.sid = r.sid
    BY <2>1, <2>3, <2>4 DEF Runs
  <2>6. fg'.touched = r.touched
    BY <2>1, <2>3 DEF Runs
  <2>7. fg'.late = b
    BY <2>1, <2>3 DEF Runs
  <2> QED
    BY <2>1, <2>4, <2>5, <2>6, <2>7
<1> HIDE DEF k
<1>8. TypeOK'
    BY <1>2, <1>4, <1>6, <1>7, IdleRuns DEF IInv, TypeOK
<1>9. SessionsStayHome'
    BY <1>2, <1>4 DEF IInv, SessionsStayHome
<1>10. NewIsFresh'
    BY <1>4, <1>5 DEF IInv, NewIsFresh
<1>11. StepsOK'
    BY <1>2, <1>6, <1>7 DEF IInv, StepsOK, Rest
<1>12. RunOK'
  <2> SUFFICES ASSUME fg.at = "running", fg.sid # Fresh
               PROVE  /\ Brought(fg.exec, fg.sid)
                      /\ fg.sid = left'[fg.exec] => fg'.late \/ fg.exec \in revived'
    BY <1>2, <1>7 DEF RunOK, Brought
  <2>1. CASE fg.exec = k
    BY <1>7, <2>1 DEF IInv, RunOK
  <2>2. CASE fg.exec # k
    <3>1. fg.exec \in Executors
      BY DEF IInv, StepsOK
    <3> QED
      BY <1>5, <1>7, <2>2, <3>1 DEF IInv, RunOK
  <2> QED
    BY <2>1, <2>2
<1>13. ApprovalContinues' /\ PhasesOK'
    BY <1>7 DEF ApprovalContinues, PhasesOK
<1> QED
    BY <1>8, <1>9, <1>10, <1>11, <1>12, <1>13 DEF IInv

\* /resume gives its executor a session that was opened, and tells where it is
\* brought from another one.
LEMMA ResumeInv == ASSUME IInv, SetResumeID PROVE IInv'
<1> DEFINE k == cmd.exec
           s == cmd.sid
<1>1. /\ cmd.at = "resume" /\ fg' = Touched(fg) /\ cmd' = Rest
      /\ revived' = revived \union {k}
      /\ UNCHANGED <<active, listed, home, left>>
    BY DEF SetResumeID
<1>2. k \in Executors /\ fg \in Runs /\ s \in Sessions /\ home[s] # None
    BY <1>1 DEF IInv, TypeOK, StepsOK
<1>3. /\ current' \in [Executors -> Sessions \union {Fresh}]
      /\ \A j \in Executors : current'[j] = IF j = k THEN s ELSE current[j]
    BY <1>2 DEF SetResumeID, IInv, TypeOK
<1>4. /\ moved' \subseteq Executors \X Sessions /\ moved \subseteq moved'
      /\ home[s] = k \/ <<k, s>> \in moved'
      /\ \A m \in moved' : m \in moved \/ m = <<k, s>>
    BY <1>2 DEF SetResumeID, IInv, TypeOK
<1>5. /\ fg' \in Runs /\ fg'.at = fg.at /\ fg'.exec = fg.exec /\ fg'.sid = fg.sid
      /\ fg'.late = fg.late /\ (fg.at # "idle" => fg'.touched)
    BY <1>1, <1>2, TouchedRun
<1> HIDE DEF k, s
<1>6. TypeOK'
    BY <1>1, <1>2, <1>3, <1>4, <1>5, IdleRuns DEF IInv, TypeOK
<1>7. SessionsStayHome'
    BY <1>1, <1>3, <1>4 DEF IInv, SessionsStayHome
<1>8. NewIsFresh'
    BY <1>1, <1>3 DEF IInv, NewIsFresh
<1>9. StepsOK'
    BY <1>1, <1>2, <1>4, <1>5 DEF IInv, StepsOK, Rest
<1>10. RunOK'
    BY <1>1, <1>4, <1>5 DEF IInv, RunOK, Brought
<1>11. ApprovalContinues' /\ PhasesOK'
    BY <1>5 DEF ApprovalContinues, PhasesOK
<1> QED
    BY <1>6, <1>7, <1>8, <1>9, <1>10, <1>11 DEF IInv

LEMMA RestartInv == ASSUME IInv, Restart PROVE IInv'
<1>1. /\ current' = [k \in Executors |-> Fresh] /\ listed' = [k \in Executors |-> <<>>]
      /\ fg' = Idle /\ cmd' = Rest
      /\ UNCHANGED <<active, home, moved, left, revived>>
    BY DEF Restart, story
<1>2. TypeOK'
    BY <1>1, IdleRuns DEF IInv, TypeOK
<1>3. \A k \in Executors : Range(listed'[k]) = {}
    BY <1>1 DEF Range
<1>4. SessionsStayHome'
    BY <1>1, <1>3 DEF SessionsStayHome
<1>5. NewIsFresh' /\ ApprovalContinues' /\ StepsOK' /\ RunOK' /\ PhasesOK'
    BY <1>1 DEF Idle, Rest, IInv, NewIsFresh, ApprovalContinues, StepsOK, RunOK, PhasesOK
<1> QED
    BY <1>2, <1>4, <1>5 DEF IInv

-----------------------------------------------------------------------------
(* The theorems                                                            *)

LEMMA StepInv == IInv /\ [Next]_vars => IInv'
<1> SUFFICES ASSUME IInv, [Next]_vars PROVE IInv'
    OBVIOUS
<1>1. CASE Work
    BY <1>1, TakeInv, ReadInv, AnswerInv, ApproveInv, EndInv DEF Work
<1>2. CASE Handlers
    BY <1>2, SwitchInv, BeginInv, ResetInv, ResumeInv DEF Handlers
<1>3. CASE Restart
    BY <1>3, RestartInv
<1>4. CASE UNCHANGED vars
    BY <1>4 DEF vars, story, IInv, TypeOK, SessionsStayHome, NewIsFresh, ApprovalContinues,
                StepsOK, RunOK, PhasesOK, Brought
<1> QED
    BY <1>1, <1>2, <1>3, <1>4 DEF Next

\* The inductive invariant holds in every state of the runs, of /new and /resume,
\* of switches and of restarts.
THEOREM Invariance == Spec => []IInv
<1>1. Init => IInv
    BY InitInv
<1>2. IInv /\ [Next]_vars => IInv'
    BY StepInv
<1> QED
    BY <1>1, <1>2, PTL DEF Spec

\* No executor resumes or lists a session opened in another project, unless
\* /resume brought it there.
THEOREM ProjectsKeepTheirSessions == Spec => []SessionsStayHome
<1>1. IInv => SessionsStayHome
    BY DEF IInv
<1> QED
    BY <1>1, Invariance, PTL

\* A session that /new closed is back only through /resume, or through a run that
\* had read it before the reset and ended after it.
THEOREM NewStartsFresh == Spec => []NewIsFresh
<1>1. IInv => NewIsFresh
    BY DEF IInv
<1> QED
    BY <1>1, Invariance, PTL

\* An approved second phase resumes the session the first one ended with, in the
\* project that asked, unless the user interfered.
THEOREM ApprovalsContinue == Spec => []ApprovalContinues
<1>1. IInv => ApprovalContinues
    BY DEF IInv
<1> QED
    BY <1>1, Invariance, PTL
=============================================================================
