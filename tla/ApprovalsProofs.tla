--------------------------- MODULE ApprovalsProofs ---------------------------
(***************************************************************************)
(* Permission requests, for any ids, any number of requests under each,    *)
(* any number of taps and restarts: the map never names a request that has *)
(* returned, no answer in time is lost, and no request is decided by a tap *)
(* that was not handled while this very request was open.                  *)
(***************************************************************************)
EXTENDS Approvals, TLAPS

USE IdsAssumption, BoundsAssumption

LEMMA InitInv == Init => IInv
<1> SUFFICES ASSUME Init PROVE IInv
    OBVIOUS
<1> USE DEF Init, None, Requests, Taps, Unused
<1>1. TypeOK
    BY DEF TypeOK, Registered, Handling, Keyboards
<1>2. EntryOwned /\ AnswerKept /\ FutureOK /\ ChannelsOK
    BY DEF EntryOwned, AnswerKept, FutureOK, ChannelsOK
<1>3. TapsOK
    BY DEF TapsOK
<1> QED
    BY <1>1, <1>2, <1>3 DEF IInv

\* What the types say of single requests, keyboards and taps.
LEMMA Typing ==
    ASSUME IInv
    PROVE  /\ \A i \in Ids :
                 /\ count[i] \in Nat /\ count[i] <= MaxRequests
                 /\ approvals[i] \in Nat /\ approvals[i] <= MaxRequests
                 /\ pc[i] # "idle" => count[i] \in Requests
           /\ \A i \in Ids, n \in Requests :
                 chan[i][n] \in 0 .. MaxTaps /\ decidedBy[i][n] \in 0 .. MaxTaps
           /\ \A k \in Taps : tap[k].ref \in Nat /\ tap[k].ref <= MaxRequests
           /\ \A k \in Taps : k <= tapped => tap[k].kb \in Keyboards
           /\ \A kb \in Keyboards : kb.id \in Ids /\ kb.req \in Nat /\ kb.req > 0
           /\ tapped \in Nat /\ tapped <= MaxTaps
<1> USE DEF IInv, TypeOK
<1>1. \A i \in Ids : /\ count[i] \in Nat /\ count[i] <= MaxRequests
                     /\ approvals[i] \in Nat /\ approvals[i] <= MaxRequests
    OBVIOUS
<1>2. \A i \in Ids : pc[i] # "idle" => count[i] > 0
    BY DEF FutureOK
<1>3. \A i \in Ids, n \in Requests :
         chan[i][n] \in 0 .. MaxTaps /\ decidedBy[i][n] \in 0 .. MaxTaps
    OBVIOUS
<1>4. \A k \in Taps : tap[k].ref \in Nat /\ tap[k].ref <= MaxRequests
    OBVIOUS
<1>5. \A k \in Taps : k <= tapped => tap[k].kb \in Keyboards
    BY DEF TapsOK
<1>6. \A kb \in Keyboards : kb.id \in Ids /\ kb.req \in Nat /\ kb.req > 0
    BY DEF Keyboards, Requests
<1>7. \A i \in Ids : pc[i] # "idle" => count[i] \in Requests
    BY <1>1, <1>2 DEF Requests
<1> QED
    BY <1>1, <1>3, <1>4, <1>5, <1>6, <1>7

\* A tap that was made names an id, and the request its handler loaded was made.
LEMMA Tapped ==
    ASSUME IInv, NEW k \in Taps, tap[k].at # "unused"
    PROVE  /\ k <= tapped /\ tap[k].kb.id \in Ids
           /\ tap[k].ref \in Nat /\ tap[k].ref <= count[tap[k].kb.id]
           /\ tap[k].ref # None => tap[k].ref \in Requests
<1>1. k \in Nat /\ tapped \in Nat
    BY Typing DEF Taps
<1>2. k <= tapped
  <2>1. ~(k > tapped)
    BY DEF IInv, TapsOK
  <2> QED
    BY <1>1, <2>1
<1>3. tap[k].kb.id \in Ids
    BY <1>2, Typing
<1>4. tap[k].ref <= count[tap[k].kb.id]
    BY <1>2 DEF IInv, TapsOK
<1>5. tap[k].ref \in Nat /\ (tap[k].ref # None => tap[k].ref \in Requests)
    BY Typing DEF Requests, None
<1> QED
    BY <1>2, <1>3, <1>4, <1>5

-----------------------------------------------------------------------------
(* The requester                                                           *)

\* The steps that only move the requester, and not to another request: a sent
\* keyboard, a failed send, the context or the timer.
LEMMA MovesInv == ASSUME IInv, NEW i \in Ids, Sent(i) \/ SendFails(i) \/ GiveUp(i)
                  PROVE  IInv'
<1>1. PICK p \in {"wait", "leave"} : Goto(i, p)
    BY DEF Sent, SendFails, GiveUp
<1>2. /\ pc[i] # "idle" /\ pc[i] # "leave"
      /\ UNCHANGED <<count, decidedBy, approvals, chan, buttons, tap, tapped, crashes, retired>>
    BY DEF Sent, SendFails, GiveUp, bounds
<1>3. TypeOK'
    BY <1>1, <1>2 DEF IInv, TypeOK, Goto, Registered
<1>4. pc' = [pc EXCEPT ![i] = p] /\ \A j \in Ids : pc'[j] = IF j = i THEN p ELSE pc[j]
    BY <1>1 DEF Goto, IInv, TypeOK
<1>5. EntryOwned' /\ FutureOK'
    BY <1>2, <1>4 DEF IInv, EntryOwned, FutureOK
<1>6. AnswerKept'
    BY <1>2, <1>4, SMTT(30) DEF IInv, AnswerKept, TypeOK
<1>7. TapsOK' /\ ChannelsOK'
    BY <1>2 DEF IInv, TapsOK, ChannelsOK
<1> QED
    BY <1>3, <1>5, <1>6, <1>7 DEF IInv

\* A new request: nothing is known of it yet, and no tap refers to it.
LEMMA BeginInv == ASSUME IInv, NEW i \in Ids, Begin(i) PROVE IInv'
<1> USE DEF None
<1>1. count[i] \in Nat /\ count[i] < MaxRequests /\ pc[i] = "idle"
    BY DEF Begin, MayAsk, IInv, TypeOK
<1>2. count' = [count EXCEPT ![i] = count[i] + 1] /\ count'[i] = count[i] + 1
    BY DEF Begin, IInv, TypeOK
<1>3. /\ approvals' = [approvals EXCEPT ![i] = count[i] + 1]
      /\ pc' = [pc EXCEPT ![i] = "send"]
      /\ UNCHANGED <<decidedBy, chan, buttons, tap, tapped, crashes, retired>>
    BY <1>2 DEF Begin, Goto, bounds
<1>4. TypeOK'
    BY <1>1, <1>2, <1>3, SMTT(30) DEF IInv, TypeOK, Registered
<1>5. EntryOwned'
    BY <1>1, <1>2, <1>3, Typing DEF IInv, EntryOwned, TypeOK
<1>10. FutureOK'
  <2>1. \A j \in Ids : count'[j] = IF j = i THEN count[i] + 1 ELSE count[j]
    BY <1>2, Typing DEF IInv, TypeOK
  <2>2. \A j \in Ids : j # i => pc'[j] = pc[j]
    BY <1>3 DEF IInv, TypeOK
  <2>3. \A j \in Ids : count'[j] \in Nat /\ count[j] \in Nat /\ count'[j] >= count[j]
    BY <2>1, Typing
  <2> QED
    BY <1>1, <1>3, <2>1, <2>2, <2>3 DEF IInv, FutureOK, Requests
<1>6. AnswerKept'
  <2> SUFFICES ASSUME NEW k \in Taps, tap[k].at = "done", tap[k].ref # None,
                      tap[k].kb.id = i
               PROVE  approvals'[i] # tap[k].ref
    <3> SUFFICES ASSUME NEW l \in Taps, tap[l].at = "done", tap[l].ref # None,
                        tap[l].kb.id # i
                 PROVE  LET j == tap[l].kb.id  o == tap[l].ref
                        IN \/ chan[j][o] # None \/ decidedBy[j][o] # None
                           \/ approvals'[j] # o \/ pc'[j] = "leave"
        BY <1>3 DEF AnswerKept
    <3>1. tap[l].kb.id \in Ids
        BY Tapped
    <3>2. approvals'[tap[l].kb.id] = approvals[tap[l].kb.id] /\ pc'[tap[l].kb.id] = pc[tap[l].kb.id]
        BY <1>3, <3>1 DEF IInv, TypeOK
    <3> QED
        BY <3>2 DEF IInv, AnswerKept
  <2>1. k <= tapped /\ tap[k].ref <= count[i] /\ tap[k].ref \in Nat
    BY Tapped
  <2> QED
    BY <1>1, <1>3, <2>1 DEF IInv, TypeOK
<1>7. TapsOK'
  <2>1. \A j \in Ids : count[j] \in Nat /\ count'[j] \in Nat /\ count[j] <= count'[j]
    BY <1>2, Typing DEF IInv, TypeOK
  <2>2. \A kb \in buttons : kb \in Keyboards
    BY DEF IInv, TypeOK
  <2> QED
    BY <1>3, <2>1, <2>2, Typing DEF IInv, TapsOK
<1>8. ChannelsOK'
    BY <1>3 DEF IInv, ChannelsOK
<1> QED
    BY <1>4, <1>5, <1>6, <1>7, <1>8, <1>10 DEF IInv

LEMMA ShowInv == ASSUME IInv, NEW i \in Ids, Show(i) PROVE IInv'
<1> DEFINE kb == [id |-> i, req |-> count[i]]
<1>1. /\ pc[i] = "send" /\ pc' = [pc EXCEPT ![i] = "shown"]
      /\ buttons' = buttons \union {kb}
      /\ UNCHANGED <<count, decidedBy, approvals, chan, tap, tapped, crashes, retired>>
    BY DEF Show, Goto, bounds
<1>2. count[i] \in Requests
    BY <1>1, Typing
<1>3. TypeOK'
    BY <1>1, <1>2 DEF IInv, TypeOK, Registered, Keyboards
<1>4. EntryOwned' /\ FutureOK' /\ AnswerKept'
    BY <1>1 DEF IInv, EntryOwned, FutureOK, AnswerKept, TypeOK
<1>5. TapsOK'
    BY <1>1, <1>2 DEF IInv, TapsOK, Requests
<1>6. ChannelsOK'
    BY <1>1 DEF IInv, ChannelsOK
<1> QED
    BY <1>3, <1>4, <1>5, <1>6 DEF IInv

\* The answer in the channel of a request was put there for this request.
LEMMA ReceiveInv == ASSUME IInv, NEW i \in Ids, Receive(i) PROVE IInv'
<1> USE DEF None
<1> DEFINE n == count[i]
           k == chan[i][n]
<1>1. /\ pc[i] = "wait" /\ k # None /\ pc' = [pc EXCEPT ![i] = "leave"]
      /\ decidedBy' = [decidedBy EXCEPT ![i][n] = k]
      /\ chan' = [chan EXCEPT ![i][n] = None]
      /\ UNCHANGED <<count, approvals, buttons, tap, tapped, crashes, retired>>
    BY DEF Receive, Goto, bounds
<1>2. n \in Requests
    BY <1>1, Typing
<1>3. /\ k \in Taps /\ k <= tapped
      /\ tap[k].at = "done" /\ tap[k].kb.id = i /\ tap[k].ref = n
    BY <1>1, <1>2 DEF IInv, TypeOK, ChannelsOK, Taps
<1>5. \A j \in Ids, o \in Requests :
         /\ chan'[j][o] = IF j = i /\ o = n THEN None ELSE chan[j][o]
         /\ decidedBy'[j][o] = IF j = i /\ o = n THEN k ELSE decidedBy[j][o]
    BY <1>1, <1>2 DEF IInv, TypeOK
<1>6. TypeOK'
    BY <1>1, <1>2, <1>3, SMTT(30) DEF IInv, TypeOK, Registered, Taps
<1>7. EntryOwned' /\ FutureOK'
    BY <1>1, <1>2, <1>5, SMTT(30) DEF IInv, EntryOwned, FutureOK, TypeOK, Requests
<1>8. AnswerKept'
  <2> SUFFICES ASSUME NEW l \in Taps, tap[l].at = "done", tap[l].ref # None
               PROVE  LET j == tap[l].kb.id  o == tap[l].ref
                      IN \/ chan'[j][o] # None \/ decidedBy'[j][o] # None
                         \/ approvals'[j] # o \/ pc'[j] = "leave"
    BY <1>1 DEF AnswerKept
  <2>1. tap[l].kb.id \in Ids /\ tap[l].ref \in Requests
    BY DEF IInv, TypeOK, TapsOK, Taps, Requests, Keyboards
  <2> QED
    BY <1>1, <1>3, <1>5, <2>1 DEF IInv, AnswerKept, TypeOK, Taps
<1>10. TapsOK' /\ ChannelsOK'
    BY <1>1, <1>5 DEF IInv, TapsOK, ChannelsOK
<1> QED
    BY <1>6, <1>7, <1>8, <1>10 DEF IInv

LEMMA LeaveInv == ASSUME IInv, NEW i \in Ids, Leave(i) PROVE IInv'
<1>1. /\ pc[i] = "leave" /\ pc' = [pc EXCEPT ![i] = "idle"]
      /\ approvals' = [approvals EXCEPT ![i] = None]
      /\ UNCHANGED <<count, decidedBy, chan, buttons, tap, tapped, crashes, retired>>
    BY DEF Leave, Goto, bounds
<1>2. TypeOK'
    BY <1>1 DEF IInv, TypeOK, None
<1>3. EntryOwned' /\ FutureOK'
    BY <1>1 DEF IInv, EntryOwned, FutureOK, TypeOK
<1>4. AnswerKept'
    BY <1>1, SMTT(30) DEF IInv, AnswerKept, TypeOK, TapsOK, Keyboards
<1>5. TapsOK' /\ ChannelsOK'
    BY <1>1 DEF IInv, TapsOK, ChannelsOK
<1> QED
    BY <1>2, <1>3, <1>4, <1>5 DEF IInv
-----------------------------------------------------------------------------
(* The taps                                                                *)

LEMMA TapInv == ASSUME IInv, NEW kb \in buttons, Tap(kb) PROVE IInv'
<1> USE DEF None
<1> DEFINE k == tapped + 1
<1>1. /\ tapped < MaxTaps /\ tapped' = k
      /\ tap' = [tap EXCEPT ![k] = [at |-> "queued", ref |-> None, kb |-> kb]]
      /\ UNCHANGED <<pc, count, decidedBy, approvals, chan, buttons, crashes, retired>>
    BY DEF Tap, requester
<1>2. k \in Taps /\ kb \in Keyboards /\ kb.req <= count[kb.id] /\ tapped \in Nat
    BY <1>1 DEF IInv, TypeOK, TapsOK, Taps
<1>3. \A l \in Taps : tap'[l] = IF l = k THEN [at |-> "queued", ref |-> None, kb |-> kb]
                                ELSE tap[l]
    BY <1>1, <1>2 DEF IInv, TypeOK
<1>4. TypeOK'
    BY <1>1, <1>2 DEF IInv, TypeOK
<1>5. EntryOwned' /\ FutureOK'
    BY <1>1 DEF IInv, EntryOwned, FutureOK
<1>6. AnswerKept'
    BY <1>1, <1>3 DEF IInv, AnswerKept
<1>7. \A i \in Ids, n \in Requests :
         chan[i][n] # None => chan[i][n] \in Taps /\ chan[i][n] <= tapped
    BY DEF IInv, TypeOK, ChannelsOK, Taps
<1>8. ChannelsOK'
  <2>1. \A l \in Taps : l <= tapped => tap'[l] = tap[l] /\ l <= tapped'
    BY <1>1, <1>2, <1>3 DEF Taps
  <2> QED
    BY <1>1, <1>7, <2>1 DEF IInv, ChannelsOK
<1>9. TapsOK'
  <2>1. \A l \in Taps : l \in Nat /\ (l <= tapped' <=> l <= tapped \/ l = k)
    BY <1>1, <1>2 DEF Taps
  <2>2. count[kb.id] \in Nat
    BY <1>2, Typing
  <2> QED
    BY <1>1, <1>2, <1>3, <2>1, <2>2 DEF IInv, TapsOK, Taps
<1> QED
    BY <1>4, <1>5, <1>6, <1>8, <1>9 DEF IInv

\* A tap whose handler is not done is in no channel.
LEMMA DeliverInv == ASSUME IInv, NEW k \in Taps, Deliver(k) PROVE IInv'
<1> USE DEF None
<1>1. /\ tap[k].at = "queued" /\ tap' = [tap EXCEPT ![k].at = "load"]
      /\ buttons' \subseteq buttons
      /\ UNCHANGED <<pc, count, decidedBy, approvals, chan, tapped, crashes, retired>>
    BY DEF Deliver, Step, requester, bounds
<1>2. \A l \in Taps : tap'[l] = IF l = k THEN [tap[k] EXCEPT !.at = "load"] ELSE tap[l]
    BY <1>1 DEF IInv, TypeOK
<1>3. \A l \in Taps : /\ tap'[l].kb = tap[l].kb /\ tap'[l].ref = tap[l].ref
                      /\ tap'[l].at = IF l = k THEN "load" ELSE tap[l].at
    BY <1>2 DEF IInv, TypeOK
<1>4. TypeOK'
    BY <1>1 DEF IInv, TypeOK, Handling
<1>5. EntryOwned' /\ FutureOK'
    BY <1>1 DEF IInv, EntryOwned, FutureOK
<1>6. AnswerKept'
    BY <1>1, <1>3 DEF IInv, AnswerKept
<1>7. TapsOK'
    BY <1>1, <1>3 DEF IInv, TapsOK
<1>8. ChannelsOK'
  <2>1. \A i \in Ids, n \in Requests : chan[i][n] # None => chan[i][n] \in Taps
    BY DEF IInv, TypeOK, Taps
  <2> QED
    BY <1>1, <1>3, <2>1 DEF IInv, ChannelsOK
<1> QED
    BY <1>4, <1>5, <1>6, <1>7, <1>8 DEF IInv

\* The request that is loaded is the latest of its id.
LEMMA LoadInv == ASSUME IInv, NEW k \in Taps, Load(k) PROVE IInv'
<1> USE DEF None
<1> DEFINE i == tap[k].kb.id
           n == approvals[i]
           p == IF n = None THEN "done" ELSE "post"
<1>1. /\ tap[k].at = "load" /\ tap' = [tap EXCEPT ![k].at = p, ![k].ref = n]
      /\ UNCHANGED <<pc, count, decidedBy, approvals, chan, buttons, tapped, crashes, retired>>
    BY DEF Load, requester, bounds
<1>11. UNCHANGED <<chan, decidedBy, tapped, crashes>>
    BY <1>1
<1>2. k <= tapped /\ i = tap[k].kb.id /\ i \in Ids /\ tap[k].kb.req <= count[i] /\ tap[k].kb.req \in Nat
    BY <1>1, Typing DEF IInv, TapsOK, TypeOK, Taps
<1>3. /\ n \in 0 .. MaxRequests /\ n <= count[i] /\ count[i] \in Nat
      /\ n # None => n = count[i]
    BY <1>2, Typing DEF IInv, EntryOwned
<1>4. /\ \A l \in Taps : l # k => tap'[l] = tap[l]
      /\ tap'[k].kb = tap[k].kb /\ tap'[k].ref = n /\ tap'[k].at = p
    BY <1>1 DEF IInv, TypeOK
<1>10. /\ p \in {"done", "post"} /\ p # "unused"
       /\ p = "done" => n = None
       /\ p = "post" => n # None
    OBVIOUS
<1> HIDE DEF i, n, p
<1>5. TypeOK'
  <2>2. tap' \in [Taps -> [at : {"unused", "queued", "done", "lost"} \union Handling,
                           ref : 0 .. MaxRequests, kb : Keyboards \union {Unused.kb}]]
    BY <1>1, <1>3, <1>10, ZenonT(30) DEF IInv, TypeOK, Handling
  <2> QED
    BY <1>1, <2>2 DEF IInv, TypeOK
<1>6. EntryOwned' /\ FutureOK'
    BY <1>1 DEF IInv, EntryOwned, FutureOK
<1>7. AnswerKept'
  <2> SUFFICES ASSUME NEW l \in Taps, tap'[l].at = "done", tap'[l].ref # None
               PROVE  LET j == tap'[l].kb.id  o == tap'[l].ref
                      IN \/ chan[j][o] # None \/ decidedBy[j][o] # None
                         \/ approvals[j] # o \/ pc[j] = "leave"
    BY <1>1 DEF AnswerKept
  <2>1. l # k
    BY <1>4, <1>10
  <2> QED
    BY <1>4, <2>1 DEF IInv, AnswerKept
<1>8. TapsOK'
  <2> SUFFICES ASSUME NEW l \in Taps
               PROVE  /\ tap'[l].at = "unused" <=> l > tapped
                      /\ l <= tapped => /\ tap'[l].kb \in Keyboards
                                        /\ tap'[l].kb.req <= count[tap'[l].kb.id]
                                        /\ tap'[l].ref <= count[tap'[l].kb.id]
                      /\ tap'[l].at = "post" => tap'[l].ref # None
    BY <1>1 DEF IInv, TapsOK
  <2>1. CASE l = k
    <3>1. k \in Nat /\ tapped \in Nat
      BY Typing DEF Taps
    <3> QED
      BY <1>1, <1>2, <1>3, <1>4, <1>10, <2>1, <3>1, Typing
  <2>2. CASE l # k
    BY <1>4, <2>2 DEF IInv, TapsOK
  <2> QED
    BY <2>1, <2>2
<1>9. ChannelsOK'
  <2>1. \A j \in Ids, o \in Requests : chan[j][o] # None => chan[j][o] \in Taps
    BY DEF IInv, TypeOK, Taps
  <2>2. \A j \in Ids, o \in Requests : chan[j][o] # None => chan[j][o] # k
    BY <1>1 DEF IInv, ChannelsOK
  <2>3. \A j \in Ids, o \in Requests : chan[j][o] # None => tap'[chan[j][o]] = tap[chan[j][o]]
    BY <1>4, <2>1, <2>2
  <2> SUFFICES ASSUME NEW j \in Ids, NEW o \in Requests, chan[j][o] # None
               PROVE  LET l == chan[j][o]
                      IN /\ l <= tapped /\ tap'[l].at = "done"
                         /\ tap'[l].kb.id = j /\ tap'[l].ref = o
    BY <1>11 DEF ChannelsOK
  <2> QED
    BY <2>3 DEF IInv, ChannelsOK
<1> QED
    BY <1>5, <1>6, <1>7, <1>8, <1>9 DEF IInv

\* Full or not, the channel holds an answer afterwards.
LEMMA PostInv == ASSUME IInv, NEW k \in Taps, Post(k) PROVE IInv'
<1> USE DEF None
<1> DEFINE i == tap[k].kb.id
           n == tap[k].ref
<1>1. /\ tap[k].at = "post" /\ tap' = [tap EXCEPT ![k].at = "done"]
      /\ chan' = IF chan[i][n] = None THEN [chan EXCEPT ![i][n] = k] ELSE chan
      /\ UNCHANGED <<pc, count, decidedBy, approvals, buttons, tapped, crashes, retired>>
    BY DEF Post, Step, requester, bounds
<1>2. /\ k <= tapped /\ i = tap[k].kb.id /\ n = tap[k].ref /\ i \in Ids /\ n \in Requests /\ n <= count[i]
      /\ k \in Nat /\ k # None /\ k <= MaxTaps
  <2>1. k <= tapped /\ n # None
    BY <1>1, Typing DEF IInv, TapsOK, TypeOK, Taps
  <2> QED
    BY <2>1, Typing DEF IInv, TapsOK, Taps, Requests
<1>3. \A l \in Taps : /\ tap'[l].kb = tap[l].kb /\ tap'[l].ref = tap[l].ref
                      /\ tap'[l].at = IF l = k THEN "done" ELSE tap[l].at
    BY <1>1 DEF IInv, TypeOK
<1> HIDE DEF i, n
<1>4. \A j \in Ids, o \in Requests :
         chan'[j][o] = IF j = i /\ o = n /\ chan[i][n] = None THEN k ELSE chan[j][o]
    BY <1>1, <1>2 DEF IInv, TypeOK
<1>5. TypeOK'
  <2>1. chan' \in [Ids -> [Requests -> 0 .. MaxTaps]]
    BY <1>1, <1>2 DEF IInv, TypeOK
  <2> QED
    BY <1>1, <2>1 DEF IInv, TypeOK
<1>6. EntryOwned'
    BY <1>1 DEF IInv, EntryOwned
<1>7. FutureOK'
  <2>1. count[i] \in Nat
    BY <1>2, Typing
  <2>2. ASSUME NEW j \in Ids, NEW o \in Requests, o > count[j]
        PROVE  chan'[j][o] = None /\ decidedBy[j][o] = None
    <3>1. ~(j = i /\ o = n)
      BY <1>2, <2>1, <2>2 DEF Requests
    <3>2. chan[j][o] = None /\ decidedBy[j][o] = None
      BY <2>2 DEF IInv, FutureOK
    <3> QED
      BY <1>4, <3>1, <3>2
  <2> QED
    BY <1>1, <2>2 DEF IInv, FutureOK
<1>8. AnswerKept'
  <2> SUFFICES ASSUME NEW l \in Taps, tap'[l].at = "done", tap[l].ref # None
               PROVE  LET j == tap[l].kb.id  o == tap[l].ref
                      IN \/ chan'[j][o] # None \/ decidedBy[j][o] # None
                         \/ approvals[j] # o \/ pc[j] = "leave"
    BY <1>1, <1>3, SMTT(30) DEF AnswerKept
  <2>1. CASE l = k
    BY <1>2, <1>4, <2>1
  <2>2. CASE l # k
    <3>1. tap[l].at = "done"
      BY <1>3, <2>2
    <3>2. tap[l].kb.id \in Ids /\ tap[l].ref \in Requests
      BY <3>1, Tapped
    <3> QED
      BY <1>2, <1>4, <3>1, <3>2, SMTT(30) DEF IInv, AnswerKept
  <2> QED
    BY <2>1, <2>2
<1>9. TapsOK'
    BY <1>1, <1>3 DEF IInv, TapsOK
<1>11. ChannelsOK'
  <2>1. \A j \in Ids, o \in Requests : chan[j][o] # None => chan[j][o] \in Taps
    BY DEF IInv, TypeOK, Taps
  <2> SUFFICES ASSUME NEW j \in Ids, NEW o \in Requests, chan'[j][o] # None
               PROVE  LET l == chan'[j][o]
                      IN /\ l <= tapped /\ tap'[l].at = "done"
                         /\ tap'[l].kb.id = j /\ tap'[l].ref = o
    BY <1>1 DEF ChannelsOK
  <2>2. CASE j = i /\ o = n /\ chan[i][n] = None
    BY <1>2, <1>3, <1>4, <2>2
  <2>3. CASE ~(j = i /\ o = n /\ chan[i][n] = None)
    <3>1. chan'[j][o] = chan[j][o] /\ chan[j][o] \in Taps
      BY <1>4, <2>1, <2>3
    <3> QED
      BY <1>1, <1>3, <3>1 DEF IInv, ChannelsOK
  <2> QED
    BY <2>2, <2>3
<1> QED
    BY <1>5, <1>6, <1>7, <1>8, <1>9, <1>11 DEF IInv

-----------------------------------------------------------------------------
\* A restart empties the map and the channels, and what the handlers found is gone.
LEMMA CrashInv == ASSUME IInv, Crash PROVE IInv'
<1> USE DEF None
<1>1. /\ crashes < MaxCrashes /\ crashes' = crashes + 1
      /\ pc' = [i \in Ids |-> "idle"] /\ approvals' = [i \in Ids |-> None]
      /\ chan' = [i \in Ids |-> [n \in Requests |-> None]]
      /\ retired' = Background
      /\ UNCHANGED <<count, decidedBy, buttons, tapped>>
    BY DEF Crash
<1>2. PICK again \in SUBSET {k \in Taps : tap[k].at \in Handling \union {"done"}} :
         tap' = [k \in Taps |->
                   IF k \in again THEN [tap[k] EXCEPT !.at = "queued", !.ref = None]
                   ELSE [tap[k] EXCEPT !.at = IF @ \in Handling THEN "lost" ELSE @]]
    BY DEF Crash
<1>10. \A k \in again : tap[k].at # "unused"
    BY DEF Handling
<1>3. \A k \in Taps :
         \/ tap'[k] = [tap[k] EXCEPT !.at = "queued", !.ref = None] /\ tap[k].at # "unused"
         \/ tap'[k] = [tap[k] EXCEPT !.at = "lost"] /\ tap[k].at # "unused"
         \/ tap'[k] = [tap[k] EXCEPT !.at = @] /\ tap[k].at \notin Handling
  <2> SUFFICES ASSUME NEW k \in Taps
               PROVE  \/ tap'[k] = [tap[k] EXCEPT !.at = "queued", !.ref = None] /\ tap[k].at # "unused"
                      \/ tap'[k] = [tap[k] EXCEPT !.at = "lost"] /\ tap[k].at # "unused"
                      \/ tap'[k] = [tap[k] EXCEPT !.at = @] /\ tap[k].at \notin Handling
    OBVIOUS
  <2>1. CASE k \in again
    BY <1>2, <1>10, <2>1
  <2>2. CASE k \notin again /\ tap[k].at \in Handling
    <3>1. tap'[k] = [tap[k] EXCEPT !.at = "lost"]
      BY <1>2, <2>2
    <3> QED
      BY <2>2, <3>1 DEF Handling
  <2>3. CASE k \notin again /\ tap[k].at \notin Handling
    BY <1>2, <2>3
  <2> QED
    BY <2>1, <2>2, <2>3
<1>4. \A k \in Taps :
         /\ tap'[k].kb = tap[k].kb
         /\ tap'[k].ref = None \/ tap'[k].ref = tap[k].ref
         /\ tap'[k].at = "unused" <=> tap[k].at = "unused"
         /\ tap'[k].at # "post"
  <2> SUFFICES ASSUME NEW k \in Taps
               PROVE  /\ tap'[k].kb = tap[k].kb
                      /\ tap'[k].ref = None \/ tap'[k].ref = tap[k].ref
                      /\ tap'[k].at = "unused" <=> tap[k].at = "unused"
                      /\ tap'[k].at # "post"
    OBVIOUS
  <2>1. tap[k] \in [at : {"unused", "queued", "done", "lost"} \union Handling,
                    ref : 0 .. MaxRequests, kb : Keyboards \union {Unused.kb}]
    BY DEF IInv, TypeOK
  <2>2. CASE tap'[k] = [tap[k] EXCEPT !.at = "queued", !.ref = None] /\ tap[k].at # "unused"
    BY <2>1, <2>2
  <2>3. CASE tap'[k] = [tap[k] EXCEPT !.at = "lost"] /\ tap[k].at # "unused"
    BY <2>1, <2>3
  <2>4. CASE tap'[k] = [tap[k] EXCEPT !.at = @] /\ tap[k].at \notin Handling
    BY <2>1, <2>4 DEF Handling
  <2> QED
    BY <1>3, <2>2, <2>3, <2>4
<1>5. crashes \in Nat /\ crashes' > 0 /\ crashes' \in 0 .. MaxCrashes
    BY <1>1 DEF IInv, TypeOK
<1>6. TypeOK'
  <2>1. \A k \in Taps :
           tap'[k] \in [at : {"unused", "queued", "done", "lost"} \union Handling,
                        ref : 0 .. MaxRequests, kb : Keyboards \union {Unused.kb}]
    <3> SUFFICES ASSUME NEW k \in Taps
                 PROVE  tap'[k] \in [at : {"unused", "queued", "done", "lost"} \union Handling,
                                     ref : 0 .. MaxRequests, kb : Keyboards \union {Unused.kb}]
      OBVIOUS
    <3>1. tap[k] \in [at : {"unused", "queued", "done", "lost"} \union Handling,
                      ref : 0 .. MaxRequests, kb : Keyboards \union {Unused.kb}]
      BY DEF IInv, TypeOK
    <3>2. CASE tap'[k] = [tap[k] EXCEPT !.at = "queued", !.ref = None] /\ tap[k].at # "unused"
    <4>1. tap'[k] = [at |-> "queued", ref |-> None, kb |-> tap[k].kb]
      BY <3>1, <3>2
    <4>2. None \in 0 .. MaxRequests /\ tap[k].kb \in Keyboards \union {Unused.kb}
      BY <3>1
    <4> QED
      BY <4>1, <4>2
    <3>3. CASE tap'[k] = [tap[k] EXCEPT !.at = "lost"] /\ tap[k].at # "unused"
      BY <3>1, <3>3
    <3>4. CASE tap'[k] = [tap[k] EXCEPT !.at = @] /\ tap[k].at \notin Handling
      BY <3>1, <3>4
    <3> QED
      BY <1>3, <3>2, <3>3, <3>4
  <2>2. tap' \in [Taps -> [at : {"unused", "queued", "done", "lost"} \union Handling,
                           ref : 0 .. MaxRequests, kb : Keyboards \union {Unused.kb}]]
    BY <1>2, <2>1
  <2> QED
    BY <1>1, <1>5, <2>2 DEF IInv, TypeOK
<1>7. EntryOwned' /\ FutureOK' /\ ChannelsOK'
    BY <1>1 DEF IInv, EntryOwned, FutureOK, ChannelsOK
<1>11. AnswerKept'
  <2>1. \A k \in Taps : tap[k].at # "unused" => tap[k].kb.id \in Ids
    BY Typing DEF IInv, TapsOK, Taps
  <2>2. \A k \in Taps : tap'[k].at = "done" => tap'[k].kb.id \in Ids
    BY <1>4, <2>1
  <2> QED
    BY <1>1, <2>2 DEF AnswerKept
<1>8. TapsOK'
    BY <1>1, <1>4, Typing DEF IInv, TapsOK
<1> QED
    BY <1>6, <1>7, <1>8, <1>11 DEF IInv

-----------------------------------------------------------------------------
(* The theorems                                                            *)

\* The map and the tasks keep their invariant in every step: a request that
\* begins, is shown, waits, receives, gives up or returns; a tap, its
\* handler's load and its post; a restart.
LEMMA StepInv == IInv /\ [Next]_vars => IInv'
<1> SUFFICES ASSUME IInv, [Next]_vars PROVE IInv'
    OBVIOUS
<1>1. ASSUME NEW i \in Ids, Begin(i) \/ Requester(i) PROVE IInv'
  <2>1. CASE Begin(i)
    BY <2>1, BeginInv
  <2>2. CASE Show(i)
    BY <2>2, ShowInv
  <2>3. CASE Sent(i) \/ SendFails(i) \/ GiveUp(i)
    BY <2>3, MovesInv
  <2>4. CASE Receive(i)
    BY <2>4, ReceiveInv
  <2>5. CASE Leave(i)
    BY <2>5, LeaveInv
  <2> QED
    BY <1>1, <2>1, <2>2, <2>3, <2>4, <2>5 DEF Requester
<1>2. ASSUME NEW kb \in buttons, Tap(kb) PROVE IInv'
    BY <1>2, TapInv
<1>3. ASSUME NEW k \in Taps, Handler(k) PROVE IInv'
    BY <1>3, DeliverInv, LoadInv, PostInv DEF Handler
<1>4. CASE Crash
    BY <1>4, CrashInv
<1>5. CASE UNCHANGED vars
    BY <1>5 DEF vars, requester, bounds, IInv, TypeOK, EntryOwned, AnswerKept,
                FutureOK, TapsOK, ChannelsOK
<1> QED
    BY <1>1, <1>2, <1>3, <1>4, <1>5 DEF Next

\* The inductive invariant holds in every state of requestApproval, of the
\* callback handlers and of restarts.
THEOREM Invariance == Spec => []IInv
<1>1. Init => IInv
    BY InitInv
<1>2. IInv /\ [Next]_vars => IInv'
    BY StepInv
<1> QED
    BY <1>1, <1>2, PTL DEF Spec

\* While a request is open the map names its channel and no other, and it names
\* none of a request that has returned: the deferred Delete is never too early
\* and no path goes without it.
THEOREM EntriesAreOwned == Spec => []EntryOwned
<1>1. IInv => EntryOwned
    BY DEF IInv
<1> QED
    BY <1>1, Invariance, PTL

\* ResolveApproval loses no first answer: a handler that found its request and is
\* done has left that request answered, full of an answer, or returning.
THEOREM AnswersAreKept == Spec => []AnswerKept
<1>1. IInv => AnswerKept
    BY DEF IInv
<1> QED
    BY <1>1, Invariance, PTL

\* Whatever decides a request was tapped under its own id and found this request
\* open; nothing is left over for a later one.
THEOREM AnswersAreAwaited == Spec => AnswerIsAwaited
<1> DEFINE A ==
      /\ \A k \in Taps : tap[k].ref = None /\ tap'[k].ref # None =>
            LET i == tap[k].kb.id IN pc[i] # "idle" /\ tap'[k].ref = count[i]
      /\ \A i \in Ids, n \in Requests : decidedBy[i][n] = None /\ decidedBy'[i][n] # None =>
            LET k == decidedBy'[i][n] IN tap[k].kb.id = i /\ tap[k].ref = n
<1>1. IInv /\ [Next]_vars => [A]_vars
  <2> SUFFICES ASSUME IInv, Next PROVE A
    OBVIOUS
  <2>1. CASE \E k \in Taps : Load(k)
    <3>1. PICK k \in Taps : Load(k)
      BY <2>1
    <3>2. /\ tap[k].at = "load" /\ UNCHANGED decidedBy
          /\ tap'[k].ref = approvals[tap[k].kb.id]
          /\ \A l \in Taps : l # k => tap'[l] = tap[l]
      BY <3>1 DEF Load, requester, IInv, TypeOK
    <3>3. tap[k].kb.id \in Ids
      BY <3>2, Typing DEF IInv, TapsOK, TypeOK, Taps
    <3> QED
      BY <3>2, <3>3 DEF IInv, EntryOwned
  <2>2. CASE \E i \in Ids : Receive(i)
    <3>1. PICK i \in Ids : Receive(i)
      BY <2>2
    <3> DEFINE n == count[i]
    <3>2. /\ pc[i] # "idle" /\ UNCHANGED tap
          /\ chan[i][n] # None /\ decidedBy' = [decidedBy EXCEPT ![i][n] = chan[i][n]]
      BY <3>1 DEF Receive, bounds
    <3>3. n \in Requests
      BY <3>2, Typing
    <3>4. \A j \in Ids, o \in Requests :
             decidedBy'[j][o] = IF j = i /\ o = n THEN chan[i][n] ELSE decidedBy[j][o]
      BY <3>2, <3>3 DEF IInv, TypeOK
    <3>5. tap[chan[i][n]].kb.id = i /\ tap[chan[i][n]].ref = n
      BY <3>2, <3>3 DEF IInv, ChannelsOK
    <3> QED
      BY <3>2, <3>4, <3>5, SMTT(30)
  <2>3. CASE ~(\E k \in Taps : Load(k)) /\ ~(\E i \in Ids : Receive(i))
    <3>1. UNCHANGED decidedBy
      BY <2>3 DEF Next, Requester, Handler, Begin, Show, Sent, SendFails, GiveUp, Leave, Tap,
                  Deliver, Post, Crash, requester, bounds
    <3>2. ASSUME NEW k \in Taps, tap[k].ref = None PROVE tap'[k].ref = None
      <4>1. CASE UNCHANGED tap
        BY <3>2, <4>1
      <4>2. CASE \E l \in Taps : Deliver(l) \/ Post(l)
        <5>1. PICK l \in Taps, p \in {"load", "done"} : tap' = [tap EXCEPT ![l].at = p]
          BY <4>2 DEF Deliver, Post, Step
        <5>2. tap'[k] = tap[k] \/ tap'[k] = [tap[k] EXCEPT !.at = p]
          BY <5>1 DEF IInv, TypeOK
        <5> QED
          BY <3>2, <5>2 DEF IInv, TypeOK
      <4>3. CASE \E kb \in buttons : Tap(kb)
        BY <3>2, <4>3 DEF Tap, IInv, TypeOK
      <4>4. CASE Crash
        <5>1. \/ tap'[k] = [tap[k] EXCEPT !.at = "queued", !.ref = None]
              \/ tap'[k] = [tap[k] EXCEPT !.at = IF @ \in Handling THEN "lost" ELSE @]
          BY <4>4 DEF Crash
        <5> QED
          BY <3>2, <5>1 DEF IInv, TypeOK
      <4> QED
        BY <2>3, <4>1, <4>2, <4>3, <4>4 DEF Next, Requester, Handler, Begin, Show, Sent,
           SendFails, GiveUp, Leave
    <3> QED
      BY <3>1, <3>2
  <2> QED
    BY <2>1, <2>2, <2>3
<1> QED
    BY <1>1, Invariance, PTL DEF Spec, AnswerIsAwaited
=============================================================================
