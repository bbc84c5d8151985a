---------------------------- MODULE OutboxProofs ----------------------------
(***************************************************************************)
(* The outbox, for any answers of any number of chunks and any number of   *)
(* faults: what inbox.json records as done or sent has arrived or is still *)
(* in a file nobody has broken, and the copies of an answer in the chat    *)
(* are bounded by the faults there have been.                              *)
(***************************************************************************)
EXTENDS Outbox, FiniteSetTheorems, WellFoundedInduction, TLAPS

USE BoundsAssumption, NoneAssumption

-----------------------------------------------------------------------------
(* Entries that are due                                                    *)

LEMMA DueFinite ==
    ASSUME NEW entries \in Entries, NEW a
    PROVE  IsFiniteSet(Due(entries, a)) /\ Cardinality(Due(entries, a)) \in Nat
<1>1. Len(entries) \in Nat
    BY DEF Entries
<1>2. IsFiniteSet(1 .. Len(entries))
    BY <1>1, FS_Interval
<1>3. Due(entries, a) \in SUBSET (1 .. Len(entries))
    BY DEF Due
<1> QED
    BY <1>2, <1>3, FS_Subset, FS_CardinalityType

\* A new entry is one more to send if it is done.
LEMMA DueAppend ==
    ASSUME NEW entries \in Entries, NEW e \in Entry, NEW a \in Answers
    PROVE  /\ Append(entries, e) \in Entries
           /\ Due(entries, a) \subseteq Due(Append(entries, e), a)
           /\ e = [id |-> a, status |-> "done"] =>
                 /\ Due(Append(entries, e), a) # {}
                 /\ Cardinality(Due(Append(entries, e), a)) = Cardinality(Due(entries, a)) + 1
           /\ e # [id |-> a, status |-> "done"] =>
                 Due(Append(entries, e), a) = Due(entries, a)
<1> DEFINE longer == Append(entries, e)
           n == Len(entries) + 1
<1>1. longer \in Entries /\ Len(longer) = n /\ n \in Nat /\ n - 1 = Len(entries)
    BY DEF Entries
<1>2. \A i \in 1 .. n : longer[i] = IF i = n THEN e ELSE entries[i]
    BY DEF Entries
<1>3. n \notin Due(entries, a)
    BY <1>1 DEF Due, Entries
<1> HIDE DEF longer
<1>4. Due(entries, a) \subseteq Due(longer, a)
    BY <1>1, <1>2 DEF Due
<1>5. CASE e = [id |-> a, status |-> "done"]
  <2>1. Due(longer, a) = Due(entries, a) \union {n}
    BY <1>1, <1>2, <1>5 DEF Due
  <2> QED
    BY <1>1, <1>3, <1>4, <1>5, <2>1, DueFinite, FS_AddElement DEF longer
<1>6. CASE e # [id |-> a, status |-> "done"]
  <2>1. Due(longer, a) = Due(entries, a)
    BY <1>1, <1>2, <1>6 DEF Due
  <2> QED
    BY <1>1, <1>4, <1>6, <2>1 DEF longer
<1> QED
    BY <1>5, <1>6

\* An entry that is marked as sent is due no more, the others are as before.
LEMMA DueMark ==
    ASSUME NEW entries \in Entries, NEW n \in 1 .. Len(entries),
           NEW a \in Answers, entries[n] = [id |-> a, status |-> "done"]
    PROVE  LET marked == [entries EXCEPT ![n].status = "sent"]
           IN /\ marked \in Entries /\ Len(marked) = Len(entries)
              /\ \A i \in 1 .. Len(entries) :
                    marked[i] = IF i = n THEN [id |-> a, status |-> "sent"] ELSE entries[i]
              /\ Cardinality(Due(marked, a)) = Cardinality(Due(entries, a)) - 1
              /\ \A b \in Answers : b # a => Due(marked, b) = Due(entries, b)
<1> DEFINE marked == [entries EXCEPT ![n].status = "sent"]
           e == [id |-> a, status |-> "sent"]
<1>1. [entries[n] EXCEPT !.status = "sent"] = e /\ e \in Entry
    BY DEF Entry
<1>2. marked = [entries EXCEPT ![n] = e]
    BY <1>1
<1> HIDE DEF marked
<1>3. marked \in Entries /\ Len(marked) = Len(entries) /\ Len(entries) \in Nat
    BY <1>1, <1>2 DEF Entries
<1>4. \A i \in 1 .. Len(entries) : marked[i] = IF i = n THEN e ELSE entries[i]
    BY <1>2 DEF Entries
<1>5. n \in Due(entries, a)
    BY DEF Due
<1>6. Due(marked, a) = Due(entries, a) \ {n}
    BY <1>3, <1>4 DEF Due
<1>7. Cardinality(Due(marked, a)) = Cardinality(Due(entries, a)) - 1
    BY <1>5, <1>6, DueFinite, FS_RemoveElement
<1>8. ASSUME NEW b \in Answers, b # a PROVE Due(marked, b) = Due(entries, b)
    BY <1>3, <1>4, <1>8 DEF Due
<1> QED
    BY <1>3, <1>4, <1>7, <1>8 DEF marked

\* NextDone finds an entry that is due, or goes past the end.
LEMMA NextIsDone ==
    ASSUME NEW entries \in Entries, NEW i \in Nat, i > 0, i <= Len(entries) + 1
    PROVE  LET n == NextDone(entries, i)
           IN /\ n \in Nat /\ n > 0 /\ n <= Len(entries) + 1
              /\ n <= Len(entries) => entries[n].status = "done"
<1> DEFINE due == {j \in i .. Len(entries) : entries[j].status = "done"}
<1>1. Len(entries) \in Nat
    BY DEF Entries
<1>2. CASE due = {}
    BY <1>1, <1>2 DEF NextDone
<1>3. CASE due # {}
  <2>1. due \subseteq Nat
    BY <1>1
  <2>2. \E j \in due : \A k \in due : ~(<<k, j>> \in OpToRel(<, Nat))
    BY <1>3, <2>1, NatLessThanWellFounded, WFMin
  <2>3. \E j \in due : \A k \in due : j <= k
    <3>1. \A j, k \in Nat : k < j => <<k, j>> \in OpToRel(<, Nat)
      BY DEF OpToRel
    <3>2. \A j, k \in due : k < j \/ j <= k
      BY <2>1
    <3> QED
      BY <2>1, <2>2, <3>1, <3>2
  <2>4. NextDone(entries, i) \in due
    BY <1>3, <2>3 DEF NextDone
  <2> QED
    BY <1>1, <2>4
<1> QED
    BY <1>2, <1>3

-----------------------------------------------------------------------------
(* Counting                                                                *)

\* One fault more makes room for all entries again, one crash for one more too.
LEMMA Bounds ==
    ASSUME NEW c \in Nat, NEW f \in Nat
    PROVE  /\ Bound(c, f) \in Nat
           /\ Bound(c, f + 1) = Bound(c, f) + 1 + c
           /\ Bound(c + 1, f + 1) = Bound(c, f) + 3 + c + f
<1>1. (1 + c) * (1 + f) \in Nat
    OBVIOUS
<1>2. (1 + c) * (1 + (f + 1)) = (1 + c) * (1 + f) + 1 + c
    OBVIOUS
<1>3. (1 + (c + 1)) * (1 + (f + 1)) = (1 + c) * (1 + f) + 3 + c + f
    OBVIOUS
<1> QED
    BY <1>1, <1>2, <1>3 DEF Bound

\* What the invariant says of single answers and of the counters.
LEMMA Counts ==
    ASSUME IInv
    PROVE  /\ file \in Entries /\ View \in Entries /\ poller.copy \in Entries
           /\ lost \in Nat /\ bad \in Nat /\ crashes \in Nat /\ copies \in [Answers -> Nat]
           /\ worker \in Senders /\ poller \in Pollers
           /\ \A a \in Answers :
                 /\ copies[a] \in Nat /\ Pending(a) \in {0, 1}
                 /\ Cardinality(Due(file, a)) \in Nat /\ Cardinality(Due(View, a)) \in Nat
                 /\ Cardinality(Due(file, a)) + Pending(a) <= 1 + crashes
                 /\ copies[a] + Cardinality(Due(View, a)) + Pending(a)
                       <= Bound(crashes, lost + bad + crashes)
           /\ Bound(crashes, lost + bad + crashes) \in Nat
<1>1. /\ file \in Entries /\ poller \in Pollers /\ worker \in Senders
      /\ lost \in Nat /\ bad \in Nat /\ crashes \in Nat /\ copies \in [Answers -> Nat]
    BY DEF IInv, TypeOK
<1>2. poller.copy \in Entries
    BY <1>1 DEF Pollers
<1>3. View \in Entries
    BY <1>1, <1>2 DEF View
<1>4. \A a \in Answers : copies[a] \in Nat /\ Pending(a) \in {0, 1}
    BY <1>1 DEF Pending
<1>5. \A a \in Answers :
         /\ Cardinality(Due(file, a)) + Pending(a) <= 1 + crashes
         /\ copies[a] + Cardinality(Due(View, a)) + Pending(a)
               <= Bound(crashes, lost + bad + crashes)
    BY DEF IInv, CopiesOK
<1>6. Bound(crashes, lost + bad + crashes) \in Nat
    BY <1>1, Bounds
<1> QED
    BY <1>1, <1>2, <1>3, <1>4, <1>5, <1>6, DueFinite

LEMMA IdleSenders == Idle \in Senders /\ Rest \in Pollers /\ Len(Rest.copy) = 0
<1>1. <<>> \in Seq(Entry) /\ Len(<<>>) = 0
    OBVIOUS
<1> QED
    BY <1>1 DEF Idle, Rest, Senders, Pollers, Entries

LEMMA InitInv == Init => IInv
<1> SUFFICES ASSUME Init PROVE IInv
    OBVIOUS
<1>1. file \in Entries /\ Len(file) = 0 /\ file = <<>>
    BY DEF Init, Entries
<1>2. TypeOK
  <2>1. poller \in Pollers /\ poller.next <= Len(poller.copy) + 1 /\ worker \in Senders
    <3>1. Rest.next = 0
      BY DEF Rest
    <3> QED
      BY <3>1, IdleSenders DEF Init
  <2>2. mu \in {None, "poller"} /\ lost + bad + crashes <= MaxFaults
    BY DEF Init
  <2> QED
    BY <1>1, <2>1, <2>2 DEF Init, TypeOK
<1>3. RecordedIsSafe /\ WorkerOK /\ PollerOK
    BY DEF Init, RecordedIsSafe, WorkerOK, PollerOK, Idle, Rest
<1>4. CopiesOK
  <2>1. View = file
    BY DEF Init, View, Rest
  <2>2. \A a \in Answers : Due(file, a) = {}
    BY <1>1 DEF Due
  <2>3. \A a \in Answers : Pending(a) = 1
    BY DEF Init, Pending, Idle
  <2>4. Bound(0, 0) = 1
    BY DEF Bound
  <2> QED
    BY <2>1, <2>2, <2>3, <2>4, FS_EmptySet DEF Init, CopiesOK
<1> QED
    BY <1>2, <1>3, <1>4 DEF IInv

-----------------------------------------------------------------------------
(* Steps of the worker                                                     *)

LEMMA DeliverInv == ASSUME IInv, NEW a \in Answers, Deliver(a) PROVE IInv'
<1>1. /\ worker = Idle /\ inbox[a] = "processing"
      /\ worker' = [Idle EXCEPT !.at = "sending", !.ans = a, !.chunk = 1]
    BY DEF Deliver, IInv, WorkerOK
<1>2. UNCHANGED <<file, torn, inbox, mu, poller, copies, lost, bad, crashes, dropped, up>>
    BY DEF Deliver, faults
<1>3. /\ worker' \in Senders /\ worker'.at = "sending" /\ worker'.ans = a
      /\ worker'.chunk = 1 /\ worker'.verdict = None
  <2> DEFINE r == [Idle EXCEPT !.at = "sending"]
             q == [r EXCEPT !.ans = a]
  <2>1. r \in Senders /\ r.at = "sending" /\ r.verdict = None
    <3>1. Idle.verdict = None
      BY DEF Idle
    <3> QED
      BY <3>1, IdleSenders DEF Senders
  <2> HIDE DEF r
  <2>2. q \in Senders /\ q.at = "sending" /\ q.ans = a /\ q.verdict = None
    BY <2>1 DEF Senders
  <2> HIDE DEF q
  <2>3. worker' = [q EXCEPT !.chunk = 1]
    BY <1>1 DEF q, r
  <2> QED
    BY <2>2, <2>3 DEF Senders
<1>4. TypeOK'
    BY <1>2, <1>3 DEF IInv, TypeOK
<1>5. RecordedIsSafe' /\ PollerOK'
    BY <1>2 DEF IInv, RecordedIsSafe, PollerOK, InFile
<1>6. WorkerOK'
    BY <1>1, <1>2, <1>3 DEF WorkerOK, None
<1>7. \A b \in Answers : Pending(b)' = Pending(b)
  <2>1. worker.at = "idle" /\ worker.verdict = None
    BY <1>1 DEF Idle
  <2> QED
    BY <1>2, <1>3, <2>1 DEF Pending, None
<1>8. CopiesOK'
    BY <1>2, <1>7 DEF IInv, CopiesOK, View
<1> QED
    BY <1>4, <1>5, <1>6, <1>8 DEF IInv

\* A copy more costs a pending run, or the reply of a chunk.
LEMMA SendInv == ASSUME IInv, SendChunk PROVE IInv'
<1> DEFINE a == worker.ans
           F == lost + bad + crashes
<1>1. /\ worker.at = "sending" /\ a \in Answers /\ inbox[a] = "processing"
      /\ worker.chunk \in 1 .. Chunks /\ worker.verdict = None /\ worker \in Senders
    BY DEF SendChunk, IInv, TypeOK, WorkerOK, Senders
<1>2. UNCHANGED <<file, torn, inbox, up, mu, poller, dropped, bad, crashes>>
    BY DEF SendChunk, Accepted, Rejected, faults
<1>3. \/ /\ UNCHANGED <<copies, lost>>
         /\ worker' = [worker EXCEPT !.chunk = @ + 1] /\ worker.chunk < Chunks
      \/ /\ copies' = [copies EXCEPT ![a] = @ + 1] /\ lost' = lost
         /\ worker' = [worker EXCEPT !.at = "boxing", !.verdict = "sent"]
      \/ /\ UNCHANGED <<copies, lost>>
         /\ worker' = [worker EXCEPT !.at = "boxing", !.verdict = "done"]
      \/ /\ copies' = copies \/ copies' = [copies EXCEPT ![a] = @ + 1]
         /\ lost' = lost + 1 /\ F < MaxFaults
         /\ worker' = [worker EXCEPT !.at = "boxing", !.verdict = "done"]
    BY <1>1 DEF SendChunk, Accepted, Rejected, Arrived, faults, Spare
<1>4. /\ worker' \in Senders /\ worker'.ans = a
      /\ \/ worker'.at = "sending" /\ worker'.chunk > 0 /\ worker'.verdict = None
         \/ worker'.at = "boxing" /\ worker'.verdict \in {"sent", "done"}
  <2>1. CASE worker' = [worker EXCEPT !.chunk = @ + 1] /\ worker.chunk < Chunks
    BY <1>1, <2>1 DEF Senders
  <2>2. CASE worker' = [worker EXCEPT !.at = "boxing", !.verdict = "sent"]
    BY <1>1, <2>2 DEF Senders
  <2>3. CASE worker' = [worker EXCEPT !.at = "boxing", !.verdict = "done"]
    BY <1>1, <2>3 DEF Senders
  <2> QED
    BY <1>3, <2>1, <2>2, <2>3
<1>5. /\ worker'.verdict = "sent" =>
            copies' = [copies EXCEPT ![a] = @ + 1] /\ lost' = lost
      /\ worker'.verdict # "sent" =>
            \/ UNCHANGED <<copies, lost>>
            \/ /\ copies' = copies \/ copies' = [copies EXCEPT ![a] = @ + 1]
               /\ lost' = lost + 1 /\ F < MaxFaults
  <2>1. CASE worker' = [worker EXCEPT !.chunk = @ + 1] /\ UNCHANGED <<copies, lost>>
    BY <1>1, <2>1 DEF Senders, None
  <2>2. CASE /\ worker' = [worker EXCEPT !.at = "boxing", !.verdict = "sent"]
             /\ copies' = [copies EXCEPT ![a] = @ + 1] /\ lost' = lost
    BY <1>1, <2>2 DEF Senders
  <2>3. CASE /\ worker' = [worker EXCEPT !.at = "boxing", !.verdict = "done"]
             /\ \/ UNCHANGED <<copies, lost>>
                \/ /\ copies' = copies \/ copies' = [copies EXCEPT ![a] = @ + 1]
                   /\ lost' = lost + 1 /\ F < MaxFaults
    BY <1>1, <2>3 DEF Senders
  <2> QED
    BY <1>3, <2>1, <2>2, <2>3
<1> HIDE DEF a
<1>6. /\ copies' \in [Answers -> Nat]
      /\ \A b \in Answers : copies'[b] = copies[b] \/ (b = a /\ copies'[b] = copies[b] + 1)
    BY <1>1, <1>5, Counts
<1>7. TypeOK'
    BY <1>2, <1>4, <1>5, <1>6 DEF IInv, TypeOK
<1>8. \A b \in Answers : copies[b] \in Nat /\ (copies[b] > 0 => copies'[b] > 0)
    BY <1>6, Counts
<1>9. RecordedIsSafe'
    BY <1>2, <1>8 DEF IInv, RecordedIsSafe, InFile
<1>10. PollerOK'
  <2>1. \A i \in 1 .. Len(file) : file[i].id \in Answers
    <3>1. \A i \in 1 .. Len(file) : file[i] \in Entry
      BY Counts DEF Entries
    <3> QED
      BY <3>1 DEF Entry
  <2> QED
    BY <1>2, <1>8, <2>1 DEF IInv, PollerOK
<1>11. WorkerOK'
  <2>1. worker'.verdict = "sent" => copies'[a] > 0
    BY <1>1, <1>5, Counts
  <2> QED
    BY <1>1, <1>2, <1>4, <2>1 DEF WorkerOK, None
<1>12. CopiesOK'
  <2> SUFFICES ASSUME NEW b \in Answers
               PROVE  /\ Cardinality(Due(file, b)) + Pending(b)' <= 1 + crashes
                      /\ copies'[b] + Cardinality(Due(View, b)) + Pending(b)'
                            <= Bound(crashes, lost' + bad + crashes)
    BY <1>2 DEF CopiesOK, View
  <2>1. /\ Pending(b)' = IF b = a /\ worker'.verdict = "sent" THEN 0 ELSE Pending(b)
        /\ Pending(a) = 1
    BY <1>1, <1>2, <1>4 DEF Pending, None, a
  <2>2. CASE worker'.verdict = "sent"
    BY <1>1, <1>5, <2>1, <2>2, Counts
  <2>3. CASE worker'.verdict # "sent" /\ UNCHANGED <<copies, lost>>
    BY <2>1, <2>3, Counts
  <2>4. CASE worker'.verdict # "sent" /\ lost' = lost + 1
    <3>1. lost' + bad + crashes = F + 1 /\ F \in Nat /\ crashes \in Nat
      BY <2>4, Counts
    <3>2. Bound(crashes, lost' + bad + crashes) = Bound(crashes, F) + 1 + crashes
      BY <3>1, Bounds
    <3>3. copies'[b] <= copies[b] + 1 /\ copies'[b] \in Nat
      BY <1>6, Counts
    <3> QED
      BY <2>1, <2>4, <3>2, <3>3, Counts
  <2> QED
    BY <1>5, <2>2, <2>3, <2>4
<1> QED
    BY <1>7, <1>9, <1>10, <1>11, <1>12 DEF IInv

\* The entry takes the place of the run that was to come, and where it cannot be
\* written the answer is one of dropped.
LEMMA AppendInv == ASSUME IInv, AppendOutbox PROVE IInv'
<1> DEFINE a == worker.ans
           e == [id |-> a, status |-> worker.verdict]
           F == lost + bad + crashes
<1>1. /\ worker.at = "boxing" /\ mu = None /\ worker \in Senders
      /\ a \in Answers /\ inbox[a] = "processing"
      /\ worker.verdict \in {"done", "sent"}
      /\ worker.verdict = "sent" => copies[a] > 0
    BY DEF AppendOutbox, IInv, TypeOK, WorkerOK, Senders
<1>2. /\ UNCHANGED <<inbox, up, mu, poller, copies, lost, crashes>>
      /\ dropped \subseteq dropped' /\ dropped' \subseteq Answers
      /\ file' = file => a \in dropped'
    BY <1>1 DEF AppendOutbox, IInv, TypeOK
<1>3. \/ UNCHANGED <<file, torn, bad>>
      \/ ~torn /\ file' = Append(file, e) /\ UNCHANGED <<torn, bad>>
      \/ ~torn /\ file' = file /\ bad' = bad + 1 /\ torn' \in BOOLEAN /\ F < MaxFaults
    BY DEF AppendOutbox, Write, Spare
<1>4. /\ worker' \in Senders /\ worker'.at = "recording"
      /\ worker'.ans = a /\ worker'.verdict = worker.verdict
    BY <1>1 DEF AppendOutbox, Senders
<1>5. poller.at # "sending" /\ View = file /\ View' = file'
  <2>1. poller.at \in {"idle", "sending"}
    BY DEF IInv, TypeOK, Pollers
  <2>2. poller.at # "sending"
    BY <1>1, <2>1 DEF IInv, PollerOK, None
  <2> QED
    BY <1>2, <2>2 DEF View
<1>6. e \in Entry /\ \A b \in Answers : e = [id |-> b, status |-> "done"] <=>
                                            b = a /\ worker.verdict = "done"
    BY <1>1 DEF Entry
<1> HIDE DEF a, e
<1>7. file' \in Entries /\ \A b \in Answers : Due(file, b) \subseteq Due(file', b)
  <2>1. file \in Entries
    BY Counts
  <2>2. CASE file' = file
    BY <2>1, <2>2
  <2>3. CASE file' = Append(file, e)
    BY <1>1, <1>6, <2>1, <2>3, DueAppend
  <2> QED
    BY <1>3, <2>2, <2>3
<1>8. TypeOK'
    BY <1>2, <1>3, <1>4, <1>7 DEF IInv, TypeOK
<1>9. RecordedIsSafe'
    BY <1>2, <1>3, <1>7 DEF IInv, RecordedIsSafe, InFile
<1>10. PollerOK'
    BY <1>1, <1>2, <1>5 DEF IInv, TypeOK, PollerOK, Pollers
<1>11. WorkerOK'
  <2>1. Due(file', a) # {} \/ a \in dropped' \/ worker.verdict = "sent"
    <3>1. CASE file' = file
      BY <1>2, <3>1
    <3>2. CASE file' = Append(file, e)
      <4>1. file \in Entries /\ (worker.verdict = "done" => e = [id |-> a, status |-> "done"])
        BY <1>1, <1>6, Counts DEF a
      <4>2. worker.verdict = "done" => Due(Append(file, e), a) # {}
        BY <1>1, <1>6, <4>1, DueAppend DEF a
      <4> QED
        BY <1>1, <3>2, <4>2
    <3> QED
      BY <1>3, <3>1, <3>2
  <2> QED
    BY <1>1, <1>2, <1>4, <2>1 DEF WorkerOK, InFile, None
<1>12. CopiesOK'
  <2> SUFFICES ASSUME NEW b \in Answers
               PROVE  /\ Cardinality(Due(file', b)) + Pending(b)' <= 1 + crashes
                      /\ copies[b] + Cardinality(Due(file', b)) + Pending(b)'
                            <= Bound(crashes, lost + bad' + crashes)
    BY <1>2, <1>5 DEF CopiesOK
  <2>1. /\ Pending(b)' = IF b = a THEN 0 ELSE Pending(b)
        /\ Pending(a) = IF worker.verdict = "sent" THEN 0 ELSE 1
    BY <1>1, <1>2, <1>4 DEF Pending, a
  <2>2. /\ Cardinality(Due(file, b)) + Pending(b) <= 1 + crashes
        /\ copies[b] + Cardinality(Due(file, b)) + Pending(b) <= Bound(crashes, F)
        /\ Cardinality(Due(file, b)) \in Nat /\ Pending(b) \in {0, 1}
        /\ copies[b] \in Nat /\ crashes \in Nat /\ F \in Nat /\ Bound(crashes, F) \in Nat
    BY <1>5, Counts
  <2>3. CASE UNCHANGED <<file, torn, bad>>
    BY <2>1, <2>2, <2>3
  <2>4. CASE file' = Append(file, e) /\ bad' = bad
    <3>1. CASE b = a /\ worker.verdict = "done"
      <4>1. Cardinality(Due(file', b)) = Cardinality(Due(file, b)) + 1
        BY <1>6, <2>4, <3>1, DueAppend, Counts
      <4> QED
        BY <2>1, <2>2, <2>4, <3>1, <4>1
    <3>2. CASE ~(b = a /\ worker.verdict = "done")
      <4>1. Due(file', b) = Due(file, b)
        BY <1>6, <2>4, <3>2, DueAppend, Counts
      <4> QED
        BY <2>1, <2>2, <2>4, <4>1
    <3> QED
      BY <3>1, <3>2
  <2>5. CASE file' = file /\ bad' = bad + 1
    <3>1. lost + bad' + crashes = F + 1
      BY <2>5, Counts
    <3>2. Bound(crashes, lost + bad' + crashes) = Bound(crashes, F) + 1 + crashes
      BY <2>2, <3>1, Bounds
    <3> HIDE DEF F
    <3> QED
      BY <2>1, <2>2, <2>5, <3>2
  <2> QED
    BY <1>3, <2>3, <2>4, <2>5
<1> QED
    BY <1>8, <1>9, <1>10, <1>11, <1>12 DEF IInv

LEMMA RecordInv == ASSUME IInv, Record PROVE IInv'
<1> DEFINE a == worker.ans
<1>1. /\ worker.at = "recording" /\ a \in Answers
      /\ worker.verdict \in {"done", "sent"}
      /\ worker.verdict = "sent" => copies[a] > 0
      /\ worker.verdict = "done" => copies[a] > 0 \/ InFile(a) \/ torn \/ a \in dropped
    BY DEF Record, IInv, TypeOK, WorkerOK, Senders
<1>2. /\ worker' = Idle /\ inbox' = [inbox EXCEPT ![a] = worker.verdict]
      /\ UNCHANGED <<file, torn, up, mu, poller, copies, lost, bad, crashes, dropped>>
    BY DEF Record, faults
<1>3. /\ inbox' \in [Answers -> {"processing", "done", "sent"}]
      /\ \A b \in Answers : inbox'[b] = IF b = a THEN worker.verdict ELSE inbox[b]
    BY <1>1, <1>2 DEF IInv, TypeOK
<1>4. TypeOK'
    BY <1>2, <1>3, IdleSenders DEF IInv, TypeOK
<1>5. WorkerOK' /\ PollerOK'
    BY <1>2 DEF IInv, WorkerOK, PollerOK, Idle
<1>6. RecordedIsSafe'
  <2> SUFFICES ASSUME NEW b \in Answers
               PROVE  /\ inbox'[b] = "sent" => copies[b] > 0
                      /\ inbox'[b] = "done" => copies[b] > 0 \/ InFile(b) \/ torn \/ b \in dropped
    BY <1>2 DEF RecordedIsSafe, InFile
  <2>1. CASE b = a
    BY <1>1, <1>3, <2>1
  <2>2. CASE b # a
    BY <1>3, <2>2 DEF IInv, RecordedIsSafe
  <2> QED
    BY <2>1, <2>2
<1>7. \A b \in Answers : Pending(b)' = Pending(b)
  <2> SUFFICES ASSUME NEW b \in Answers PROVE Pending(b)' = Pending(b)
    OBVIOUS
  <2>1. worker'.ans = None /\ b # None
    BY <1>2 DEF Idle
  <2>2. CASE b = a
    BY <1>1, <1>3, <2>2 DEF Pending
  <2>3. CASE b # a
    BY <1>3, <2>1, <2>3 DEF Pending
  <2> QED
    BY <2>2, <2>3
<1>8. CopiesOK'
    BY <1>2, <1>7 DEF IInv, CopiesOK, View
<1> QED
    BY <1>4, <1>5, <1>6, <1>8 DEF IInv

-----------------------------------------------------------------------------
(* Steps of the poller                                                     *)

\* At goes to the next entry that is due.
LEMMA AtNext ==
    ASSUME NEW copy \in Entries, NEW changed \in BOOLEAN,
           NEW i \in Nat, i > 0, i <= Len(copy) + 1
    PROVE  LET p == At(copy, changed, i)
           IN /\ p \in Pollers /\ p.at = "sending" /\ p.copy = copy
              /\ p.chunk > 0 /\ p.next > 0 /\ p.next <= Len(copy) + 1
              /\ p.next <= Len(copy) => copy[p.next].status = "done"
              /\ ~p.changed => ~changed
<1> DEFINE n == NextDone(copy, i)
<1>1. /\ n \in Nat /\ n > 0 /\ n <= Len(copy) + 1
      /\ n <= Len(copy) => copy[n].status = "done"
    BY NextIsDone
<1>2. At(copy, changed, i) =
        [at |-> "sending", copy |-> copy, changed |-> changed, chunk |-> 1, next |-> n]
    BY DEF At
<1> HIDE DEF n
<1>3. At(copy, changed, i) \in Pollers
    BY <1>1, <1>2 DEF Pollers
<1> QED
    BY <1>1, <1>2, <1>3

LEMMA PollInv == ASSUME IInv, Poll PROVE IInv'
<1>1. /\ poller = Rest /\ ~torn /\ mu' = "poller" /\ poller' = At(file, FALSE, 1)
      /\ UNCHANGED <<file, torn, inbox, up, worker, copies, lost, bad, crashes, dropped>>
    BY DEF Poll, faults
<1>2. /\ mu' = "poller" /\ ~torn
      /\ UNCHANGED <<file, torn, inbox, up, worker, copies, lost, bad, crashes, dropped>>
    BY <1>1
<1>3. file \in Entries /\ Len(file) \in Nat /\ 1 <= Len(file) + 1
    BY Counts DEF Entries
<1>4. /\ poller' \in Pollers /\ poller'.at = "sending" /\ poller'.copy = file
      /\ poller'.chunk > 0 /\ poller'.next > 0 /\ poller'.next <= Len(file) + 1
      /\ poller'.next <= Len(file) => file[poller'.next].status = "done"
  <2>1. 1 \in Nat /\ 1 > 0 /\ FALSE \in BOOLEAN
    OBVIOUS
  <2> QED
    BY <1>1, <1>3, <2>1, AtNext
<1>5. TypeOK'
    BY <1>1, <1>2, <1>4 DEF IInv, TypeOK
<1>6. RecordedIsSafe' /\ WorkerOK'
    BY <1>2 DEF IInv, RecordedIsSafe, WorkerOK, InFile
<1>7. PollerOK'
    BY <1>2, <1>4 DEF PollerOK
<1>8. CopiesOK'
  <2>1. View' = file /\ View = file
    BY <1>1, <1>2, <1>4 DEF View, Rest
  <2>2. \A a \in Answers : Pending(a)' = Pending(a)
    BY <1>2 DEF Pending
  <2> QED
    BY <1>2, <2>1, <2>2 DEF IInv, CopiesOK
<1> QED
    BY <1>5, <1>6, <1>7, <1>8 DEF IInv

\* What the poller sends is the entry of its copy that is due.
LEMMA SendingDue ==
    ASSUME IInv, NEW a \in Answers, NEW chunk \in 1 .. Chunks, Sending(a, chunk)
    PROVE  /\ poller \in Pollers /\ poller.at = "sending" /\ mu = "poller" /\ ~torn
           /\ file \in Entries /\ poller.copy \in Entries /\ Len(poller.copy) = Len(file)
           /\ poller.next \in 1 .. Len(poller.copy) /\ Len(poller.copy) \in Nat
           /\ poller.copy[poller.next] = [id |-> a, status |-> "done"]
           /\ file[poller.next].id = a
           /\ poller.chunk = chunk /\ View = poller.copy
<1>1. /\ poller.at = "sending" /\ poller.next <= Len(poller.copy)
      /\ poller.copy[poller.next].id = a /\ poller.chunk = chunk
    BY DEF Sending
<1>2. poller \in Pollers /\ file \in Entries /\ poller.copy \in Entries
    BY Counts
<1>3. /\ mu = "poller" /\ ~torn /\ poller.next > 0 /\ Len(poller.copy) = Len(file)
      /\ poller.copy[poller.next].status = "done"
    BY <1>1 DEF IInv, PollerOK
<1>4. poller.next \in 1 .. Len(poller.copy) /\ Len(poller.copy) \in Nat
    BY <1>1, <1>2, <1>3 DEF Pollers, Entries
<1>5. poller.copy[poller.next] \in Entry
    BY <1>2, <1>4 DEF Entries
<1>6. poller.copy[poller.next] = [id |-> a, status |-> "done"]
    BY <1>1, <1>3, <1>5 DEF Entry
<1>7. file[poller.next].id = a
    BY <1>1, <1>3, <1>4 DEF IInv, PollerOK
<1> QED
    BY <1>1, <1>2, <1>3, <1>4, <1>6, <1>7 DEF View

\* A refused chunk: the entry stays due; a lost reply is a copy and a fault.
LEMMA SkipInv ==
    ASSUME IInv, NEW a \in Answers, NEW chunk \in 1 .. Chunks, Skip(a, chunk) PROVE IInv'
<1> DEFINE F == lost + bad + crashes
<1>1. Sending(a, chunk)
    BY DEF Skip
<1>2. /\ UNCHANGED <<file, torn, inbox, up, mu, worker, dropped, bad, crashes>>
      /\ \/ UNCHANGED <<copies, lost>>
         \/ /\ copies' = copies \/ copies' = [copies EXCEPT ![a] = @ + 1]
            /\ lost' = lost + 1 /\ F < MaxFaults
    BY DEF Skip, Rejected, Arrived, faults, Spare
<1>3. /\ poller' \in Pollers /\ poller'.at = "sending" /\ poller'.copy = poller.copy
      /\ poller'.chunk > 0 /\ poller'.next > 0 /\ poller'.next <= Len(poller.copy) + 1
      /\ poller'.next <= Len(poller.copy) => poller.copy[poller'.next].status = "done"
      /\ ~poller'.changed => ~poller.changed
  <2>1. poller' = At(poller.copy, poller.changed, poller.next + 1)
    BY DEF Skip
  <2>2. /\ poller.copy \in Entries /\ poller.changed \in BOOLEAN
        /\ poller.next + 1 \in Nat /\ poller.next + 1 > 0
        /\ poller.next + 1 <= Len(poller.copy) + 1
    <3>1. poller \in Pollers /\ poller.copy \in Entries /\ Len(poller.copy) \in Nat
          /\ poller.next \in 1 .. Len(poller.copy)
      BY <1>1, SendingDue
    <3>2. poller.changed \in BOOLEAN
      BY <3>1 DEF Pollers
    <3>3. poller.next + 1 \in Nat /\ poller.next + 1 > 0 /\ poller.next + 1 <= Len(poller.copy) + 1
      BY <3>1
    <3> QED
      BY <3>1, <3>2, <3>3
  <2> QED
    BY <2>1, <2>2, AtNext
<1>4. /\ copies' \in [Answers -> Nat]
      /\ \A b \in Answers : copies'[b] = copies[b] \/ copies'[b] = copies[b] + 1
    BY <1>2, Counts
<1>5. \A b \in Answers : copies[b] \in Nat /\ (copies[b] > 0 => copies'[b] > 0)
    BY <1>4, Counts
<1>6. TypeOK'
  <2>1. lost' \in Nat /\ lost' + bad + crashes <= MaxFaults
    BY <1>2 DEF IInv, TypeOK
  <2> QED
    BY <1>2, <1>3, <1>4, <2>1 DEF IInv, TypeOK
<1>7. RecordedIsSafe' /\ WorkerOK'
    BY <1>2, <1>5 DEF IInv, RecordedIsSafe, WorkerOK, InFile
<1>8. PollerOK'
  <2>1. \A i \in 1 .. Len(file) : file[i].id \in Answers
    <3>1. \A i \in 1 .. Len(file) : file[i] \in Entry
      BY Counts DEF Entries
    <3> QED
      BY <3>1 DEF Entry
  <2>2. /\ mu = "poller" /\ ~torn /\ Len(poller.copy) = Len(file)
        /\ \A i \in 1 .. Len(file) :
              \/ poller.copy[i] = file[i]
              \/ /\ poller.copy[i].id = file[i].id /\ poller.copy[i].status = "sent"
                 /\ copies'[file[i].id] > 0
        /\ ~poller.changed => poller.copy = file
    BY <1>1, <1>5, <2>1, SendingDue DEF IInv, PollerOK
  <2> QED
    BY <1>2, <1>3, <2>2 DEF PollerOK
<1>9. CopiesOK'
  <2> SUFFICES ASSUME NEW b \in Answers
               PROVE  /\ Cardinality(Due(file, b)) + Pending(b) <= 1 + crashes
                      /\ copies'[b] + Cardinality(Due(View, b)) + Pending(b)
                            <= Bound(crashes, lost' + bad + crashes)
    <3>1. View' = View /\ \A b \in Answers : Pending(b)' = Pending(b)
      BY <1>1, <1>2, <1>3, SendingDue DEF View, Pending
    <3> QED
      BY <1>2, <3>1 DEF CopiesOK
  <2>1. CASE UNCHANGED <<copies, lost>>
    BY <2>1, Counts
  <2>2. CASE lost' = lost + 1
    <3>1. lost' + bad + crashes = F + 1 /\ F \in Nat /\ crashes \in Nat
      BY <2>2, Counts
    <3>2. Bound(crashes, lost' + bad + crashes) = Bound(crashes, F) + 1 + crashes
      BY <3>1, Bounds
    <3>3. copies'[b] <= copies[b] + 1 /\ copies'[b] \in Nat
      BY <1>4, Counts
    <3> QED
      BY <3>2, <3>3, Counts
  <2> QED
    BY <1>2, <2>1, <2>2
<1> QED
    BY <1>6, <1>7, <1>8, <1>9 DEF IInv

\* An accepted chunk: the last one is a copy, and the entry is due no more.
LEMMA ResendInv ==
    ASSUME IInv, NEW a \in Answers, NEW chunk \in 1 .. Chunks, Resend(a, chunk) PROVE IInv'
<1> DEFINE marked == [poller.copy EXCEPT ![poller.next].status = "sent"]
<1>1. Sending(a, chunk)
    BY DEF Resend
<1>2. UNCHANGED <<file, torn, inbox, up, mu, worker, dropped, lost, bad, crashes>>
    BY DEF Resend, Accepted, faults
<1>5. /\ poller \in Pollers /\ poller.at = "sending" /\ mu = "poller" /\ ~torn
      /\ file \in Entries /\ poller.copy \in Entries /\ Len(poller.copy) = Len(file)
      /\ poller.next \in 1 .. Len(poller.copy) /\ Len(poller.copy) \in Nat
      /\ poller.copy[poller.next] = [id |-> a, status |-> "done"]
      /\ file[poller.next].id = a
      /\ poller.chunk = chunk /\ View = poller.copy
    BY <1>1, SendingDue
<1>6. /\ \A i \in 1 .. Len(file) :
            \/ poller.copy[i] = file[i]
            \/ /\ poller.copy[i].id = file[i].id /\ poller.copy[i].status = "sent"
               /\ copies[file[i].id] > 0
      /\ ~poller.changed => poller.copy = file
    BY <1>5 DEF IInv, PollerOK
<1>3. CASE chunk < Chunks
  <2>1. copies' = copies /\ poller' = [poller EXCEPT !.chunk = chunk + 1]
    BY <1>3 DEF Resend, Accepted, Arrived
  <2>2. /\ poller' \in Pollers /\ poller'.at = poller.at /\ poller'.copy = poller.copy
        /\ poller'.next = poller.next /\ poller'.chunk > 0
    <3>1. chunk + 1 \in 0 .. Chunks /\ chunk + 1 > 0
      BY <1>3
    <3> QED
      BY <1>5, <2>1, <3>1 DEF Pollers
  <2>3. poller'.changed = poller.changed
    BY <1>5, <2>1 DEF Pollers
  <2>4. TypeOK'
    BY <1>2, <2>1, <2>2 DEF IInv, TypeOK
  <2>5. RecordedIsSafe' /\ WorkerOK'
    BY <1>2, <2>1 DEF IInv, RecordedIsSafe, WorkerOK, InFile
  <2>6. copies' = copies
    BY <2>1
  <2>7. PollerOK'
    <3>1. /\ mu' = "poller" /\ ~torn' /\ poller'.at = "sending" /\ poller'.next > 0
          /\ Len(poller'.copy) = Len(file')
          /\ poller'.copy[poller'.next].status = "done"
      BY <1>2, <1>5, <2>2
    <3>2. \A i \in 1 .. Len(file) :
             \/ poller'.copy[i] = file'[i]
             \/ /\ poller'.copy[i].id = file'[i].id /\ poller'.copy[i].status = "sent"
                /\ copies'[file'[i].id] > 0
      BY <1>2, <1>6, <2>2, <2>6
    <3>3. ~poller'.changed => poller'.copy = file'
      BY <1>2, <1>6, <2>2, <2>3
    <3> QED
      BY <1>2, <2>2, <3>1, <3>2, <3>3 DEF PollerOK
  <2>8. CopiesOK'
    BY <1>2, <2>2, <2>6 DEF IInv, CopiesOK, View, Pending
  <2> QED
    BY <2>4, <2>5, <2>7, <2>8 DEF IInv
<1>4. CASE chunk = Chunks
  <2>1. copies' = [copies EXCEPT ![a] = @ + 1]
    BY <1>4 DEF Resend, Accepted, Arrived
  <2>2. /\ copies' \in [Answers -> Nat]
        /\ \A b \in Answers : copies'[b] = IF b = a THEN copies[a] + 1 ELSE copies[b]
    BY <2>1, Counts
  <2>3. /\ marked \in Entries /\ Len(marked) = Len(poller.copy)
        /\ \A i \in 1 .. Len(poller.copy) :
              marked[i] = IF i = poller.next THEN [id |-> a, status |-> "sent"]
                          ELSE poller.copy[i]
        /\ Cardinality(Due(marked, a)) = Cardinality(Due(poller.copy, a)) - 1
        /\ \A b \in Answers : b # a => Due(marked, b) = Due(poller.copy, b)
    BY <1>5, DueMark, SMTT(30)
  <2>4. poller' = At(marked, TRUE, poller.next + 1)
    <3>1. ~(chunk < Chunks)
      BY <1>4
    <3> QED
      BY <3>1 DEF Resend
  <2> HIDE DEF marked
  <2>5. /\ poller' \in Pollers /\ poller'.at = "sending" /\ poller'.copy = marked
        /\ poller'.chunk > 0 /\ poller'.next > 0 /\ poller'.next <= Len(marked) + 1
        /\ poller'.next <= Len(marked) => marked[poller'.next].status = "done"
        /\ poller'.changed
    <3>1. /\ poller.next + 1 \in Nat /\ poller.next + 1 > 0
          /\ poller.next + 1 <= Len(marked) + 1
      BY <1>5, <2>3
    <3>3. poller'.changed
      BY <2>4 DEF At
    <3> DEFINE i == poller.next + 1
               t == TRUE
    <3>2. t \in BOOLEAN
      OBVIOUS
    <3> HIDE DEF i, t
    <3>4. i \in Nat /\ i > 0 /\ i <= Len(marked) + 1
      BY <3>1 DEF i
    <3>5. poller' = At(marked, t, i)
      BY <2>4 DEF i, t
    <3>6. /\ poller' \in Pollers /\ poller'.at = "sending" /\ poller'.copy = marked
          /\ poller'.chunk > 0 /\ poller'.next > 0 /\ poller'.next <= Len(marked) + 1
          /\ poller'.next <= Len(marked) => marked[poller'.next].status = "done"
      BY <2>3, <3>2, <3>4, <3>5, AtNext
    <3> QED
      BY <3>3, <3>6
  <2>6. TypeOK'
    BY <1>2, <2>2, <2>5 DEF IInv, TypeOK
  <2>7. \A b \in Answers : copies[b] \in Nat /\ (copies[b] > 0 => copies'[b] > 0)
    BY <2>2, Counts
  <2>8. RecordedIsSafe' /\ WorkerOK'
    BY <1>2, <2>7 DEF IInv, RecordedIsSafe, WorkerOK, InFile
  <2>9. PollerOK'
    <3>1. /\ mu = "poller" /\ ~torn /\ Len(marked) = Len(file)
          /\ poller.next \in 1 .. Len(file) /\ file[poller.next].id = a
      BY <1>5, <2>3
    <3>2. \A i \in 1 .. Len(file) : file[i].id \in Answers
      <4>1. \A i \in 1 .. Len(file) : file[i] \in Entry
        BY Counts DEF Entries
      <4> QED
        BY <4>1 DEF Entry
    <3>3. ASSUME NEW i \in 1 .. Len(file)
          PROVE  \/ marked[i] = file[i]
                 \/ /\ marked[i].id = file[i].id /\ marked[i].status = "sent"
                    /\ copies'[file[i].id] > 0
      <4>1. CASE i = poller.next
        BY <2>2, <2>3, <3>1, <4>1, Counts, SMTT(30)
      <4>2. CASE i # poller.next
        <5>1. marked[i] = poller.copy[i]
          BY <2>3, <3>1, <4>2
        <5> QED
          BY <1>6, <2>7, <3>2, <5>1
      <4> QED
        BY <4>1, <4>2
    <3> QED
      BY <1>2, <2>5, <3>1, <3>3 DEF PollerOK
  <2>10. CopiesOK'
    <3> SUFFICES ASSUME NEW b \in Answers
                 PROVE  /\ Cardinality(Due(file, b)) + Pending(b) <= 1 + crashes
                        /\ copies'[b] + Cardinality(Due(marked, b)) + Pending(b)
                              <= Bound(crashes, lost + bad + crashes)
      <4>1. View' = marked /\ \A b \in Answers : Pending(b)' = Pending(b)
        BY <1>2, <2>5 DEF View, Pending
      <4> QED
        BY <1>2, <4>1 DEF CopiesOK
    <3>1. View = poller.copy
      BY <1>5
    <3>2. CASE b = a
      BY <2>2, <2>3, <3>1, <3>2, Counts
    <3>3. CASE b # a
      BY <2>2, <2>3, <3>1, <3>3, Counts
    <3> QED
      BY <3>2, <3>3
  <2> QED
    BY <2>6, <2>8, <2>9, <2>10 DEF IInv
<1> QED
    BY <1>3, <1>4

\* The end of a pass.  What was sent is due again if the write fails; an entry
\* that the written copy does not show as done has arrived.
LEMMA FinishInv == ASSUME IInv, Finish PROVE IInv'
<1> DEFINE F == lost + bad + crashes
<1>1. /\ poller.at = "sending"
      /\ mu' = None /\ poller' = Rest
      /\ UNCHANGED <<inbox, up, worker, copies, lost, crashes, dropped>>
    BY DEF Finish
<1>2. /\ View = poller.copy /\ ~torn /\ Len(poller.copy) = Len(file)
      /\ \A i \in 1 .. Len(file) :
            \/ poller.copy[i] = file[i]
            \/ /\ poller.copy[i].id = file[i].id /\ poller.copy[i].status = "sent"
               /\ copies[file[i].id] > 0
      /\ ~poller.changed => poller.copy = file
    BY <1>1 DEF IInv, PollerOK, View
<1>3. \/ file' = poller.copy /\ UNCHANGED <<torn, bad>>
      \/ file' = file /\ bad' = bad + 1 /\ torn' \in BOOLEAN /\ F < MaxFaults
  <2>1. CASE poller.changed
    BY <2>1 DEF Finish, Write, Spare
  <2>2. CASE ~poller.changed
    BY <1>2, <2>2 DEF Finish
  <2> QED
    BY <2>1, <2>2
<1>4. View' = file'
    BY <1>1 DEF View, Rest
<1>5. TypeOK'
  <2>1. file' \in Entries
    BY <1>3, Counts
  <2>2. poller' \in Pollers /\ poller'.next <= Len(poller'.copy) + 1
    <3>1. Rest.next = 0
      BY DEF Rest
    <3> QED
      BY <1>1, <3>1, IdleSenders
  <2>3. /\ torn' \in BOOLEAN /\ bad' \in Nat /\ lost + bad' + crashes <= MaxFaults
        /\ mu' \in {None, "poller"}
    BY <1>1, <1>3 DEF IInv, TypeOK
  <2>4. UNCHANGED <<inbox, up, worker, copies, lost, crashes, dropped>>
    BY <1>1
  <2> QED
    BY <2>1, <2>2, <2>3, <2>4 DEF IInv, TypeOK
<1>6. ASSUME NEW b \in Answers, InFile(b) PROVE InFile(b)' \/ copies[b] > 0
  <2>1. PICK i \in Due(file, b) : TRUE
    BY <1>6 DEF InFile
  <2>2. i \in 1 .. Len(file) /\ file[i].id = b /\ file[i] = [id |-> b, status |-> "done"]
    BY <2>1 DEF Due
  <2>3. CASE file' = file
    BY <1>6, <2>3 DEF InFile
  <2>4. CASE file' = poller.copy /\ poller.copy[i] = file[i]
    <3>1. i \in Due(file', b)
      BY <1>2, <2>2, <2>4 DEF Due
    <3> QED
      BY <3>1 DEF InFile
  <2> QED
    BY <1>2, <1>3, <2>2, <2>3, <2>4
<1>7. RecordedIsSafe'
    BY <1>1, <1>2, <1>6 DEF IInv, RecordedIsSafe
<1>8. WorkerOK'
    BY <1>1, <1>2, <1>6 DEF IInv, WorkerOK
<1>9. PollerOK'
    BY <1>1 DEF PollerOK, Rest
<1>10. CopiesOK'
  <2> SUFFICES ASSUME NEW b \in Answers
               PROVE  /\ Cardinality(Due(file', b)) + Pending(b) <= 1 + crashes
                      /\ copies[b] + Cardinality(Due(file', b)) + Pending(b)
                            <= Bound(crashes, lost + bad' + crashes)
    <3>1. \A b \in Answers : Pending(b)' = Pending(b)
      BY <1>1 DEF Pending
    <3> QED
      BY <1>1, <1>4, <3>1 DEF CopiesOK
  <2>1. /\ Cardinality(Due(file, b)) + Pending(b) <= 1 + crashes
        /\ copies[b] + Cardinality(Due(poller.copy, b)) + Pending(b) <= Bound(crashes, F)
        /\ Cardinality(Due(file, b)) \in Nat /\ Cardinality(Due(poller.copy, b)) \in Nat
        /\ copies[b] \in Nat /\ Pending(b) \in {0, 1}
        /\ crashes \in Nat /\ F \in Nat /\ Bound(crashes, F) \in Nat
    BY <1>2, Counts
  <2>2. CASE file' = poller.copy /\ bad' = bad
    <3>1. Due(poller.copy, b) \in SUBSET Due(file, b)
      <4>1. "sent" # "done"
        OBVIOUS
      <4> QED
        BY <1>2, <4>1 DEF Due
    <3>2. IsFiniteSet(Due(file, b))
      BY DueFinite, Counts
    <3>3. Cardinality(Due(poller.copy, b)) <= Cardinality(Due(file, b))
      BY <3>1, <3>2, FS_Subset
    <3> QED
      BY <2>1, <2>2, <3>3
  <2>3. CASE file' = file /\ bad' = bad + 1
    <3>1. lost + bad' + crashes = F + 1
      BY <2>3, Counts
    <3>2. Bound(crashes, lost + bad' + crashes) = Bound(crashes, F) + 1 + crashes
      BY <2>1, <3>1, Bounds
    <3> HIDE DEF F
    <3> QED
      BY <2>1, <2>3, <3>2
  <2> QED
    BY <1>3, <2>2, <2>3
<1> QED
    BY <1>5, <1>7, <1>8, <1>9, <1>10 DEF IInv

-----------------------------------------------------------------------------
(* Crash and Boot                                                          *)

\* The run that was interrupted starts again, and what the poller had sent is
\* still due.
LEMMA CrashInv == ASSUME IInv, Crash PROVE IInv'
<1> DEFINE F == lost + bad + crashes
<1>1. /\ F < MaxFaults /\ crashes' = crashes + 1 /\ up' = FALSE /\ mu' = None
      /\ worker' = Idle /\ poller' = Rest
      /\ UNCHANGED <<file, torn, inbox, copies, lost, bad, dropped>>
    BY DEF Crash, Spare
<1>2. TypeOK'
  <2>1. Rest.next = 0
    BY DEF Rest
  <2>2. /\ poller' \in Pollers /\ poller'.next <= Len(poller'.copy) + 1
        /\ worker' \in Senders
    BY <1>1, <2>1, IdleSenders
  <2>3. /\ crashes' \in Nat /\ lost + bad + crashes' <= MaxFaults
        /\ mu' \in {None, "poller"}
    BY <1>1 DEF IInv, TypeOK
  <2>5. up' \in BOOLEAN
    BY <1>1
  <2>4. UNCHANGED <<file, torn, inbox, copies, lost, bad, dropped>>
    BY <1>1
  <2> QED
    BY <2>2, <2>3, <2>4, <2>5 DEF IInv, TypeOK
<1>3. RecordedIsSafe' /\ WorkerOK' /\ PollerOK'
    BY <1>1 DEF IInv, RecordedIsSafe, WorkerOK, PollerOK, InFile, Idle, Rest
<1>4. CopiesOK'
  <2> SUFFICES ASSUME NEW b \in Answers
               PROVE  /\ Cardinality(Due(file, b)) + Pending(b)' <= 1 + crashes'
                      /\ copies[b] + Cardinality(Due(file, b)) + Pending(b)'
                            <= Bound(crashes', lost + bad + crashes')
    <3>1. View' = file
      BY <1>1 DEF View, Rest
    <3> QED
      BY <1>1, <3>1 DEF CopiesOK
  <2>1. Pending(b)' \in {0, 1}
    BY DEF Pending
  <2>2. /\ Cardinality(Due(file, b)) + Pending(b) <= 1 + crashes
        /\ copies[b] + Cardinality(Due(View, b)) + Pending(b) <= Bound(crashes, F)
        /\ Cardinality(Due(file, b)) \in Nat /\ Cardinality(Due(View, b)) \in Nat
        /\ copies[b] \in Nat /\ Pending(b) \in {0, 1}
        /\ crashes \in Nat /\ F \in Nat /\ Bound(crashes, F) \in Nat
    BY Counts
  <2>3. crashes' = crashes + 1 /\ lost + bad + crashes' = F + 1
    BY <1>1, Counts
  <2>4. Bound(crashes', lost + bad + crashes') = Bound(crashes, F) + 3 + crashes + F
    BY <2>2, <2>3, Bounds
  <2> HIDE DEF F
  <2> QED
    BY <2>1, <2>2, <2>3, <2>4
<1> QED
    BY <1>2, <1>3, <1>4 DEF IInv

LEMMA BootInv == ASSUME IInv, Boot PROVE IInv'
<1>1. /\ up' = TRUE
      /\ UNCHANGED <<file, torn, inbox, mu, worker, poller, copies, lost, bad, crashes, dropped>>
    BY DEF Boot, faults
<1> QED
    BY <1>1 DEF IInv, TypeOK, RecordedIsSafe, WorkerOK, PollerOK, CopiesOK, InFile, View, Pending

-----------------------------------------------------------------------------
(* The theorems                                                            *)

LEMMA StepInv == IInv /\ [Next]_vars => IInv'
<1> SUFFICES ASSUME IInv, [Next]_vars PROVE IInv'
    OBVIOUS
<1>1. CASE Worker
    BY <1>1, DeliverInv, SendInv, AppendInv, RecordInv DEF Worker
<1>2. CASE Poller
    BY <1>2, PollInv, FinishInv, ResendInv, SkipInv DEF Poller
<1>3. CASE Crash \/ Boot
    BY <1>3, CrashInv, BootInv
<1>4. CASE UNCHANGED vars
    BY <1>4 DEF vars, faults, IInv, TypeOK, RecordedIsSafe, WorkerOK, PollerOK, CopiesOK,
                InFile, View, Pending
<1> QED
    BY <1>1, <1>2, <1>3, <1>4 DEF Next

\* The inductive invariant holds in every state of the worker, the poller, the
\* file and of crashes.
THEOREM Invariance == Spec => []IInv
<1>1. Init => IInv
    BY InitInv
<1>2. IInv /\ [Next]_vars => IInv'
    BY StepInv
<1> QED
    BY <1>1, <1>2, PTL DEF Spec

\* sendAndRecord and processOutbox lose no answer: what inbox.json shows as sent
\* has arrived, and what it shows as done has, or is in the file, unless its own
\* entry could not be written or the file was broken.
THEOREM NoAnswerIsLost == Spec => []RecordedIsSafe
<1>1. IInv => RecordedIsSafe
    BY DEF IInv
<1> QED
    BY <1>1, Invariance, PTL

\* The copies of an answer are bounded by the faults there have been, whatever the
\* number of chunks, of passes of the poller and of refused chunks.
THEOREM CopiesAreBounded == Spec => []WholeCopies
<1>1. IInv => WholeCopies
  <2> SUFFICES ASSUME IInv, NEW a \in Answers
               PROVE  copies[a] <= Bound(crashes, lost + bad + crashes)
    BY DEF WholeCopies
  <2> QED
    BY Counts
<1> QED
    BY <1>1, Invariance, PTL
=============================================================================
