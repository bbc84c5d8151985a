-------------------------- MODULE InboxStoreProofs ---------------------------
(***************************************************************************)
(* InboxStore implements AtomicInbox for any set of goroutines and any set *)
(* of messages.                                                            *)
(***************************************************************************)
EXTENDS InboxStore, TLAPS

USE ClientsAssumption

\* A call changes messages from values to values.
LEMMA EffectType ==
    ASSUME NEW o, NEW f \in [Msgs -> A!Values]
    PROVE  A!Effect(o, f) \in [Msgs -> A!Values]
BY DEF A!Effect, A!Values

LEMMA NoOpIsNoCall == A!NoOp \notin A!Ops
<1>1. A!NoOp.kind = "none"
  BY DEF A!NoOp
<1>2. \A o \in A!Ops : o.kind # "none"
  BY DEF A!Ops, A!Reads, A!Writes
<1> QED BY <1>1, <1>2

LEMMA ReadsAreNotWrites == \A o \in A!Reads : o \notin A!Writes
<1>1. \A o \in A!Reads : o.kind = "read"
  BY DEF A!Reads
<1>2. \A o \in A!Writes : o.kind # "read"
  BY DEF A!Writes
<1> QED BY <1>1, <1>2

-----------------------------------------------------------------------------
(* The inductive invariant                                                 *)

LEMMA InitInv == Init => IInv
<1> SUFFICES ASSUME Init PROVE IInv
  OBVIOUS
<1>1. Empty \in [Msgs -> A!Values]
  BY DEF Empty, A!Values
<1>2. TypeOK
  BY <1>1 DEF Init, TypeOK
<1>3. SectionOK
  BY DEF Init, SectionOK, InSection
<1>4. LockIsReleased
  BY DEF Init, LockIsReleased
<1> QED BY <1>2, <1>3, <1>4 DEF IInv

LEMMA SectionType ==
    ASSUME IInv, NEW c \in Clients, Section(c)
    PROVE  TypeOK'
<1> USE DEF TypeOK, At, Goto, Reply, InSection, IInv
<1>1. CASE ReadOnly(c)
  BY <1>1 DEF ReadOnly
<1>2. CASE AcquireLock(c)
  BY <1>2 DEF AcquireLock
<1>3. CASE StampLock(c)
  BY <1>3 DEF StampLock
<1>4. CASE Read(c)
  BY <1>4, ZenonT(30) DEF Read
<1>5. CASE Apply(c)
  BY <1>5 DEF Apply
<1>6. CASE Write(c)
  <2>1. file' \in [Msgs -> A!Values]
    BY <1>6, EffectType DEF Write
  <2> QED BY <1>6, <2>1 DEF Write
<1>7. CASE ReleaseLock(c)
  BY <1>7 DEF ReleaseLock
<1>8. CASE Leave(c)
  <2>1. Empty \in [Msgs -> A!Values]
    BY DEF Empty, A!Values
  <2> QED BY <1>8, <2>1 DEF Leave
<1> QED BY <1>1, <1>2, <1>3, <1>4, <1>5, <1>6, <1>7, <1>8 DEF Section

\* In the critical section a client meets nobody.
LEMMA Alone ==
    ASSUME IInv, NEW c \in Clients, pc[c] \in InSection
    PROVE  /\ mutex = c
           /\ \A d \in Clients : d # c => pc[d] \notin InSection
BY DEF IInv, SectionOK

LEMMA SectionSection ==
    ASSUME IInv, NEW c \in Clients, Section(c)
    PROVE  SectionOK' /\ LockIsReleased'
<1>1. pc[c] \in InSection
  BY DEF Section, ReadOnly, AcquireLock, StampLock, Read, Apply, Write, ReleaseLock,
         Leave, At, InSection
<1>2. mutex = c /\ \A d \in Clients : d # c => pc[d] \notin InSection
  BY <1>1, Alone
<1> USE <1>1, <1>2, NoOpIsNoCall, ReadsAreNotWrites
    DEF IInv, TypeOK, SectionOK, LockIsReleased, At, Goto, Reply, InSection
<1>3. CASE ReadOnly(c)
  BY <1>3 DEF ReadOnly
<1>4. CASE AcquireLock(c)
  BY <1>4 DEF AcquireLock
<1>5. CASE StampLock(c)
  BY <1>5 DEF StampLock
<1>6. CASE Read(c)
  BY <1>6 DEF Read
<1>7. CASE Apply(c)
  BY <1>7 DEF Apply
<1>8. CASE Write(c)
  BY <1>8 DEF Write
<1>9. CASE ReleaseLock(c)
  BY <1>9 DEF ReleaseLock
<1>10. CASE Leave(c)
  BY <1>10 DEF Leave
<1> QED BY <1>3, <1>4, <1>5, <1>6, <1>7, <1>8, <1>9, <1>10 DEF Section

LEMMA OutsideInv ==
    ASSUME IInv, \/ \E c \in Clients : Call(c) \/ Enter(c)
                 \/ LockAges \/ Crash
    PROVE  IInv'
<1> USE NoOpIsNoCall DEF IInv, At, Goto
<1>1. ASSUME NEW c \in Clients, Call(c)
      PROVE  IInv'
  <2>1. TypeOK'
    BY <1>1 DEF Call, TypeOK, InSection
  <2>2. SectionOK' /\ LockIsReleased'
    BY <1>1 DEF Call, TypeOK, SectionOK, LockIsReleased, InSection
  <2> QED BY <2>1, <2>2
<1>2. ASSUME NEW c \in Clients, Enter(c)
      PROVE  IInv'
  <2>1. TypeOK'
    BY <1>2 DEF Enter, TypeOK, InSection
  <2>2. SectionOK' /\ LockIsReleased'
    BY <1>2 DEF Enter, TypeOK, SectionOK, LockIsReleased, InSection
  <2> QED BY <2>1, <2>2
<1>3. CASE LockAges
  BY <1>3 DEF LockAges, TypeOK, SectionOK, LockIsReleased
<1>4. CASE Crash
  <2>1. Empty \in [Msgs -> A!Values]
    BY DEF Empty, A!Values
  <2>2. TypeOK'
    BY <1>4, <2>1 DEF Crash, TypeOK, InSection
  <2>3. SectionOK' /\ LockIsReleased'
    BY <1>4 DEF Crash, TypeOK, SectionOK, LockIsReleased, InSection
  <2> QED BY <2>2, <2>3
<1> QED BY <1>1, <1>2, <1>3, <1>4

\* The owner of inboxMu is alone in the critical section, and its copy is the
\* file; the lock file it stamped is there while it needs it, and after only when
\* it could not be removed.
THEOREM InvariantHolds == Spec => []IInv
<1>1. Init => IInv
  BY InitInv
<1>2. IInv /\ [Next]_vars => IInv'
  <2> SUFFICES ASSUME IInv, [Next]_vars PROVE IInv'
    OBVIOUS
  <2>1. CASE UNCHANGED vars
    BY <2>1 DEF vars, IInv, TypeOK, SectionOK, LockIsReleased
  <2>2. CASE Next
    BY <2>2, SectionType, SectionSection, OutsideInv DEF Next, IInv
  <2> QED BY <2>1, <2>2
<1> QED BY <1>1, <1>2, PTL DEF Spec

\* No return path of the store leaves the lock file of a live process behind but
\* one whose os.Remove failed.
THEOREM LockIsReleasedCorrect == Spec => []LockIsReleased
<1>1. IInv => LockIsReleased
  BY DEF IInv
<1> QED BY <1>1, InvariantHolds, PTL

-----------------------------------------------------------------------------
(* The refinement                                                          *)

\* The abstract file is readable while a write is in progress.
Readable == ~torn \/ \E c \in Clients : pc[c] = "writing"

LEMMA InitRefines == Init => A!Init
BY DEF Init, A!Init, Empty

\* Steps the callers cannot see.
LEMMA SilentStep ==
    ASSUME IInv, NEW c \in Clients,
           \/ Enter(c)
           \/ AcquireLock(c) /\ UNCHANGED reply
           \/ StampLock(c) /\ UNCHANGED reply
           \/ Read(c) /\ UNCHANGED reply
           \/ Apply(c) /\ UNCHANGED reply
           \/ ReleaseLock(c)
    PROVE  UNCHANGED <<file, op, reply>> /\ Readable' = Readable
<1> USE DEF IInv, TypeOK, SectionOK, At, Goto, Reply, Readable, InSection
<1>1. CASE Enter(c)
  BY <1>1 DEF Enter
<1>2. CASE AcquireLock(c) /\ UNCHANGED reply
  BY <1>2 DEF AcquireLock
<1>3. CASE StampLock(c) /\ UNCHANGED reply
  BY <1>3 DEF StampLock
<1>4. CASE Read(c) /\ UNCHANGED reply
  BY <1>4 DEF Read
<1>5. CASE Apply(c) /\ UNCHANGED reply
  BY <1>5 DEF Apply
<1>6. CASE ReleaseLock(c)
  BY <1>6 DEF ReleaseLock
<1> QED BY <1>1, <1>2, <1>3, <1>4, <1>5, <1>6

\* Only the owner of the mutex can be writing.
LEMMA ReadableAlone ==
    ASSUME IInv, NEW c \in Clients, pc[c] \in InSection
    PROVE  Readable <=> ~torn \/ pc[c] = "writing"
BY Alone DEF Readable, InSection

\* A call is decided once, while it is under way.
LEMMA Undecided ==
    ASSUME IInv, NEW c \in Clients, pc[c] \in InSection \ {"release", "leaving"}
    PROVE  op[c] # A!NoOp /\ reply[c] = "none"
BY DEF IInv, SectionOK, InSection, TypeOK

\* The steps that decide a call.
LEMMA DecidingStep ==
    ASSUME IInv, NEW c \in Clients,
           \/ ReadOnly(c) \/ AcquireLock(c) \/ StampLock(c) \/ Read(c)
           \/ Apply(c) \/ Write(c),
           reply' # reply
    PROVE  A!Perform(c) \/ A!Refuse(c) \/ A!Spoil(c)
<1> DEFINE Same == Readable' = Readable
<1>a. /\ pc[c] \in InSection \ {"release", "leaving"}
      /\ pc' \in [Clients -> {"idle", "waiting"} \union InSection]
  BY SectionType DEF ReadOnly, AcquireLock, StampLock, Read, Apply, Write, At, InSection,
                     Section, TypeOK
<1>b. op[c] # A!NoOp /\ reply[c] = "none"
  BY <1>a, Undecided
<1>c. Readable <=> ~torn \/ pc[c] = "writing"
  BY <1>a, ReadableAlone
<1>d. ASSUME NEW p \in InSection \ {"writing"}, Goto(c, p)
      PROVE  Readable' <=> ~torn'
  BY <1>a, <1>d, Alone DEF Readable, Goto, IInv, TypeOK, InSection
<1>e. op[c] \in A!Writes <=> op[c] \notin A!Reads
  BY <1>b, ReadsAreNotWrites DEF IInv, TypeOK, A!Ops
<1> USE <1>b DEF A!Decide, Readable
<1>1. CASE ReadOnly(c)
  <2>1. Same
    BY <1>1, <1>c, <1>d DEF ReadOnly, At, InSection
  <2>2. CASE reply' = [reply EXCEPT ![c] = "error"]
    <3>1. A!Refuse(c)
      BY <1>1, <1>c, <2>1, <2>2 DEF ReadOnly, Reply, At, A!Refuse
    <3> QED BY <3>1
  <2>3. CASE ~torn /\ reply' = [reply EXCEPT ![c] = "ok"]
    <3>1. A!Effect(op[c], file) = file
      BY <1>1 DEF ReadOnly, A!Effect, A!Reads, IInv, TypeOK
    <3>2. A!Perform(c)
      BY <1>1, <1>c, <2>1, <2>3, <3>1 DEF ReadOnly, Reply, A!Perform
    <3> QED BY <3>2
  <2> QED BY <1>1, <2>2, <2>3 DEF ReadOnly, Reply
<1>2. CASE AcquireLock(c)
  <2>1. Same
    BY <1>2, <1>c, <1>d DEF AcquireLock, At, InSection
  <2>2. A!Refuse(c)
    BY <1>2, <2>1 DEF AcquireLock, Reply, A!Refuse
  <2> QED BY <2>2
<1>3. CASE StampLock(c)
  <2>1. Same
    BY <1>3, <1>c, <1>d DEF StampLock, At, InSection
  <2>2. op[c] \in A!Writes
    BY <1>3 DEF StampLock, At, IInv, SectionOK
  <2>3. A!Refuse(c)
    BY <1>3, <2>1, <2>2 DEF StampLock, Reply, A!Refuse
  <2> QED BY <2>3
<1>4. CASE Read(c)
  <2>1. Same
    BY <1>4, <1>c, <1>d DEF Read, At, InSection
  <2>2. op[c] \in A!Writes
    BY <1>4 DEF Read, At, IInv, SectionOK
  <2>3. A!Refuse(c)
    BY <1>4, <2>1, <2>2 DEF Read, Reply, A!Refuse
  <2> QED BY <2>3
<1>5. CASE Apply(c)
  <2>1. copy[c] = file /\ ~torn
    BY <1>5 DEF Apply, At, IInv, SectionOK
  <2>2. Same
    BY <1>5, <1>c, <1>d, <2>1 DEF Apply, At, InSection
  <2>3. CASE reply' = [reply EXCEPT ![c] = "ok"] /\ A!Effect(op[c], copy[c]) = copy[c]
    <3>1. A!Perform(c)
      BY <1>5, <1>c, <2>1, <2>2, <2>3 DEF Apply, A!Perform
    <3> QED BY <3>1
  <2>4. CASE reply' = [reply EXCEPT ![c] = "error"]
    <3>1. op[c] \in A!Writes
      BY <1>5 DEF Apply, At, IInv, SectionOK
    <3>2. A!Refuse(c)
      BY <1>5, <2>2, <2>4, <3>1 DEF Apply, A!Refuse
    <3> QED BY <3>2
  <2> QED BY <1>5, <2>3, <2>4 DEF Apply, Reply
<1>6. CASE Write(c)
  <2>1. copy[c] = file /\ torn /\ op[c] \in A!Writes
    BY <1>6 DEF Write, At, IInv, SectionOK
  <2>2. Readable /\ (Readable' <=> ~torn')
    BY <1>6, <1>c, <1>d DEF Write, At, InSection
  <2>3. CASE reply' = [reply EXCEPT ![c] = "ok"] /\ file' = A!Effect(op[c], copy[c]) /\ torn' = FALSE
    <3>1. A!Perform(c)
      BY <1>6, <2>1, <2>2, <2>3 DEF Write, A!Perform
    <3> QED BY <3>1
  <2>4. CASE reply' = [reply EXCEPT ![c] = "error"] /\ UNCHANGED <<file, torn>>
    <3>1. A!Spoil(c)
      BY <1>6, <2>1, <2>2, <2>4 DEF Write, A!Spoil
    <3> QED BY <3>1
  <2> QED BY <1>6, <2>3, <2>4 DEF Write, Reply
<1> QED BY <1>1, <1>2, <1>3, <1>4, <1>5, <1>6

LEMMA LeaveStep ==
    ASSUME IInv, NEW c \in Clients, Leave(c)
    PROVE  A!Return(c)
<1>1. reply[c] # "none"
  BY DEF Leave, At, IInv, SectionOK
<1>2. Readable' = Readable
  BY DEF Leave, At, Goto, Readable, IInv, TypeOK
<1> QED BY <1>1, <1>2 DEF Leave, Reply, A!Return, Readable

LEMMA CallStep ==
    ASSUME IInv, NEW c \in Clients, Call(c)
    PROVE  A!Call(c)
<1>1. op[c] = A!NoOp
  BY DEF Call, At, IInv, SectionOK
<1>2. Readable' = Readable
  BY DEF Call, At, Goto, Readable, IInv, TypeOK
<1> QED BY <1>1, <1>2 DEF Call, A!Call, Readable, Fresh, A!Fresh

\* A crash in the middle of a write leaves the file unreadable.
LEMMA CrashStep ==
    ASSUME IInv, Crash
    PROVE  A!Kill
<1>1. Readable' <=> ~torn
  BY DEF Crash, Readable
<1>2. CASE Readable' = Readable
  BY <1>2 DEF Crash, A!Kill, Readable
<1>3. CASE Readable' # Readable
  <2>1. PICK c \in Clients : pc[c] = "writing"
    BY <1>1, <1>3 DEF Readable
  <2>2. op[c] \in A!Writes /\ reply[c] = "none"
    BY <2>1 DEF IInv, SectionOK, TypeOK
  <2>3. Readable' = FALSE
    BY <1>1, <1>3 DEF Readable
  <2> QED BY <2>2, <2>3 DEF Crash, A!Kill, Readable
<1> QED BY <1>2, <1>3

LEMMA StepRefines == IInv /\ [Next]_vars => [A!Next]_(A!vars)
<1> SUFFICES ASSUME IInv, [Next]_vars PROVE A!Next \/ UNCHANGED A!vars
  OBVIOUS
<1>a. UNCHANGED <<file, op, reply>> /\ Readable' = Readable => UNCHANGED A!vars
  BY DEF A!vars, Readable
<1>1. CASE UNCHANGED vars
  BY <1>1 DEF vars, A!vars
<1>2. ASSUME NEW c \in Clients, Call(c)
      PROVE  A!Next
  BY <1>2, CallStep DEF A!Next
<1>3. ASSUME NEW c \in Clients, Enter(c)
      PROVE  UNCHANGED A!vars
  BY <1>3, <1>a, SilentStep
<1>4. ASSUME NEW c \in Clients, Section(c)
      PROVE  A!Next \/ UNCHANGED A!vars
  <2>1. CASE Leave(c)
    BY <2>1, LeaveStep DEF A!Next
  <2>2. CASE ReleaseLock(c)
    BY <2>2, <1>a, SilentStep
  <2>3. CASE ReadOnly(c) \/ AcquireLock(c) \/ StampLock(c) \/ Read(c) \/ Apply(c) \/ Write(c)
    <3>1. CASE reply' # reply
      BY <2>3, <3>1, DecidingStep DEF A!Next
    <3>2. CASE reply' = reply
      <4>1. ~ReadOnly(c) /\ ~Write(c)
        <5>1. reply[c] = "none" \/ pc[c] \notin {"entered", "writing"}
          BY DEF IInv, SectionOK
        <5> QED BY <3>2, <5>1 DEF ReadOnly, Write, At, Reply, IInv, TypeOK
      <4> QED BY <2>3, <3>2, <4>1, <1>a, SilentStep
    <3> QED BY <3>1, <3>2
  <2> QED BY <1>4, <2>1, <2>2, <2>3 DEF Section
<1>5. CASE LockAges
  BY <1>5 DEF LockAges, A!vars
<1>6. CASE Crash
  BY <1>6, CrashStep DEF A!Next
<1> QED BY <1>1, <1>2, <1>3, <1>4, <1>5, <1>6 DEF Next

\* The store, with its mutex, lock file and file that is truncated and rewritten,
\* implements the atomic inbox its callers rely on.
THEOREM StoreIsAtomicCorrect == Spec => StoreIsAtomic
<1>1. Init => A!Init
  BY InitRefines
<1>2. IInv /\ [Next]_vars => [A!Next]_(A!vars)
  BY StepRefines
<1> QED BY <1>1, <1>2, InvariantHolds, PTL DEF Spec, StoreIsAtomic, A!Spec
=============================================================================
