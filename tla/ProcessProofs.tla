---------------------------- MODULE ProcessProofs ----------------------------
(***************************************************************************)
(* What one process of the bot leaves to the next: projects.json           *)
(* (Projects) and bot.pid (Instances).  For any names, runs, executors,    *)
(* failures and restarts the three maps of the manager stay one table,     *)
(* runs are billed once and to a project of their own, and a restart finds *)
(* the projects that were saved if it can read the file; for any           *)
(* processes, those started one after the other work one at a time, which  *)
(* is what lets Projects take the end of a process and the start of the    *)
(* next as one step.                                                       *)
(*                                                                         *)
(* In Projects the argument is RunsOK: the ledger that a run under way     *)
(* would be billed to is one of its own, whatever command came last, so    *)
(* that the bill finds it there.  In Instances it is InTurn: while one     *)
(* start is under way at most, a process that is up is the one the file    *)
(* names, and the one that start is ending.                                *)
(***************************************************************************)
EXTENDS Projects, Instances, FiniteSetTheorems, TLAPS

USE NamesAssumption, RunsAssumption, BoundsAssumption

-----------------------------------------------------------------------------
(* The operators on the table                                              *)

\* delete takes one entry and leaves the others.
LEMMA WithoutValues ==
    ASSUME NEW f, NEW n
    PROVE  /\ DOMAIN Without(f, n) = DOMAIN f \ {n}
           /\ \A x \in DOMAIN f \ {n} : Without(f, n)[x] = f[x]
BY DEF Without

\* NewManager gives each project of the file an executor of its own.
LEMMA NumberedValues ==
    ASSUME NEW names \in SUBSET Names, made \in Nat
    PROVE  /\ Cardinality(names) \in Nat
           /\ Numbered(names) \in [names -> made + 1 .. made + Cardinality(names)]
           /\ \A x, y \in names : Numbered(names)[x] = Numbered(names)[y] => x = y
<1>1. IsFiniteSet(names) /\ Cardinality(names) \in Nat
    BY FS_Subset, FS_CardinalityType
<1> DEFINE new == made + 1 .. made + Cardinality(names)
<1>2. IsFiniteSet(new) /\ Cardinality(new) = Cardinality(names)
  <2> DEFINE a == made + 1
             b == made + Cardinality(names)
  <2>1. a \in Int /\ b \in Int
      BY <1>1
  <2>2. IsFiniteSet(a .. b) /\ Cardinality(a .. b) = IF a > b THEN 0 ELSE b - a + 1
    <3> HIDE DEF a, b
    <3> QED
      BY <2>1, FS_Interval
  <2>3. (IF a > b THEN 0 ELSE b - a + 1) = Cardinality(names)
      BY <1>1
  <2> QED
      BY <2>2, <2>3
<1>3. ExistsBijection(names, new)
    BY <1>1, <1>2, FS_SameCardinalityBij
<1>4. \E f \in [names -> new] : \A x, y \in names : f[x] = f[y] => x = y
  <2>1. PICK f \in Bijection(names, new) : TRUE
      BY <1>3 DEF ExistsBijection
  <2>2. f \in [names -> new] /\ \A x, y \in names : f[x] = f[y] => x = y
    <3> HIDE DEF new
    <3> QED
      BY <2>1 DEF Bijection, Injection, IsInjective
  <2> QED
      BY <2>2
<1> QED
    BY <1>1, <1>4 DEF Numbered

-----------------------------------------------------------------------------
(* The file                                                                *)

\* What persist leaves in the file, whether the write fails or not.
LEMMA PersistWrites ==
    ASSUME TypeOK, FileOK, NEW first \in Names, NEW names \in SUBSET Names,
           {Default, first} \subseteq names, Persist(first, names)
    PROVE  /\ file' \in [active : Names, projects : SUBSET Names]
           /\ unsaved' \in BOOLEAN /\ faults' \in 0 .. MaxFaults
           /\ ~unsaved' => file' = [active |-> first, projects |-> names]
           /\ file' # Torn => {Default, file'.active} \subseteq file'.projects
<1>1. CASE file' = [active |-> first, projects |-> names] /\ unsaved' = FALSE /\ UNCHANGED faults
    BY <1>1 DEF TypeOK
<1>2. CASE /\ faults < MaxFaults /\ faults' = faults + 1
           /\ file' \in {file, Torn} /\ unsaved' = TRUE
  <2>1. Torn \in [active : Names, projects : SUBSET Names]
      BY DEF Torn
  <2>2. faults' \in 0 .. MaxFaults
      BY <1>2 DEF TypeOK
  <2> QED
      BY <1>2, <2>1, <2>2 DEF TypeOK, FileOK
<1> QED
    BY <1>1, <1>2 DEF Persist

-----------------------------------------------------------------------------
(* The ledgers                                                             *)

\* Steps that move no run keep the bills, even as they reset a session.
LEMMA KeptBills ==
    ASSUME TypeOK, BilledToOwn, UNCHANGED <<total, at>>,
           \A r \in Runs : homes[r] \subseteq homes'[r],
           \A k \in Objects : session'[k] \subseteq session[k]
    PROVE  BilledToOwn'
<1>1. \A k \in Objects : total[k] \subseteq Runs
    BY DEF TypeOK
<1>2. \A k \in Objects : \A r \in total'[k] : at'[r] = "billed" /\ k \in homes'[r]
    BY <1>1 DEF BilledToOwn
<1> QED
    BY <1>2 DEF BilledToOwn

\* A run that is not billed may go anywhere but to its bill.
LEMMA UnbilledRun ==
    ASSUME TypeOK, BilledToOwn, NEW r \in Runs, NEW p \in Places \ {"billed"},
           at[r] # "billed", Goto(r, p), UNCHANGED ledger,
           \A q \in Runs \ {r} : homes'[q] = homes[q]
    PROVE  BilledToOwn'
<1>1. \A q \in Runs : at'[q] = IF q = r THEN p ELSE at[q]
    BY DEF TypeOK, Goto
<1>2. \A q \in Runs : at'[q] = "billed" <=> at[q] = "billed"
    BY <1>1
<1>3. \A k \in Objects : r \notin total[k] /\ total[k] \subseteq Runs
    BY DEF BilledToOwn, TypeOK
<1>4. \A k \in Objects : \A q \in total'[k] : at'[q] = "billed" /\ k \in homes'[q]
    BY <1>2, <1>3 DEF BilledToOwn, ledger
<1>5. \A m \in Messages : at'[m] = "billed" => \E k \in Objects : m \in total'[k]
    BY <1>2 DEF BilledToOwn, ledger, Runs
<1> QED
    BY <1>4, <1>5 DEF BilledToOwn, ledger

\* A bill goes to a ledger that was the run's own.
LEMMA BilledRun ==
    ASSUME TypeOK, BilledToOwn, NEW r \in Runs, NEW k \in Objects,
           at[r] # "billed", Goto(r, "billed"), Bill(k, r), UNCHANGED homes,
           k \in homes[r]
    PROVE  /\ BilledToOwn'
           /\ total' \in [Objects -> SUBSET Runs] /\ session' \in [Objects -> SUBSET Runs]
<1>1. /\ \A q \in Runs : at'[q] = IF q = r THEN "billed" ELSE at[q]
      /\ \A l \in Objects : total'[l] = IF l = k THEN total[l] \union {r} ELSE total[l]
      /\ \A l \in Objects : session'[l] = IF l = k THEN session[l] \union {r} ELSE session[l]
    BY DEF TypeOK, Goto, Bill
<1>2. \A l \in Objects : total[l] \subseteq Runs /\ r \notin total[l]
    BY DEF TypeOK, BilledToOwn
<1>3. \A m \in Messages : at'[m] = "billed" => \E l \in Objects : m \in total'[l]
  <2> SUFFICES ASSUME NEW m \in Messages, at'[m] = "billed"
               PROVE  \E l \in Objects : m \in total'[l]
      OBVIOUS
  <2>1. CASE m = r
      BY <1>1, <2>1
  <2>2. CASE m # r
    <3>1. PICK l \in Objects : m \in total[l]
      BY <1>1, <2>2 DEF BilledToOwn, Runs
    <3> QED
      BY <1>1, <3>1
  <2> QED
      BY <2>1, <2>2
<1>4. \A l \in Objects : \A q \in total'[l] : at'[q] = "billed" /\ l \in homes'[q]
  <2> SUFFICES ASSUME NEW l \in Objects, NEW q \in total'[l]
               PROVE  at'[q] = "billed" /\ l \in homes[q]
      OBVIOUS
  <2>1. CASE q = r
      BY <1>1, <1>2, <2>1
  <2>2. CASE q # r
    <3>1. q \in total[l]
      BY <1>1, <2>2
    <3>2. q \in Runs
      BY <1>2, <3>1
    <3> QED
      BY <1>1, <2>2, <3>1, <3>2 DEF BilledToOwn
  <2> QED
      BY <2>1, <2>2
<1>5. \A l, o \in Objects : total'[l] \intersect total'[o] # {} => l = o
  <2> SUFFICES ASSUME NEW l \in Objects, NEW o \in Objects,
                      NEW q \in total'[l] \intersect total'[o]
               PROVE  l = o
      OBVIOUS
  <2>1. CASE q = r
      BY <1>1, <1>2, <2>1
  <2>2. CASE q # r
    <3>1. q \in total[l] \intersect total[o]
      BY <1>1, <2>2
    <3> QED
      BY <3>1 DEF BilledToOwn
  <2> QED
      BY <2>1, <2>2
<1>6. \A l \in Objects : session'[l] \subseteq total'[l]
  <2>1. \A l \in Objects : session[l] \subseteq total[l]
      BY DEF BilledToOwn
  <2> QED
      BY <1>1, <2>1
<1>7. total' \in [Objects -> SUBSET Runs] /\ session' \in [Objects -> SUBSET Runs]
    BY DEF TypeOK, Bill
<1> QED
    BY <1>3, <1>4, <1>5, <1>6, <1>7 DEF BilledToOwn

-----------------------------------------------------------------------------
(* The steps                                                               *)

\* What the table gives every step.
LEMMA Entries ==
    ASSUME TypeOK, TableOK
    PROVE  /\ made \in Nat /\ 1 .. made \subseteq Objects
           /\ active \in projects /\ Default \in projects /\ projects \subseteq Names
           /\ \A n \in projects : usage[n] = execs[n] /\ execs[n] \in Objects
           /\ \A k \in Objects : session[k] \subseteq Runs
BY DEF TypeOK, TableOK, Objects

\* A command leaves the runs where they are, and the project it gives them is one
\* of their own from now on.
LEMMA Followed ==
    ASSUME TypeOK, Follow, \A n \in projects' : usage'[n] \in Objects
    PROVE  /\ at' = at /\ name' = name
           /\ homes' \in [Runs -> SUBSET Objects]
           /\ \A r \in Runs : homes[r] \subseteq homes'[r]
           /\ RunsOK'
<1>1. at' = at /\ name' = name
      /\ homes' = [r \in Runs |-> IF at[r] \in Running THEN homes[r] \union Own(r)'
                                 ELSE homes[r]]
    BY DEF Follow
<1>2. \A r \in Runs : Own(r)' \subseteq Objects
    BY DEF Own
<1> HIDE DEF Follow
<1>3. homes' \in [Runs -> SUBSET Objects]
    BY <1>1, <1>2 DEF TypeOK
<1>4. \A r \in Runs : homes[r] \subseteq homes'[r]
    BY <1>1
<1>5. \A r \in Runs : at'[r] \in Running => Own(r)' \subseteq homes'[r]
    BY <1>1
<1> QED
    BY <1>1, <1>3, <1>4, <1>5 DEF RunsOK

\* The session costs of the new project begin anew.
LEMMA SwitchInv == ASSUME IInv, NEW n \in Names, SwitchProject(n) PROVE IInv'
<1>1. /\ n \in projects /\ active' = n /\ Persist(n, projects)
      /\ session' = [session EXCEPT ![usage[n]] = {}] /\ Follow
      /\ UNCHANGED <<projects, execs, usage, made, total, unread, restarts>>
    BY DEF SwitchProject, starts
<1>2. /\ file' \in [active : Names, projects : SUBSET Names]
      /\ unsaved' \in BOOLEAN /\ faults' \in 0 .. MaxFaults
      /\ FileOK'
    BY <1>1, PersistWrites, Entries DEF IInv, FileOK
<1>3. session' \in [Objects -> SUBSET Runs] /\ \A k \in Objects : session'[k] \subseteq session[k]
    BY <1>1, Entries DEF IInv, TypeOK
<1>4. /\ at' = at /\ name' = name /\ homes' \in [Runs -> SUBSET Objects]
      /\ \A r \in Runs : homes[r] \subseteq homes'[r]
      /\ RunsOK'
    BY <1>1, Followed, Entries DEF IInv
<1>5. TypeOK'
    BY <1>1, <1>2, <1>3, <1>4 DEF IInv, TypeOK
<1>6. TableOK'
    BY <1>1 DEF IInv, TableOK
<1>7. BilledToOwn'
    BY <1>1, <1>3, <1>4, KeptBills DEF IInv
<1> QED
    BY <1>2, <1>4, <1>5, <1>6, <1>7 DEF IInv

\* A new executor has a number nobody has.
LEMMA AddInv == ASSUME IInv, NEW n \in Names, AddProject(n) PROVE IInv'
<1>1. /\ n \notin projects /\ made < MaxObjects /\ made' = made + 1
      /\ projects' = projects \union {n}
      /\ execs' = With(execs, n, made') /\ usage' = With(usage, n, made')
      /\ Persist(active, projects') /\ Follow
      /\ UNCHANGED <<active, total, session, unread, restarts>>
    BY DEF AddProject, ledger, starts
<1>2. /\ made \in Nat /\ active \in projects /\ Default \in projects /\ projects' \subseteq Names
      /\ made' \in Objects
    BY <1>1, Entries DEF IInv, Objects
<1>3. /\ file' \in [active : Names, projects : SUBSET Names]
      /\ unsaved' \in BOOLEAN /\ faults' \in 0 .. MaxFaults
      /\ FileOK'
  <2>1. active \in Names /\ projects' \in SUBSET Names /\ {Default, active} \subseteq projects'
      BY <1>1, <1>2
  <2> QED
      BY <1>1, <2>1, PersistWrites DEF IInv, FileOK
<1>5. DOMAIN execs' = projects' /\ usage' = execs' /\ execs'[n] = made'
      /\ \A x \in projects : execs'[x] = execs[x] /\ execs'[x] \in 1 .. made
  <2>1. DOMAIN execs = projects /\ usage = execs /\ \A x \in projects : execs[x] \in 1 .. made
      BY DEF IInv, TableOK
  <2>2. execs' = With(execs, n, made') /\ usage' = execs'
      BY <1>1, <2>1
  <2>3. DOMAIN execs' = projects \union {n} /\ execs'[n] = made'
        /\ \A x \in projects : execs'[x] = execs[x]
      BY <1>1, <2>1, <2>2 DEF With
  <2> QED
      BY <1>1, <2>1, <2>2, <2>3
<1>6. TableOK'
  <2>1. \A x \in projects' : execs'[x] \in 1 .. made'
      BY <1>1, <1>2, <1>5
  <2>2. \A x, y \in projects' : execs'[x] = execs'[y] => x = y
      BY <1>1, <1>2, <1>5 DEF IInv, TableOK
  <2> QED
      BY <1>1, <1>2, <1>5, <2>1, <2>2 DEF TableOK
<1>4. /\ at' = at /\ name' = name /\ homes' \in [Runs -> SUBSET Objects]
      /\ \A r \in Runs : homes[r] \subseteq homes'[r]
      /\ RunsOK'
  <2>1. \A x \in projects' : usage'[x] \in Objects
      BY <1>1, <1>2, <1>5 DEF Objects
  <2> QED
      BY <1>1, <2>1, Followed DEF IInv
<1>7. TypeOK'
    BY <1>1, <1>2, <1>3, <1>4 DEF IInv, TypeOK
<1>8. BilledToOwn'
    BY <1>1, <1>4, KeptBills DEF IInv
<1> QED
    BY <1>3, <1>4, <1>6, <1>7, <1>8 DEF IInv

\* Neither the active nor the default project goes.
LEMMA RemoveInv == ASSUME IInv, NEW n \in Names, RemoveProject(n) PROVE IInv'
<1>1. /\ n \in projects \ {Default, active} /\ projects' = projects \ {n}
      /\ execs' = Without(execs, n) /\ usage' = Without(usage, n)
      /\ Persist(active, projects') /\ Follow
      /\ UNCHANGED <<active, made, total, session, unread, restarts>>
    BY DEF RemoveProject, ledger, starts
<1>2. active \in projects' /\ Default \in projects' /\ projects' \subseteq Names
    BY <1>1, Entries DEF IInv
<1>3. /\ file' \in [active : Names, projects : SUBSET Names]
      /\ unsaved' \in BOOLEAN /\ faults' \in 0 .. MaxFaults
      /\ FileOK'
  <2>1. active \in Names /\ projects' \in SUBSET Names /\ {Default, active} \subseteq projects'
      BY <1>2
  <2> QED
      BY <1>1, <2>1, PersistWrites DEF IInv, FileOK
<1>6. DOMAIN execs' = projects' /\ usage' = execs' /\ \A x \in projects' : execs'[x] = execs[x]
  <2>1. DOMAIN execs = projects /\ usage = execs
      BY DEF IInv, TableOK
  <2>2. /\ DOMAIN Without(execs, n) = projects \ {n}
        /\ \A x \in projects \ {n} : Without(execs, n)[x] = execs[x]
      BY <2>1, WithoutValues
  <2> QED
      BY <1>1, <2>1, <2>2
<1>7. TableOK'
    BY <1>1, <1>2, <1>6 DEF IInv, TableOK
<1>4. /\ at' = at /\ name' = name /\ homes' \in [Runs -> SUBSET Objects]
      /\ \A r \in Runs : homes[r] \subseteq homes'[r]
      /\ RunsOK'
  <2>1. \A x \in projects' : usage'[x] \in Objects
      BY <1>1, <1>6, Entries DEF IInv
  <2> QED
      BY <1>1, <2>1, Followed DEF IInv
<1>5. TypeOK'
    BY <1>1, <1>2, <1>3, <1>4 DEF IInv, TypeOK
<1>8. BilledToOwn'
    BY <1>1, <1>4, KeptBills DEF IInv
<1> QED
    BY <1>3, <1>4, <1>5, <1>7, <1>8 DEF IInv

\* The executor and the ledger move to the new name.
LEMMA RenameInv ==
    ASSUME IInv, NEW old \in Names, NEW new \in Names, RenameProject(old, new) PROVE IInv'
<1>1. /\ old \in projects \ {Default} /\ new \in Names \ projects
      /\ projects' = (projects \ {old}) \union {new}
      /\ execs' = With(Without(execs, old), new, execs[old])
      /\ usage' = With(Without(usage, old), new, usage[old])
      /\ active' = IF active = old THEN new ELSE active
      /\ Persist(active', projects') /\ Follow
      /\ UNCHANGED <<made, total, session, unread, restarts>>
    BY DEF RenameProject, ledger, starts
<1>2. active' \in projects' /\ Default \in projects' /\ projects' \subseteq Names
    BY <1>1, Entries DEF IInv
<1>3. /\ file' \in [active : Names, projects : SUBSET Names]
      /\ unsaved' \in BOOLEAN /\ faults' \in 0 .. MaxFaults
      /\ FileOK'
  <2>1. active' \in Names /\ projects' \in SUBSET Names /\ {Default, active'} \subseteq projects'
      BY <1>2
  <2> QED
      BY <1>1, <2>1, PersistWrites DEF IInv, FileOK
<1>6. /\ DOMAIN execs' = projects' /\ usage' = execs' /\ execs'[new] = execs[old]
      /\ \A x \in projects \ {old} : execs'[x] = execs[x]
  <2>1. DOMAIN execs = projects /\ usage = execs
      BY DEF IInv, TableOK
  <2>2. /\ DOMAIN Without(execs, old) = projects \ {old}
        /\ \A x \in projects \ {old} : Without(execs, old)[x] = execs[x]
      BY <2>1, WithoutValues
  <2> DEFINE f == Without(execs, old)
             v == execs[old]
  <2>3. execs' = With(f, new, v) /\ usage' = execs'
      BY <1>1, <2>1
  <2>4. DOMAIN f = projects \ {old} /\ \A x \in projects \ {old} : f[x] = execs[x]
      BY <2>2
  <2>5. DOMAIN execs' = DOMAIN f \union {new} /\ execs'[new] = v
        /\ \A x \in DOMAIN f \ {new} : execs'[x] = f[x]
    <3> HIDE DEF f, v
    <3> QED
      BY <2>3 DEF With
  <2> QED
      BY <1>1, <2>3, <2>4, <2>5
<1>7. TableOK'
    BY <1>1, <1>2, <1>6 DEF IInv, TableOK
<1>4. /\ at' = at /\ name' = name /\ homes' \in [Runs -> SUBSET Objects]
      /\ \A r \in Runs : homes[r] \subseteq homes'[r]
      /\ RunsOK'
  <2>1. \A x \in projects' : usage'[x] \in Objects
      BY <1>1, <1>6, Entries DEF IInv
  <2> QED
      BY <1>1, <2>1, Followed DEF IInv
<1>5. TypeOK'
    BY <1>1, <1>2, <1>3, <1>4 DEF IInv, TypeOK
<1>8. BilledToOwn'
    BY <1>1, <1>4, KeptBills DEF IInv
<1> QED
    BY <1>3, <1>4, <1>5, <1>7, <1>8 DEF IInv

\* The second half of /new only empties session costs.
LEMMA ResetInv == ASSUME IInv, ResetSessionUsage PROVE IInv'
<1>1. /\ session' = [session EXCEPT ![usage[active]] = {}]
      /\ UNCHANGED <<active, projects, execs, usage, made, total, file, unsaved, faults,
                     at, name, homes, unread, restarts>>
    BY DEF ResetSessionUsage, table, disk, runs, starts
<1>2. session' \in [Objects -> SUBSET Runs] /\ \A k \in Objects : session'[k] \subseteq session[k]
    BY <1>1, Entries DEF IInv, TypeOK
<1>3. BilledToOwn'
    BY <1>1, <1>2, KeptBills DEF IInv
<1> QED
    BY <1>1, <1>2, <1>3 DEF IInv, TypeOK, TableOK, FileOK, RunsOK, Own

\* A step that moves one run and leaves the table and the file alone keeps what is
\* not about its bill, if its own ledger stays among its own.
LEMMA MovedRun ==
    ASSUME IInv, NEW r \in Runs, NEW p \in Places, Goto(r, p), UNCHANGED <<table, disk, starts>>,
           name' \in [Tasks -> Names], \A u \in Tasks \ {r} : name'[u] = name[u],
           homes' \in [Runs -> SUBSET Objects], \A q \in Runs \ {r} : homes'[q] = homes[q],
           total' \in [Objects -> SUBSET Runs], session' \in [Objects -> SUBSET Runs],
           BilledToOwn', p \in Running => Own(r)' \subseteq homes'[r]
    PROVE  IInv'
<1>1. /\ UNCHANGED <<active, projects, execs, usage, made, file, unsaved, faults, unread, restarts>>
      /\ TableOK' /\ FileOK'
    BY DEF IInv, TableOK, FileOK, table, disk, starts
<1>2. /\ at' \in [Runs -> Places]
      /\ \A q \in Runs : at'[q] = IF q = r THEN p ELSE at[q]
    BY DEF IInv, TypeOK, Goto
<1>3. TypeOK'
    BY <1>1, <1>2 DEF IInv, TypeOK
<1>4. ASSUME NEW q \in Runs, at'[q] \in Running PROVE Own(q)' \subseteq homes'[q]
  <2>1. CASE q = r
      BY <1>2, <1>4, <2>1
  <2>2. CASE q # r
    <3>1. at[q] \in Running /\ homes'[q] = homes[q]
      BY <1>2, <1>4, <2>2
    <3>2. Own(q)' = Own(q)
      BY <1>1, <2>2 DEF Own, Runs
    <3> QED
      BY <3>1, <3>2 DEF IInv, RunsOK
  <2> QED
      BY <2>1, <2>2
<1> QED
    BY <1>1, <1>3, <1>4 DEF IInv, RunsOK

\* The worker's steps on one run: it starts in the executor of the active project,
\* and is billed to the one that is active then, which has become its own.
LEMMA WorkInv == ASSUME IInv, NEW m \in Messages,
                        Execute(m) \/ Return(m) \/ Refuse(m) \/ TrackUsage(m)
                 PROVE  IInv'
<1>1. m \in Runs /\ m \notin Tasks
    BY DEF Runs
<1>2. /\ UNCHANGED <<table, disk, name, starts>>
      /\ name' \in [Tasks -> Names] /\ \A u \in Tasks \ {m} : name'[u] = name[u]
    BY DEF Execute, Return, Refuse, TrackUsage, IInv, TypeOK
<1>3. active \in projects /\ execs[active] \in Objects /\ usage[active] = execs[active]
    BY Entries DEF IInv
<1>4. Own(m) = {usage[active]}
    BY <1>3 DEF Own
<1>5. Own(m)' = Own(m)
    BY <1>2 DEF Own, table
<1>6. CASE Execute(m)
  <2>1. /\ at[m] # "billed" /\ Goto(m, "executing") /\ UNCHANGED ledger
        /\ homes' = [homes EXCEPT ![m] = {execs[active]}]
      BY <1>6 DEF Execute
  <2>2. /\ homes' \in [Runs -> SUBSET Objects] /\ homes'[m] = {execs[active]}
        /\ \A q \in Runs \ {m} : homes'[q] = homes[q]
      BY <1>1, <1>3, <2>1 DEF IInv, TypeOK
  <2>3. "executing" \in Places \ {"billed"}
      BY DEF Places, Running
  <2>4. BilledToOwn'
      BY <1>1, <2>1, <2>2, <2>3, UnbilledRun DEF IInv
  <2> QED
      BY <1>1, <1>2, <1>3, <1>4, <1>5, <2>1, <2>2, <2>3, <2>4, MovedRun DEF IInv, TypeOK, ledger
<1>7. CASE Return(m) \/ Refuse(m)
  <2>1. PICK p \in {"asking", "answered", "over"} :
              at[m] \in {"executing", "asking"} /\ Goto(m, p)
      BY <1>7 DEF Return, Refuse
  <2>2. p \in Places \ {"billed"} /\ at[m] \in Running /\ at[m] # "billed"
      BY <2>1 DEF Places, Running
  <2>3. UNCHANGED <<ledger, homes>>
      BY <1>7 DEF Return, Refuse
  <2>4. BilledToOwn'
      BY <1>1, <2>1, <2>2, <2>3, UnbilledRun DEF IInv
  <2>5. Own(m) \subseteq homes[m]
      BY <1>1, <2>2 DEF IInv, RunsOK
  <2>6. /\ homes' \in [Runs -> SUBSET Objects] /\ homes' = homes
        /\ total' \in [Objects -> SUBSET Runs] /\ session' \in [Objects -> SUBSET Runs]
      BY <2>3 DEF IInv, TypeOK, ledger
  <2> QED
      BY <1>1, <1>2, <1>5, <2>1, <2>2, <2>4, <2>5, <2>6, MovedRun
<1>8. CASE TrackUsage(m)
  <2>1. /\ at[m] = "answered" /\ Goto(m, "billed") /\ Bill(usage[active], m)
        /\ UNCHANGED homes
      BY <1>8 DEF TrackUsage
  <2>2. usage[active] \in homes[m]
      BY <1>1, <1>4, <2>1 DEF IInv, RunsOK, Running
  <2>3. /\ BilledToOwn'
        /\ total' \in [Objects -> SUBSET Runs] /\ session' \in [Objects -> SUBSET Runs]
      BY <1>1, <1>3, <2>1, <2>2, BilledRun DEF IInv
  <2>4. "billed" \in Places /\ "billed" \notin Running
      BY DEF Places, Running
  <2>5. homes' \in [Runs -> SUBSET Objects] /\ homes' = homes
      BY <2>1 DEF IInv, TypeOK
  <2> QED
      BY <1>1, <1>2, <2>1, <2>3, <2>4, <2>5, MovedRun
<1> QED
    BY <1>6, <1>7, <1>8

\* The steps of one background task: it goes by a name, and by the end its ledger is
\* that of whatever project has this name.
LEMMA TaskInv == ASSUME IInv, NEW t \in Tasks,
                        \/ \E n \in Names : Submit(t, n)
                        \/ StartTask(t) \/ FailTask(t) \/ TrackUsageForProject(t)
                 PROVE  IInv'
<1>1. t \in Runs /\ t \notin Messages
    BY RunsAssumption DEF Runs
<1>2. UNCHANGED <<table, disk, starts>>
    BY DEF Submit, StartTask, FailTask, TrackUsageForProject
<1>3. \A n \in projects : usage[n] = execs[n] /\ execs[n] \in Objects
    BY Entries DEF IInv
<1>4. Own(t) = {usage[n] : n \in {name[t]} \intersect projects} /\ Own(t) \subseteq Objects
    BY <1>1, <1>3 DEF Own
<1>5. /\ name' \in [Tasks -> Names] /\ \A u \in Tasks \ {t} : name'[u] = name[u]
      /\ homes \in [Runs -> SUBSET Objects]
      /\ total \in [Objects -> SUBSET Runs] /\ session \in [Objects -> SUBSET Runs]
    BY DEF Submit, StartTask, FailTask, TrackUsageForProject, IInv, TypeOK
<1>6. ASSUME NEW p \in Places \ {"billed"}, at[t] # "billed", Goto(t, p), UNCHANGED ledger,
             homes' \in [Runs -> SUBSET Objects], \A q \in Runs \ {t} : homes'[q] = homes[q],
             p \in Running => Own(t)' \subseteq homes'[t]
      PROVE  IInv'
  <2>1. BilledToOwn'
      BY <1>1, <1>6, UnbilledRun DEF IInv
  <2>2. UNCHANGED <<total, session>>
      BY <1>6 DEF ledger
  <2> QED
      BY <1>1, <1>2, <1>5, <1>6, <2>1, <2>2, MovedRun
<1>7. ASSUME NEW n \in Names, Submit(t, n) PROVE IInv'
  <2>1. at[t] # "billed" /\ Goto(t, "submitted") /\ UNCHANGED <<ledger, homes>>
      BY <1>7 DEF Submit
  <2>2. "submitted" \in Places \ {"billed"} /\ "submitted" \notin Running
      BY DEF Places, Running
  <2> QED
      BY <1>5, <1>6, <2>1, <2>2
<1>8. CASE StartTask(t)
  <2>1. at[t] # "billed" /\ UNCHANGED <<ledger, name>> /\ Own(t)' = Own(t)
      BY <1>2, <1>8 DEF StartTask, Own, table
  <2>2. CASE name[t] \in projects
    <3>1. Goto(t, "executing") /\ homes' = [homes EXCEPT ![t] = Own(t)]
      BY <1>8, <2>2 DEF StartTask
    <3>2. /\ homes' \in [Runs -> SUBSET Objects] /\ homes'[t] = Own(t)
          /\ \A q \in Runs \ {t} : homes'[q] = homes[q]
      BY <1>1, <1>4, <1>5, <3>1
    <3>3. "executing" \in Places \ {"billed"}
      BY DEF Places, Running
    <3> QED
      BY <1>6, <2>1, <3>1, <3>2, <3>3
  <2>3. CASE name[t] \notin projects
    <3>1. Goto(t, "over") /\ UNCHANGED homes
      BY <1>8, <2>3 DEF StartTask
    <3>2. "over" \in Places \ {"billed"} /\ "over" \notin Running
      BY DEF Places, Running
    <3> QED
      BY <1>5, <1>6, <2>1, <3>1, <3>2
  <2> QED
      BY <2>2, <2>3
<1>9. CASE FailTask(t)
  <2>1. at[t] # "billed" /\ Goto(t, "over") /\ UNCHANGED <<ledger, homes>>
      BY <1>9 DEF FailTask
  <2>2. "over" \in Places \ {"billed"} /\ "over" \notin Running
      BY DEF Places, Running
  <2> QED
      BY <1>5, <1>6, <2>1, <2>2
<1>10. CASE TrackUsageForProject(t)
  <2>1. /\ at[t] = "executing" /\ Goto(t, "billed") /\ UNCHANGED homes
        /\ IF name[t] \in projects THEN Bill(usage[name[t]], t) ELSE UNCHANGED ledger
      BY <1>10 DEF TrackUsageForProject
  <2>2. "billed" \in Places /\ "billed" \notin Running
      BY DEF Places, Running
  <2>3. /\ BilledToOwn'
        /\ total' \in [Objects -> SUBSET Runs] /\ session' \in [Objects -> SUBSET Runs]
    <3>1. CASE name[t] \in projects
      <4>1. usage[name[t]] \in homes[t] /\ usage[name[t]] \in Objects
        BY <1>1, <1>3, <1>4, <2>1, <3>1 DEF IInv, RunsOK, Running
      <4> QED
        BY <1>1, <2>1, <3>1, <4>1, BilledRun DEF IInv
    <3>2. CASE name[t] \notin projects
      <4>1. UNCHANGED <<total, session, homes>>
        BY <2>1, <3>2 DEF ledger
      <4>2. \A q \in Runs : at'[q] = IF q = t THEN "billed" ELSE at[q]
        BY <2>1 DEF IInv, TypeOK, Goto
      <4>3. \A k \in Objects : \A q \in total[k] : q \in Runs /\ at'[q] = "billed" /\ k \in homes[q]
        BY <1>5, <4>2 DEF IInv, BilledToOwn
      <4>4. \A m \in Messages : at'[m] = "billed" => \E k \in Objects : m \in total[k]
        BY <1>1, <4>2 DEF IInv, BilledToOwn, Runs
      <4> QED
        BY <1>5, <4>1, <4>3, <4>4 DEF IInv, BilledToOwn
    <3> QED
      BY <3>1, <3>2
  <2>4. homes' \in [Runs -> SUBSET Objects] /\ homes' = homes
      BY <1>5, <2>1
  <2> QED
      BY <1>1, <1>2, <1>5, <2>1, <2>2, <2>3, <2>4, MovedRun
<1> QED
    BY <1>7, <1>8, <1>9, <1>10

\* The next process finds a table with the two projects it needs, or makes one.
LEMMA RestartInv == ASSUME IInv, Restart PROVE IInv'
<1> DEFINE found == IF unread' THEN Torn ELSE file
           names == IF found = Torn THEN {Default} ELSE found.projects
<1>1. /\ made + Cardinality(names) <= MaxObjects
      /\ restarts < MaxRestarts /\ restarts' = restarts + 1 /\ unread' \in BOOLEAN
      /\ active' = found.active /\ projects' = names
      /\ execs' = Numbered(names) /\ usage' = execs'
      /\ made' = made + Cardinality(names)
      /\ IF found = Torn THEN Persist(Default, {Default}) ELSE UNCHANGED disk
      /\ at' = [r \in Runs |-> IF at[r] \in {"new", "billed"} THEN at[r] ELSE "over"]
      /\ UNCHANGED <<total, session, name, homes>>
    BY DEF Restart, ledger
<1>2. names \in SUBSET Names /\ active' \in names /\ Default \in names
  <2>1. CASE found = Torn
      BY <1>1, <2>1 DEF Torn
  <2>2. CASE found # Torn
    <3>1. found = file /\ active' = file.active /\ names = file.projects
      BY <1>1, <2>2
    <3> QED
      BY <2>2, <3>1 DEF IInv, TypeOK, FileOK
  <2> QED
      BY <2>1, <2>2
<1>3. made \in Nat /\ made > 0
    BY DEF IInv, TypeOK, Objects
<1>4. /\ Cardinality(names) \in Nat
      /\ execs' \in [names -> made + 1 .. made']
      /\ \A x, y \in names : execs'[x] = execs'[y] => x = y
  <2> HIDE DEF names
  <2> QED
      BY <1>1, <1>2, <1>3, NumberedValues
<1>5. /\ file' \in [active : Names, projects : SUBSET Names]
      /\ unsaved' \in BOOLEAN /\ faults' \in 0 .. MaxFaults
      /\ FileOK'
  <2>1. CASE found = Torn
    <3>1. active' = Default /\ projects' = {Default} /\ Persist(Default, {Default})
      BY <1>1, <2>1 DEF Torn
    <3> QED
      BY <3>1, PersistWrites DEF IInv, FileOK
  <2>2. CASE found # Torn
      BY <1>1, <2>2 DEF IInv, TypeOK, FileOK, disk
  <2> QED
      BY <2>1, <2>2
<1>6. \A r \in Runs : at'[r] \in Places /\ at'[r] \notin Running /\ (at'[r] = "billed" <=> at[r] = "billed")
    BY <1>1 DEF IInv, TypeOK, Places, Running
<1>7. TypeOK'
  <2>1. at' \in [Runs -> Places]
      BY <1>1, <1>6
  <2>2. made' \in Objects
      BY <1>1, <1>3, <1>4 DEF Objects
  <2>3. restarts' \in 0 .. MaxRestarts
      BY <1>1 DEF IInv, TypeOK
  <2> QED
      BY <1>1, <1>2, <1>5, <2>1, <2>2, <2>3 DEF IInv, TypeOK
<1>8. TableOK'
  <2>1. \A n \in names : execs'[n] \in 1 .. made'
    <3> HIDE DEF names
    <3>1. made' \in Nat
      BY <1>1, <1>3, <1>4
    <3> QED
      BY <1>3, <1>4, <3>1
  <2> QED
      BY <1>1, <1>2, <1>4, <2>1 DEF TableOK
<1>9. BilledToOwn'
    BY <1>1, <1>6 DEF IInv, BilledToOwn, TypeOK, Runs
<1>10. RunsOK'
    BY <1>6 DEF RunsOK
<1> QED
    BY <1>5, <1>7, <1>8, <1>9, <1>10 DEF IInv

\* NewManager without a file.
LEMMA InitInv == Init => IInv
<1> SUFFICES ASSUME Init PROVE IInv
    OBVIOUS
<1>1. 1 \in Objects
    BY DEF Objects
<1>2. TypeOK
  <2>1. made \in Objects /\ 0 \in 0 .. MaxObjects /\ 0 \in 0 .. MaxFaults /\ 0 \in 0 .. MaxRestarts
      BY <1>1 DEF Init
  <2>2. /\ total \in [Objects -> SUBSET Runs] /\ session \in [Objects -> SUBSET Runs]
        /\ homes \in [Runs -> SUBSET Objects] /\ name \in [Tasks -> Names]
        /\ at \in [Runs -> Places]
      BY <2>1 DEF Init, Places
  <2> QED
      BY <2>1, <2>2 DEF Init, TypeOK
<1>3. TableOK
    BY DEF Init, TableOK
<1>4. BilledToOwn
    BY DEF Init, BilledToOwn, Runs
<1>5. FileOK
    BY DEF Init, FileOK
<1>6. RunsOK
    BY DEF Init, RunsOK, Running
<1> QED
    BY <1>2, <1>3, <1>4, <1>5, <1>6 DEF IInv

\* Every step of the manager, the runs and restarts keeps the invariant.
LEMMA StepInv == IInv /\ [Next]_vars => IInv'
<1> SUFFICES ASSUME IInv, [Next]_vars PROVE IInv'
    OBVIOUS
<1>1. CASE Manage
    BY <1>1, SwitchInv, AddInv, RemoveInv, RenameInv DEF Manage
<1>2. CASE ResetSessionUsage
    BY <1>2, ResetInv
<1>3. CASE Work
    BY <1>3, WorkInv DEF Work
<1>4. CASE Background
    BY <1>4, TaskInv DEF Background
<1>5. CASE Restart
    BY <1>5, RestartInv
<1>6. CASE UNCHANGED vars
    BY <1>6 DEF vars, table, ledger, disk, runs, starts, IInv, TypeOK, TableOK, BilledToOwn,
                FileOK, RunsOK, Own
<1> QED
    BY <1>1, <1>2, <1>3, <1>4, <1>5, <1>6 DEF Next

\* The inductive invariant holds in every state of the manager, of the runs and of
\* restarts, failing writes included; TableOK in it is why m.execs[m.active] is
\* never nil.
THEOREM ProjectsInvariance == Spec => []IInv
<1>1. Init => IInv
    BY InitInv
<1>2. IInv /\ [Next]_vars => IInv'
    BY StepInv
<1> QED
    BY <1>1, <1>2, PTL DEF Spec

\* TrackUsage and TrackUsageForProject bill each run at most once, to a ledger that
\* was its own while it ran.
THEOREM CostsReachOwnLedger == Spec => []BilledToOwn
<1>1. IInv => BilledToOwn
    BY DEF IInv
<1> QED
    BY <1>1, ProjectsInvariance, PTL

\* NewManager finds the projects and the active one of the process before, unless
\* the last write failed or it cannot read the file.
THEOREM ProjectsSurvive == Spec => RestartKeepsProjects
<1>1. IInv /\ [Next]_vars =>
        [restarts' # restarts /\ ~unsaved /\ ~unread' =>
            active' = active /\ projects' = projects]_vars
  <2> SUFFICES ASSUME IInv, Next, restarts' # restarts, ~unsaved, ~unread'
               PROVE  active' = active /\ projects' = projects
      OBVIOUS
  <2>1. Restart
      BY DEF Next, Manage, SwitchProject, AddProject, RemoveProject, RenameProject,
             ResetSessionUsage, Work, Execute, Return, Refuse, TrackUsage, Background,
             Submit, StartTask, FailTask, TrackUsageForProject, starts
  <2>2. file = [active |-> active, projects |-> projects] /\ Default \in projects
      BY DEF IInv, FileOK, TableOK
  <2>3. file # Torn
      BY <2>2 DEF Torn
  <2> QED
      BY <2>1, <2>2, <2>3 DEF Restart
<1> QED
    BY <1>1, ProjectsInvariance, PTL DEF Spec, RestartKeepsProjects

-----------------------------------------------------------------------------
(* The starts on one bot.pid                                               *)

USE NoPidAssumption

\* Before the first start.
LEMMA StartsInitInv == StartsInit => StartsInv
BY DEF StartsInit, StartsInv, StartsTypeOK, InTurn, StaleIsUnclean, Up, Lives,
       Alive, Acquiring, Active, Unnamed

\* What signals do to a process that is up.
LEMMA TerminatedLife ==
    ASSUME NEW l \in Lives
    PROVE  /\ Terminated(l) \in Lives
           /\ l \in Alive <=> l = "stopping" \/ Terminated(l) # l
           /\ l = "running" => Terminated(l) = "stopping"
           /\ l # "running" => Terminated(l) \in {l, "dead"}
           /\ l \notin Alive => Terminated(l) = l
           /\ l \in Alive \ {"running", "stopping"} => Terminated(l) = "dead"
BY DEF Terminated, Lives, Alive, Acquiring, Active

\* Every step of every process keeps the invariant.
LEMMA StartsStepInv == StartsInv /\ [StartsNext]_startsVars => StartsInv'
<1> SUFFICES ASSUME StartsInv, [StartsNext]_startsVars PROVE StartsInv'
    OBVIOUS
<1> USE DEF StartsInv, StartsTypeOK, InTurn, StaleIsUnclean, Up, Unnamed, MoveTo,
            Lives, Alive, Acquiring, Active
<1>1. CASE UNCHANGED startsVars
    BY <1>1 DEF startsVars
<1>2. ASSUME NEW p \in Procs, Start(p) PROVE StartsInv'
    BY <1>2 DEF Start
<1>3. ASSUME NEW p \in Procs, Read(p) PROVE StartsInv'
  <2>1. StartsTypeOK' /\ StaleIsUnclean'
    BY <1>3 DEF Read
  <2>2. ASSUME ~overlap' PROVE InTurn'
    <3>1. ~overlap /\ \A q \in Procs : life[q] \notin Acquiring
        BY <1>3, <2>2 DEF Read
    <3>2. \A q \in Procs \ {p} : life'[q] = life[q]
        BY <1>3 DEF Read
    <3>3. life'[p] \in Acquiring /\ ~Up(p)' /\ UNCHANGED pidFile /\ target'[p] = pidFile
        BY <1>3 DEF Read
    <3>4. \A q \in Procs : Up(q)' => pidFile = q /\ life'[p] = "term"
        BY <1>3, <3>1, <3>2, <3>3 DEF Read
    <3>5. QED
        BY <3>1, <3>2, <3>3, <3>4
  <2>3. QED
    BY <1>3, <2>1, <2>2 DEF Read
<1>4. ASSUME NEW p \in Procs, SendTerm(p) PROVE StartsInv'
    BY <1>4, TerminatedLife DEF SendTerm
<1>5. ASSUME NEW p \in Procs, SendKill(p) PROVE StartsInv'
    BY <1>5 DEF SendKill
<1>6. ASSUME NEW p \in Procs, Remove(p) PROVE StartsInv'
    BY <1>6 DEF Remove
<1>7. ASSUME NEW p \in Procs, Write(p) PROVE StartsInv'
    BY <1>7 DEF Write
<1>8. ASSUME NEW p \in Procs, Boot(p) PROVE StartsInv'
    BY <1>8 DEF Boot
<1>9. ASSUME NEW p \in Procs, Notify(p) PROVE StartsInv'
    BY <1>9 DEF Notify
<1>10. ASSUME NEW p \in Procs, Stop(p) PROVE StartsInv'
  <2>1. StartsTypeOK' /\ StaleIsUnclean'
    BY <1>10, TerminatedLife DEF Stop
  <2>2. InTurn'
    BY <1>10, TerminatedLife DEF Stop
  <2>3. QED
    BY <1>10, TerminatedLife, <2>1, <2>2 DEF Stop
<1>11. ASSUME NEW p \in Procs, MainReturns(p) PROVE StartsInv'
    BY <1>11 DEF MainReturns
<1>12. ASSUME NEW p \in Procs, Die(p) PROVE StartsInv'
  <2>1. StartsTypeOK' /\ StaleIsUnclean'
    BY <1>12 DEF Die
  <2>2. InTurn'
    BY <1>12 DEF Die
  <2>3. QED
    BY <1>12, <2>1, <2>2 DEF Die
<1> QED
    BY <1>1, <1>2, <1>3, <1>4, <1>5, <1>6, <1>7, <1>8, <1>9, <1>10, <1>11, <1>12
       DEF StartsNext, Step

\* The inductive invariant holds in every reachable state.
THEOREM StartsInvariance == StartsSpec => []StartsInv
BY StartsInitInv, StartsStepInv, PTL DEF StartsSpec

\* Without overlapping starts one process works on the files at a time.
THEOREM OneAtATime == StartsSpec => []OneActive
<1>1. StartsInv => OneActive
    BY DEF StartsInv, InTurn, OneActive, Up, StartsTypeOK, Acquiring, Active
<1> QED
    BY <1>1, StartsInvariance, PTL

\* Without overlapping starts bot.pid names the process that works, unless a
\* start is about to replace it.
THEOREM FileIsRight == StartsSpec => []FileNamesActive
<1>1. StartsInv => FileNamesActive
    BY DEF StartsInv, InTurn, FileNamesActive, Up
<1> QED
    BY <1>1, StartsInvariance, PTL

\* bot.pid never names a process that ended in order.
THEOREM StaleFile == StartsSpec => []StaleIsUnclean
<1>1. StartsInv => StaleIsUnclean
    BY DEF StartsInv
<1> QED
    BY <1>1, StartsInvariance, PTL
=============================================================================
