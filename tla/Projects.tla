------------------------------ MODULE Projects ------------------------------
(***************************************************************************)
(* The project manager: a table from names to executors and ledgers, the   *)
(* active project, and projects.json.  The worker runs one message at a    *)
(* time in the project that is active when a phase begins and bills it to  *)
(* the one active when it ends; background tasks run and are billed under  *)
(* a name; handlers switch, add, remove and rename projects meanwhile.     *)
(* Manager.mu protects the table, and a step is one critical section.      *)
(* Which session an executor resumes is in ProjectSessions.                *)
(***************************************************************************)
EXTENDS Naturals, FiniteSets

CONSTANTS
    Names,          \* names of projects
    Default,        \* "default"
    Messages,       \* foreground runs
    Tasks,          \* background runs; of a loop, which bills each iteration, one
    MaxObjects,     \* bound: executors ever made
    MaxFaults,      \* bound: failing writes of projects.json
    MaxRestarts     \* bound: ends of the process

ASSUME NamesAssumption == IsFiniteSet(Names) /\ Default \in Names
ASSUME RunsAssumption == Messages \intersect Tasks = {}
ASSUME BoundsAssumption ==
    /\ MaxObjects \in Nat \ {0}
    /\ MaxFaults \in Nat /\ MaxRestarts \in Nat

Runs    == Messages \union Tasks
Objects == 1 .. MaxObjects  \* an executor and the ledger made with it

\* A projects.json that does not parse is treated like one without projects.
Torn == [active |-> Default, projects |-> {}]

VARIABLES
    active,     \* Manager.active
    projects,   \* keys of Manager.projects
    execs,      \* Manager.execs
    usage,      \* Manager.usage
    total,      \* runs in TotalCostUSD of a ledger
    session,    \* runs in its SessionCostUSD
    file,       \* projects.json
    at,         \* where a run is
    name,       \* BackgroundTask.Project
    \* what has happened, for the properties and the bounds
    made,       \* executors made so far
    homes,      \* the ledgers that were a run's own since its phase began, see Own
    unsaved,    \* the last write of projects.json failed
    unread,     \* this process could not read projects.json when it started
    faults, restarts

table  == <<active, projects, execs, usage, made>>
ledger == <<total, session>>
disk   == <<file, unsaved, faults>>
runs   == <<at, name, homes>>
starts == <<unread, restarts>>
vars   == <<table, ledger, disk, runs, starts>>

Running == {"executing", "asking", "answered"}
Places  == {"new", "submitted", "billed", "over"} \union Running

Init ==
    /\ active = Default /\ projects = {Default}
    /\ execs = [n \in {Default} |-> 1] /\ usage = [n \in {Default} |-> 1]
    /\ total = [k \in Objects |-> {}] /\ session = [k \in Objects |-> {}]
    /\ file = [active |-> Default, projects |-> {Default}]
    /\ at = [r \in Runs |-> "new"] /\ name = [t \in Tasks |-> Default]
    /\ made = 1 /\ homes = [r \in Runs |-> {}]
    /\ unsaved = FALSE /\ unread = FALSE /\ faults = 0 /\ restarts = 0

Goto(r, p) == at' = [at EXCEPT ![r] = p]

-----------------------------------------------------------------------------
(* Switch, add, remove, rename: by command, or by a tap on a keyboard that  *)
(* may be older than the table                                             *)

\* os.WriteFile truncates first: a failure leaves the old file or a torn one.
\* Errors are logged only.
Persist(first, names) ==
    \/ /\ file' = [active |-> first, projects |-> names]
       /\ unsaved' = FALSE /\ UNCHANGED faults
    \/ /\ faults < MaxFaults /\ faults' = faults + 1
       /\ file' \in {file, Torn} /\ unsaved' = TRUE

Without(f, n) == [x \in DOMAIN f \ {n} |-> f[x]]
With(f, n, v) == [x \in DOMAIN f \union {n} |-> IF x = n THEN v ELSE f[x]]

Foreground == {m \in Messages : at[m] \in Running}

\* The ledger a run is billed to if it ends now: that of the active project for a
\* message, that of the project with its name, if there is one, for a task.
Own(r) ==
    {usage[n] : n \in {IF r \in Messages THEN active ELSE name[r]} \intersect projects}

\* A command may change the project under the runs.
Follow ==
    /\ UNCHANGED <<at, name>>
    /\ homes' = [r \in Runs |-> IF at[r] \in Running THEN homes[r] \union Own(r)'
                               ELSE homes[r]]

\* Mutant: the choice is not written to the file.
SwitchUnsaved(n) ==
    /\ n \in projects /\ n # active
    /\ active' = n
    /\ session' = [session EXCEPT ![usage[n]] = {}]
    /\ UNCHANGED <<projects, execs, usage, made, total, disk, starts>>
    /\ Follow

SwitchProject(n) ==
    /\ n \in projects /\ n # active
    /\ active' = n
    /\ Persist(n, projects)
    /\ session' = [session EXCEPT ![usage[n]] = {}]
    /\ UNCHANGED <<projects, execs, usage, made, total, starts>>
    /\ Follow

AddProject(n) ==
    /\ n \notin projects /\ made < MaxObjects
    /\ made' = made + 1
    /\ projects' = projects \union {n}
    /\ execs' = With(execs, n, made') /\ usage' = With(usage, n, made')
    /\ Persist(active, projects')
    /\ UNCHANGED <<active, ledger, starts>>
    /\ Follow

\* Mutant: the active project can be removed.
RemoveAny(n) ==
    /\ n \in projects \ {Default}
    /\ projects' = projects \ {n}
    /\ execs' = Without(execs, n) /\ usage' = Without(usage, n)
    /\ Persist(active, projects')
    /\ UNCHANGED <<active, made, ledger, starts>>
    /\ Follow

RemoveProject(n) ==
    /\ n \in projects \ {Default, active}
    /\ projects' = projects \ {n}
    /\ execs' = Without(execs, n) /\ usage' = Without(usage, n)
    /\ Persist(active, projects')
    /\ UNCHANGED <<active, made, ledger, starts>>
    /\ Follow

\* The executor and the ledger keep their identity under the new name.
RenameProject(old, new) ==
    /\ old \in projects \ {Default} /\ new \in Names \ projects
    /\ projects' = (projects \ {old}) \union {new}
    /\ execs' = With(Without(execs, old), new, execs[old])
    /\ usage' = With(Without(usage, old), new, usage[old])
    /\ active' = IF active = old THEN new ELSE active
    /\ Persist(active', projects')
    /\ UNCHANGED <<made, ledger, starts>>
    /\ Follow

Manage ==
    \E n \in Names :
        \/ SwitchProject(n) \/ AddProject(n) \/ RemoveProject(n)
        \/ \E new \in Names : RenameProject(n, new)

\* The second half of /new.
ResetSessionUsage ==
    /\ session' = [session EXCEPT ![usage[active]] = {}]
    /\ UNCHANGED <<table, total, disk, runs, starts>>

-----------------------------------------------------------------------------
(* The worker: process, Execute, TrackUsage                                *)

Bill(k, r) ==
    /\ total' = [total EXCEPT ![k] = @ \union {r}]
    /\ session' = [session EXCEPT ![k] = @ \union {r}]

\* Execute looks the active project up: at the start, and again once a request
\* for permission is granted.
Execute(m) ==
    /\ at[m] \in {"new", "asking"} /\ Foreground \subseteq {m}
    /\ Goto(m, "executing")
    /\ homes' = [homes EXCEPT ![m] = {execs[active]}]
    /\ UNCHANGED <<table, ledger, disk, name, starts>>

\* The CLI ends with denials or with an answer.
Return(m) ==
    /\ at[m] = "executing"
    /\ Goto(m, "asking") \/ Goto(m, "answered")
    /\ UNCHANGED <<table, ledger, disk, name, homes, starts>>

\* A failing run and a refused request are not billed, whatever they cost.
Refuse(m) ==
    /\ at[m] \in {"executing", "asking"}
    /\ Goto(m, "over")
    /\ UNCHANGED <<table, ledger, disk, name, homes, starts>>

TrackUsage(m) ==
    /\ at[m] = "answered"
    /\ Goto(m, "billed")
    /\ Bill(usage[active], m)
    /\ UNCHANGED <<table, disk, name, homes, starts>>

Work == \E m \in Messages : Execute(m) \/ Return(m) \/ Refuse(m) \/ TrackUsage(m)

-----------------------------------------------------------------------------
(* Background tasks: an executor of their own, a project by its name       *)

Submit(t, n) ==
    /\ at[t] = "new" /\ n \in projects
    /\ Goto(t, "submitted")
    /\ name' = [name EXCEPT ![t] = n]
    /\ UNCHANGED <<table, ledger, disk, homes, starts>>

\* NewBackgroundExecutor; the name may be gone by now.
StartTask(t) ==
    /\ at[t] = "submitted"
    /\ IF name[t] \in projects
       THEN Goto(t, "executing") /\ homes' = [homes EXCEPT ![t] = Own(t)]
       ELSE Goto(t, "over") /\ UNCHANGED homes
    /\ UNCHANGED <<table, ledger, disk, name, starts>>

FailTask(t) ==
    /\ at[t] = "executing"
    /\ Goto(t, "over")
    /\ UNCHANGED <<table, ledger, disk, name, homes, starts>>

\* Mutant: the bill goes to the active project.
TrackActive(t) ==
    /\ at[t] = "executing"
    /\ Goto(t, "billed")
    /\ Bill(usage[active], t)
    /\ UNCHANGED <<table, disk, name, homes, starts>>

\* TrackUsageForProject ignores a name that is gone.
TrackUsageForProject(t) ==
    /\ at[t] = "executing"
    /\ Goto(t, "billed")
    /\ IF name[t] \in projects THEN Bill(usage[name[t]], t) ELSE UNCHANGED ledger
    /\ UNCHANGED <<table, disk, name, homes, starts>>

Background ==
    \E t \in Tasks :
        \/ \E n \in Names : Submit(t, n)
        \/ StartTask(t) \/ FailTask(t) \/ TrackUsageForProject(t)

-----------------------------------------------------------------------------
\* Executors numbered from made + 1, one for each name.
Numbered(names) ==
    CHOOSE f \in [names -> made + 1 .. made + Cardinality(names)] :
        \A x, y \in names : f[x] = f[y] => x = y

\* The process ends, and NewManager of the next one loads the file.  If it cannot,
\* because the file is torn or because it could not be read, whatever it holds, it
\* falls back to the default project and writes that over the file.  load also
\* replaces an active project without an entry; FileOK says it never finds one.
Restart ==
    /\ restarts < MaxRestarts /\ restarts' = restarts + 1
    /\ unread' \in BOOLEAN
    /\ LET found == IF unread' THEN Torn ELSE file
           names == IF found = Torn THEN {Default} ELSE found.projects
       IN /\ made + Cardinality(names) <= MaxObjects
          /\ active' = found.active /\ projects' = names
          /\ execs' = Numbered(names) /\ usage' = execs'
          /\ made' = made + Cardinality(names)
          /\ IF found = Torn THEN Persist(Default, {Default}) ELSE UNCHANGED disk
    /\ at' = [r \in Runs |-> IF at[r] \in {"new", "billed"} THEN at[r] ELSE "over"]
    /\ UNCHANGED <<ledger, name, homes>>

Next == Manage \/ ResetSessionUsage \/ Work \/ Background \/ Restart

Spec == Init /\ [][Next]_vars

-----------------------------------------------------------------------------
(* Properties                                                              *)

TypeOK ==
    /\ active \in Names /\ projects \subseteq Names
    /\ total \in [Objects -> SUBSET Runs] /\ session \in [Objects -> SUBSET Runs]
    /\ file \in [active : Names, projects : SUBSET Names]
    /\ at \in [Runs -> Places] /\ name \in [Tasks -> Names]
    /\ made \in Objects
    /\ homes \in [Runs -> SUBSET Objects]
    /\ unsaved \in BOOLEAN /\ unread \in BOOLEAN
    /\ faults \in 0 .. MaxFaults /\ restarts \in 0 .. MaxRestarts

\* The three maps stay one table however projects come, go and are renamed: the
\* active and the default project exist, each project has an executor and the
\* ledger made with it, and no two share one.  The code dereferences
\* m.execs[m.active] and m.usage[m.active] unchecked.
TableOK ==
    /\ {Default, active} \subseteq projects
    /\ DOMAIN execs = projects /\ usage = execs
    /\ \A n \in projects : execs[n] \in 1 .. made
    /\ \A n, o \in projects : execs[n] = execs[o] => n = o

\* An answered run is billed once, to one ledger, and this is one that was the
\* run's own while its last phase lasted, however projects are switched, renamed,
\* removed and added meanwhile; a run billed to nobody is a task whose name was
\* gone, and what counts for the session counts for the total.  More does not hold:
\* a switch during a run bills it to the project switched to, although costs are
\* tracked by project (README, Multi-Project Support).
BilledToOwn ==
    /\ \A k \in Objects : \A r \in total[k] : at[r] = "billed" /\ k \in homes[r]
    /\ \A m \in Messages : at[m] = "billed" => \E k \in Objects : m \in total[k]
    /\ \A k, l \in Objects : total[k] \intersect total[l] # {} => k = l
    /\ \A k \in Objects : session[k] \subseteq total[k]

\* What projects.json holds is what the manager holds, so a restart finds the
\* same projects and the same active one, unless the last write failed; and
\* whatever it finds, it never starts with an active project that has no entry.
FileOK ==
    /\ ~unsaved => file = [active |-> active, projects |-> projects]
    /\ file # Torn => {Default, file.active} \subseteq file.projects

\* The ledger to which a run under way will be billed is one of its own.
RunsOK == \A r \in Runs : at[r] \in Running => Own(r) \subseteq homes[r]

\* The invariants together with what makes them inductive.
IInv == TypeOK /\ TableOK /\ BilledToOwn /\ FileOK /\ RunsOK

\* A restart keeps the projects and the active one unless the last write of
\* projects.json failed, or this start could not read the file: NewManager takes
\* any error of load for a file that is not there yet, and an intact one is
\* overwritten, although projects survive restarts (README, Projects).
RestartKeepsProjects ==
    [][restarts' # restarts /\ ~unsaved /\ ~unread' =>
          active' = active /\ projects' = projects]_vars
=============================================================================
