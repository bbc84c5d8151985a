\* A message and a task in three projects, one of them renamed; one failing
\* write, one restart.
CONSTANTS
    default = default
    a = a
    b = b
    m1 = m1
    t1 = t1
    Names = {default, a, b}
    Default = default
    Messages = {m1}
    Tasks = {t1}
    MaxObjects = 4
    MaxFaults = 1
    MaxRestarts = 1
SPECIFICATION Spec
INVARIANTS
    IInv
    BilledToOwn
PROPERTY
    RestartKeepsProjects
