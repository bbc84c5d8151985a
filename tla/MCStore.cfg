\* Three goroutines and two messages; the process may die at any step.
CONSTANTS
    g1 = g1
    g2 = g2
    g3 = g3
    m1 = m1
    m2 = m2
    Clients = {g1, g2, g3}
    Msgs = {m1, m2}
    None = None
SPECIFICATION FairSpec
INVARIANTS
    LockIsReleased
PROPERTIES
    StoreIsAtomic
    CallsReturn
