\* Two projects and two sessions, one of them listed per project; any number of runs,
\* handlers and restarts.
CONSTANTS
    p1 = p1
    p2 = p2
    s1 = s1
    s2 = s2
    Executors = {p1, p2}
    Sessions = {s1, s2}
    MaxListed = 1
SPECIFICATION Spec
INVARIANTS
    IInv
    SessionsStayHome
    NewIsFresh
    ApprovalContinues
SYMMETRY Symmetry
