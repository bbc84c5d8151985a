\* Up to four iterations of runs that cost 0, 1 or 2, with a limit of 2.
CONSTANTS
    MaxAllowed = 4
    Default = 2
    StallThreshold = 3
    Limit = 2
    Costs = {0, 1, 2}
    Asked = {0, 1, 3, 4, 5}
SPECIFICATION Spec
INVARIANTS
    CostStops
    PermissionIsFresh
    StaysInWorktree
\* A loop ends.
CHECK_DEADLOCK FALSE
