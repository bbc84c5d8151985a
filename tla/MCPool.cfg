\* A research task and a ralph loop of two iterations competing for one slot.
CONSTANTS
    r1 = r1
    loop = loop
    Tasks = {r1, loop}
    Ralphs = {loop}
    MaxSlots = 1
    MaxIterations = 2
SPECIFICATION FairSpec
INVARIANTS
    SlotAccounting
    Reachable
    ClosedStops
    TableOK
PROPERTIES
    InjectIsFinal
    SlotFreed
    StopReturns
\* The process ends with Worker.Stop.
CHECK_DEADLOCK FALSE
