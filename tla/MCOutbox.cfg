\* Two answers of two chunks, and one fault.
CONSTANTS
    a1 = a1
    a2 = a2
    Answers = {a1, a2}
    Chunks = 2
    MaxFaults = 1
SPECIFICATION FairSpec
INVARIANTS
    IInv
    RecordedIsSafe
    WholeCopies
PROPERTIES
    Delivered
    WorkerReturns
\* The poller never stops; a process that is down need not start again.
CHECK_DEADLOCK FALSE
