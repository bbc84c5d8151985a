\* One message through two faults of any kind.
CONSTANTS
    m1 = m1
    Msgs = {m1}
    NoMsg = NoMsg
    QueueSize = 1
    MaxRetryCount = 1
    MaxFaults = 2
    Faults = {"crash", "shutdown", "disk", "lock"}
    Commands = {"cancel", "retry", "clear"}
SPECIFICATION FairSpec
INVARIANTS
    ProcessingOwned
    NoLostResult
PROPERTY
    Settles
\* Input is finite: when every message is closed the system waits.
CHECK_DEADLOCK FALSE
