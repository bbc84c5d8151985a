\* Two messages, a queue of one, all commands, one crash or shutdown at any point.
CONSTANTS
    m1 = m1
    m2 = m2
    Msgs = {m1, m2}
    NoMsg = NoMsg
    QueueSize = 1
    MaxRetryCount = 0
    MaxFaults = 1
    Faults = {"crash", "shutdown"}
    Commands = {"cancel", "retry", "clear"}
SPECIFICATION Spec
SYMMETRY MsgSymmetry
INVARIANT
    SingleFlight
PROPERTY
    FailedIsDeliberate
\* Input is finite: when every message is closed the system waits.
CHECK_DEADLOCK FALSE
