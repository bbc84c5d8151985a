\* One message; shows where the code departs from the documentation.
CONSTANTS
    m1 = m1
    Msgs = {m1}
    NoMsg = NoMsg
    QueueSize = 1
    MaxRetryCount = 1
    MaxFaults = 0
    Faults = {}
    Commands = {"cancel", "retry", "clear"}
SPECIFICATION Spec
PROPERTY
    SentIsFinal
\* Input is finite: when every message is closed the system waits.
CHECK_DEADLOCK FALSE
