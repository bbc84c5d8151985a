\* A message and a ralph loop ask twice each; two taps, one restart.
CONSTANTS
    m1 = m1
    loop = loop
    Ids = {m1, loop}
    Background = {loop}
    MaxRequests = 2
    MaxTaps = 2
    MaxCrashes = 1
SPECIFICATION FairSpec
INVARIANTS
    IInv
    AnswerKept
PROPERTIES
    AnswerIsAwaited
    RequestsEnd
    HandlersReturn
\* Nobody has to ask again.
CHECK_DEADLOCK FALSE
