\* Four starts of the bot.
CONSTANTS
    p1 = p1
    p2 = p2
    p3 = p3
    p4 = p4
    NoPid = NoPid
    Procs = {p1, p2, p3, p4}
SPECIFICATION StartsSpec
INVARIANTS
    OneActive
    FileNamesActive
    StaleIsUnclean
\* Every process may have ended.
CHECK_DEADLOCK FALSE
