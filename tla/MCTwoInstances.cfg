\* Two starts of the bot.
CONSTANTS
    p1 = p1
    p2 = p2
    NoPid = NoPid
    Procs = {p1, p2}
SPECIFICATION StartsSpec
INVARIANTS
    OnlyOneRuns
CHECK_DEADLOCK FALSE
