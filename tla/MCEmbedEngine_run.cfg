CONSTANTS
    Callers = {c1, c2, c3}
    Sessions = {s1, s2}
    Timers = {t1, t2, t3, t4}
    Nil = Nil
    MaxCalls = 4
SPECIFICATION FairSpec
INVARIANTS RunsOnLiveSession NoSessionLeaked OnlyNewestTimerArmed
PROPERTY UsedModelUnloaded
CHECK_DEADLOCK FALSE
