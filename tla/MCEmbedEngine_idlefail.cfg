CONSTANTS
    Callers = {c1, c2}
    Sessions = {s1, s2}
    Timers = {t1, t2, t3, t4}
    Nil = Nil
    MaxCalls = 2
SPECIFICATION FairSpec
PROPERTY IdleModelUnloaded
CHECK_DEADLOCK FALSE
