SPECIFICATION Spec
CONSTANTS
    Threads = {t1, t2}
    MaxTimers = 2
    Requests = {r1}
    MaxConns = 2
    MaxTwice = 1
INVARIANT NoStaleAnswer
CHECK_DEADLOCK FALSE
