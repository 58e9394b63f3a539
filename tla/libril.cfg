SPECIFICATION Spec
CONSTANTS
    Threads = {t1, t2}
    MaxTimers = 2
    Requests = {r1}
    MaxConns = 2
    MaxTwice = 1
INVARIANT TypeOK
INVARIANT HeldIsTimed
INVARIANT CountTellsLock
INVARIANT TrackedTimerLives
INVARIANT AnsweredAtMostOnce
INVARIANT EarlierMarked
PROPERTY LockReleased
PROPERTY FrameworkMayReturn
CHECK_DEADLOCK FALSE
