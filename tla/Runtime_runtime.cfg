SPECIFICATION RuntimeSpec
CONSTANTS
    flush = flush
    sync = sync
    Tasks = {flush, sync}
    LateTasks = {sync}
    Intervals = {0, 1}
    Writers = {w1, w2}
    Keys <- FlushSync
    Conns = {k1, k2}
    Callers = {c1, c2, c3}
    Free = Free
    NoConn = NoConn
    Tickets = {t1, t2}
    Workers = {h1, h2}
CHECK_DEADLOCK FALSE
INVARIANTS PoolInv ThreadsInv
PROPERTIES SchedulerServes  WaitersAreServed
