SPECIFICATION Spec
CONSTANTS
    t1 = t1
    t2 = t2
    t3 = t3
    u1 = u1
    kworker = kworker
    NoNs = NoNs
    NoSb = NoSb
    NoQueue = NoQueue
    NoUser = NoUser
    Tasks = {t1, t2, t3}
    UserOf <- MCUserOf
    Nss = {0, 1, 2}
    Sbs = {0, 1, 2}
    Queues = {1, 2}
    mq_queues_max = 1
    MSGQUEUE = 2
    MaxMem = 1
    Scenarios <- MCScenarios
INVARIANTS
    NsRefs
    QueuesCounted
    QueueReachable
    ChainLive
    MsgmniFresh
