SPECIFICATION Spec
CONSTANTS
    t1 = t1
    t2 = t2
    t3 = t3
    m1 = m1
    m2 = m2
    m3 = m3
    NoTask = NoTask
    NoMsg = NoMsg
    NoPid = NoPid
    Tasks = {t1, t2, t3}
    Tgid <- MCTgid
    Senders = {t1, t3}
    Receivers = {t1, t2}
    Notifiers = {t2}
    Closers = {t1}
    Setters = {t3}
    Kinds = {"NULL", "SIGNAL", "THREAD"}
    StaticPrio <- MCStaticPrio
    Msgs = {m1, m2, m3}
    MPrio <- MCMPrio
    mq_maxmsg = 2
    Signalled = {t1}
    Timed = {t2}
    Spurious = {t2}
SYMMETRY MCSymmetry
INVARIANTS
    WakeupHitsLiveWaiter
    WaitersAgree
    NobodyWaitsInVain
    CookieSentOnce
PROPERTIES
    PriorityQueue
