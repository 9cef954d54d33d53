SPECIFICATION Spec
CONSTANTS
    m1 = m1
    m2 = m2
    m3 = m3
    NoProc = NoProc
    NoMsg = NoMsg
    Senders = {s1}
    Receivers = {r1, r2}
    Ctls = {c1}
    Signalled = {r1, r2}
    Capable = {}
    Msgs = {m1, m2}
    MType <- MCMType
    MSize <- MCMSize
    Requests <- MCRequests
    SndNoWait = {FALSE}
    Modes <- MCModesRW
    QBytes = {2}
    LONG_MIN <- MCLongMin
    msg_ctlmax = 2
    msg_ctlmnb = 2
SYMMETRY MCSymmetry
INVARIANTS
    NoUseAfterFree
    WakeupHitsLiveFrame
    NoMissedMessage
    MessageConservation
    SearchFindsBest
PROPERTIES
    AtomicQueue
