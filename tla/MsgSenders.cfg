SPECIFICATION Spec
CONSTANTS
    m1 = m1
    m2 = m2
    m3 = m3
    NoProc = NoProc
    NoMsg = NoMsg
    Senders = {s1, s2}
    Receivers = {r1}
    Ctls = {c1}
    Signalled = {s1, s2}
    Capable = {c1}
    Msgs = {m1, m2}
    MType <- MCMType
    MSize <- MCMSize
    Requests <- MCRequestsOne
    SndNoWait = {TRUE, FALSE}
    Modes <- MCModesRW
    QBytes = {0, 3}
    LONG_MIN <- MCLongMin
    msg_ctlmax = 2
    msg_ctlmnb = 2
SYMMETRY MCSymmetry
INVARIANTS
    NoMissedRoom
    Accounting
    ReferencesCovered
    IInv
    ListDelOnce
