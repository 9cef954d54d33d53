SPECIFICATION FairSpec
CONSTANTS
    m1 = m1
    m2 = m2
    m3 = m3
    NoProc = NoProc
    NoMsg = NoMsg
    Senders = {s1}
    Receivers = {r1}
    Ctls = {c1}
    Signalled = {r1}
    Capable = {}
    Msgs = {m1, m2}
    MType <- MCMType
    MSize <- MCMSize
    Requests <- MCRequestsNoWait
    SndNoWait = {FALSE}
    Modes <- MCModes
    QBytes = {2}
    LONG_MIN <- MCLongMin
    msg_ctlmax = 2
    msg_ctlmnb = 2
PROPERTIES
    WaitsEnd
