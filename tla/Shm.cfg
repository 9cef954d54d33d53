SPECIFICATION Spec
CONSTANTS
    t1 = t1
    t2 = t2
    t3 = t3
    u1 = u1
    u2 = u2
    m1 = m1
    m2 = m2
    k1 = k1
    IPC_PRIVATE = IPC_PRIVATE
    NoSeg = NoSeg
    NoFile = NoFile
    NoTask = NoTask
    NoUser = NoUser
    Tasks = {t1, t2, t3}
    Started = {t1, t2}
    MmOf <- MCMmOf
    UserOf <- MCUserOf
    Scenarios <- MCScenarios
    Keys = {k1}
    PAGE_SIZE = 2
    shm_ctlmax = 4
    shm_ctlall = 3
    shm_ctlmni = 2
    IPCMNI = 2
    seq_max = 1
    MEMLOCK = 2
    Files = {1, 2}
    MaxFrag = 2
INVARIANTS
    AttachCount
    AttachmentsPin
    NothingLeft
    Charges
    NamesFindOne
