SPECIFICATION Spec
CONSTANTS
    a1 = a1
    a2 = a2
    a3 = a3
    t1 = t1
    t2 = t2
    t3 = t3
    NoProc = NoProc
    NoArr = NoArr
    Sems = {0, 1}
    SEMVMX = 1
    Tasks = {t1, t2, t3}
    Ctls = {c1}
    Children = {}
    Arrays = {a1}
    IdOf <- MCIdOf
    Cmds = {}
    SopSeqs <- MCMixed
    SetVals = {0}
    Signalled = {}
    Timed = {t1}
    Exits = {}
    sc_semmns = 2
SYMMETRY MCSymmetry
INVARIANTS
    NoMissedOp
    QueueAgrees
    WakeupHitsLiveQueue
    AllOrNothing
PROPERTIES
    HonestResults
