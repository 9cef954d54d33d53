SPECIFICATION FairSpec
CONSTANTS
    a1 = a1
    a2 = a2
    a3 = a3
    t1 = t1
    t2 = t2
    t3 = t3
    NoProc = NoProc
    NoArr = NoArr
    Sems = {0}
    SEMVMX = 1
    Tasks = {t1}
    Ctls = {c1}
    Children = {}
    Arrays = {a1, a3}
    IdOf <- MCIdOf
    Cmds = {"SETVAL", "RMID"}
    SopSeqs <- MCTake
    SetVals = {1}
    Signalled = {t1}
    Timed = {}
    Exits = {t1}
    sc_semmns = 2
CHECK_DEADLOCK FALSE
PROPERTIES
    SleepersReleased
    LockReleased
    ExitEnds
