SPECIFICATION Spec
CONSTANTS
    a1 = a1
    a2 = a2
    a3 = a3
    t1 = t1
    t2 = t2
    t3 = t3
    NoProc = NoProc
    NoArr = NoArr
    Sems = {0}
    SEMVMX = 1
    Tasks = {t1}
    Ctls = {c1, c2}
    Children = {}
    Arrays = {a1, a2}
    IdOf <- MCIdSame
    Cmds = {"SETALL", "RMID"}
    SopSeqs <- MCTake
    SetVals = {1}
    Signalled = {}
    Timed = {}
    Exits = {}
    sc_semmns = 1
CHECK_DEADLOCK FALSE
SYMMETRY MCSymmetrySame
INVARIANTS
    UndoOfOwnSet
    NoUseAfterFree
    UndoListsAgree
    UsedSems
