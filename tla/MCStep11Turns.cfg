CONSTANTS
    f1 = f1
    f2 = f2
    f3 = f3
    vadinfo = vadinfo
    ldrmodules = ldrmodules
    hollow = hollow
    evtx = evtx
    p1 = p1
    p2 = p2
    AllPids = AllPids
    NoPid = NoPid
    Image = Image
    NoThread = NoThread
    NoResult = NoResult
    BudgetExhausted = BudgetExhausted
    Findings <- Three
    PidOf <- OneWithoutPid
    Pids <- TwoPids
    VolTools <- FullImageTools
    OtherTools <- OnlyEvtx
    FullImage <- FullImageTools
    Budgeted <- OnlyHollow
    Budget <- HollowBudget
    Covered <- OnlyLdr
    Substitute <- VadToLdr
    AIVerdicts <- OneVerdict
    AIPids <- OnlyP1
    MaxTurns = 2
    MaxWorkers = 2
SPECIFICATION Spec
INVARIANTS
    TypeOK
    NoSilentGap
    FullImageScannedOnce
PROPERTY
    UsesDiscipline
