CONSTANTS
    f1 = f1
    f2 = f2
    f3 = f3
    vadinfo = vadinfo
    ldrmodules = ldrmodules
    hollow = hollow
    evtx = evtx
    p1 = p1
    p2 = p2
    AllPids = AllPids
    NoPid = NoPid
    Image = Image
    NoThread = NoThread
    NoResult = NoResult
    BudgetExhausted = BudgetExhausted
    Findings <- Two
    PidOf <- PidOfTwo
    Pids <- TwoPids
    VolTools <- OnlyLdr
    OtherTools <- None
    FullImage <- OnlyLdr
    Budgeted <- OnlyLdr
    Budget <- LdrBudget
    Covered <- None
    Substitute <- NoRedirect
    AIVerdicts <- OneVerdict
    AIPids <- WithAll
    MaxTurns = 2
    MaxWorkers = 2
SPECIFICATION Spec
INVARIANT
    SharedEvidenceIsOwn
