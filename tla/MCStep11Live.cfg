CONSTANTS
    f1 = f1
    f2 = f2
    f3 = f3
    vadinfo = vadinfo
    ldrmodules = ldrmodules
    hollow = hollow
    evtx = evtx
    p1 = p1
    p2 = p2
    AllPids = AllPids
    NoPid = NoPid
    Image = Image
    NoThread = NoThread
    NoResult = NoResult
    BudgetExhausted = BudgetExhausted
    Findings <- Three
    PidOf <- PidsOfThree
    Pids <- TwoPids
    VolTools <- OnlyVadinfo
    OtherTools <- None
    FullImage <- OnlyVadinfo
    Budgeted <- OnlyVadinfo
    Budget <- VadBudget
    Covered <- None
    Substitute <- NoRedirect
    AIVerdicts <- OneVerdict
    AIPids <- TwoPids
    MaxTurns = 1
    MaxWorkers = 2
SPECIFICATION FairSpec
PROPERTIES
    InvestigationsEnd
    TimeoutSettlesSharers
