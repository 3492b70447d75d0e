\* The open discipline: three threads, two tools, two PIDs.
CONSTANTS
    f1 = f1
    f2 = f2
    f3 = f3
    ldrmodules = ldrmodules
    handles = handles
    p1 = p1
    p2 = p2
    Threads <- MCThreads
    Tools <- MCTools
    Pids <- MCPids
    FullImage <- MCFullImage
    Budgeted <- MCBudgeted
    Budget <- MCBudget
    Results <- MCResults
    Image = Image
    NoThread = NoThread
    NoResult = NoResult
    BudgetExhausted = BudgetExhausted
SPECIFICATION Spec
SYMMETRY MCSymmetry
INVARIANTS
    TypeOK
    BudgetRespected
    SingleFlight
    WaitersHaveRunner
    SharersNotRefused
