\* Programs may kill anyone in any state and drop semaphores in use, and
\* one kill argument gets past the guard of the kernel.
SPECIFICATION Spec
CONSTANTS
    MaxPid = 4
    Keys = {0}
    SemValues = {0, 1}
    SemMax = 1
    ExitCodes = {0}
    KillCode = 57005
    NoCode = NoCode
    NoRet = NoRet
    KillArgs <- RegisterArgs
    Killable <- AnyStatus
    DropBusySems = TRUE
INVARIANTS
    TypeOK
    OnlyRunnableRuns
    OneSeat
    NoLostExit
    SemaphoreDiscipline
    FamilyTree
CHECK_DEADLOCK FALSE
