\* A process blocked on a semaphore or in wait_pid is killed.
SPECIFICATION Spec
CONSTANTS
    MaxPid = 4
    Keys = {0}
    SemValues = {0, 1}
    SemMax = 1
    ExitCodes = {0}
    KillCode = 57005
    NoCode = NoCode
    NoRet = NoRet
    KillArgs <- LibraryArgs
    Killable <- AnyStatus
    DropBusySems = FALSE
INVARIANTS
    NoPanic
CHECK_DEADLOCK FALSE
