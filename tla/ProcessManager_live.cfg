\* Programs kill only Ready processes, so nobody dies twice, and never drop a
\* semaphore with waiters, so no process is lost; the clock keeps ticking.
SPECIFICATION FairSpec
CONSTANTS
    MaxPid = 4
    Keys = {0}
    SemValues = {0,1}
    SemMax = 1
    ExitCodes = {0}
    KillCode = 57005
    NoCode = NoCode
    NoRet = NoRet
    KillArgs <- LibraryArgs
    Killable <- OnlyReady
    DropBusySems = FALSE
INVARIANTS
    NoPanic
    KernelSchedulable
    OneSeat
PROPERTIES
    LifeCycle
    FamilyView
    ReadyRuns
    WaiterResumes
    ShellExitShutsDown
CHECK_DEADLOCK FALSE
