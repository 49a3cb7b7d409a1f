\* Two families or one, with frames to run out of.
SPECIFICATION Spec
CONSTANTS
    MaxPid = 4
    Slots = 6
    SlotPages = 3
    HeapPages = 1
    PageBytes = 2
    CodePages = 4
    Frames = 14
    Executables <- MCExecutables
INVARIANTS
    TypeOK
    ImageAsLinked
    OwnPagesMapped
    StacksApart
    FramesSuffice
CHECK_DEADLOCK FALSE
