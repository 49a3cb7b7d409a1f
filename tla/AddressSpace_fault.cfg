\* Stacks that can grow twice and more frames than all of them need.
SPECIFICATION Spec
CONSTANTS
    MaxPid = 4
    Slots = 6
    SlotPages = 3
    HeapPages = 1
    PageBytes = 2
    CodePages = 4
    Frames = 100
    Executables <- MCProgram
INVARIANTS
    PageFaultServed
CHECK_DEADLOCK FALSE
