---------------------------- MODULE AddressSpace ----------------------------
(***************************************************************************)
(* The user memory of the kernel (src/pkg/kernel/src/proc/vm/): the page   *)
(* table a vfork family shares, the stack of each of its processes, its    *)
(* heap and its code, and the frames they take from the frame allocator.   *)
(*                                                                         *)
(* A page table is named after the process that was spawned with it.  A    *)
(* page is a number: the code lies below the heap, the heap below the      *)
(* stacks, which fill slots of SlotPages pages from the top downwards.     *)
(* Frames are counted, not named; the frames of the lower levels of a page *)
(* table are left out.  Every handler runs with interrupts disabled.       *)
(***************************************************************************)
EXTENDS Elf

CONSTANTS
    MaxPid,       \* bound: processes ever created
    Slots,        \* bound: stack slots (16384 in the code)
    SlotPages,    \* STACK_MAX_PAGES
    HeapPages,    \* HEAP_PAGES
    CodePages,    \* bound: pages below the heap, for the executable
    Executables   \* the executables: sequences of segments

ASSUME MemoryAssumption ==
    /\ MaxPid \in Nat /\ Slots \in Nat \ {0} /\ SlotPages \in Nat \ {0}
    /\ HeapPages \in Nat \ {0} /\ CodePages \in Nat \ {0}

(* Segments begin with a page of their own (src/pkg/app/config/app.ld), and *)
(* those to be loaded lie apart.                                            *)
Apart(seg, other) ==
    seg.addr + seg.mem <= other.addr \/ other.addr + other.mem <= seg.addr

ASSUME LinkerAssumption ==
    \A elf \in Executables : elf \in Seq(Segments) /\ \A i \in DOMAIN elf :
        /\ elf[i].addr % PageBytes = 0 /\ elf[i].file \in 0..elf[i].mem
        /\ elf[i].addr + elf[i].mem <= CodePages * PageBytes
        /\ \A j \in DOMAIN elf : elf[i].load /\ elf[j].load /\ i # j => Apart(elf[i], elf[j])

Procs == 1..MaxPid
None  == 0

(* Addresses passed to brk, in half pages above HEAP_START.  The end of the *)
(* heap lies one page further: brk accepts HEAP_START + HEAP_SIZE.          *)
BrkEnds == 0..(2 * HeapPages)
HeapBase == CodePages
StackBase == HeapBase + HeapPages + 1
StackTop(s) == StackBase + (Slots - s) * SlotPages      \* end of slot s, exclusive
Pages == 0..(StackTop(0) - 1)

VARIABLES
    table,      \* process -> its page table; None: no address space (any more)
    forker,     \* process -> who vforked it; None: it was spawned
    slot, size, \* Stack.range of a process: the size top pages of the slot
    mapped,     \* page table -> pages present in it
    exe,        \* page table -> the executable loaded into it
    heapEnd,    \* page table -> Heap.end
    taken,      \* frames handed out and not recycled: used - recycled.len()
    nextPid,
    mode        \* "up"; "fault" or "oom" after the panic of an unserved page
                \* fault or of a failed allocation

vars == <<table, forker, slot, size, mapped, exe, heapEnd, taken, nextPid, mode>>

Alive(p) == table[p] # None
Members(t) == {p \in Procs : table[p] = t}
Low(p) == StackTop(slot[p]) - size[p]

(* ProcessInner.children of a living process: those it vforked that have    *)
(* not exited (ProcessManager!FamilyTree).                                  *)
Children(p) == {c \in Procs : Alive(c) /\ forker[c] = p}

Init ==
    /\ table   = [p \in Procs |-> None]
    /\ forker  = [p \in Procs |-> None]
    /\ slot    = [p \in Procs |-> 0]
    /\ size    = [p \in Procs |-> 0]
    /\ mapped  = [t \in Procs |-> {}]
    /\ exe     = [t \in Procs |-> <<>>]
    /\ heapEnd = [t \in Procs |-> 0]
    /\ taken   = 0
    /\ nextPid = 1
    /\ mode    = "up"

-----------------------------------------------------------------------------
(* The pages of table t and the frames taken are those of r.                *)
Install(t, r) == mapped' = [mapped EXCEPT ![t] = r.pages] /\ taken' = r.taken

Up == mode = "up"

-----------------------------------------------------------------------------
(* clone_page_table, load_elf_code and Stack::init: a frame for the page    *)
(* table, then the code and one stack page.  Every failure is a panic.      *)
Loaded(elf) ==
    LET code == LoadElf(elf, taken + 1)
        top  == StackTop(0) - 1
    IN  IF code.ok THEN MapRange(DOMAIN code.image, code.taken, top, top)
        ELSE [pages |-> DOMAIN code.image, taken |-> code.taken, ok |-> FALSE]

Spawn(elf) ==
    /\ Up /\ nextPid \in Procs
    /\ \/ /\ taken < Frames /\ Loaded(elf).ok
          /\ table' = [table EXCEPT ![nextPid] = nextPid]
          /\ size'  = [size EXCEPT ![nextPid] = 1]
          /\ exe'   = [exe EXCEPT ![nextPid] = elf]
          /\ Install(nextPid, Loaded(elf))
          /\ nextPid' = nextPid + 1
          /\ UNCHANGED mode
       \/ /\ taken >= Frames \/ ~Loaded(elf).ok
          /\ mode' = "oom"
          /\ UNCHANGED <<table, size, exe, mapped, taken, nextPid>>
    /\ UNCHANGED <<forker, slot, heapEnd>>

(* Stack::vfork tries the slot as many slots down as the parent has         *)
(* children, plus one, and then every slot below, until all pages map.      *)
(* Tries(p) is the outcome, step[k] that after k slots have been tried.     *)
FirstSlot(p) == slot[p] + Cardinality(Children(p)) + 1

Try(p, s, r) ==
    LET new == MapRange(r.pages, r.taken, StackTop(s) - size[p], StackTop(s) - 1)
    IN  IF r.ok THEN r
        ELSE [pages |-> new.pages, taken |-> new.taken, ok |-> new.ok, at |-> s]

NotTried(p) == [pages |-> mapped[table[p]], taken |-> taken, ok |-> FALSE, at |-> FirstSlot(p)]

Tries(p) ==
    LET step[k \in 0..(Slots - FirstSlot(p))] ==
            IF k = 0 THEN NotTried(p) ELSE Try(p, FirstSlot(p) + k - 1, step[k - 1])
    IN  step[Slots - FirstSlot(p)]

(* The child shares table, code and heap.  Without a free frame every slot  *)
(* fails, until the address is no longer a valid one: a panic.              *)
VFork(p) ==
    /\ Up /\ Alive(p) /\ nextPid \in Procs /\ FirstSlot(p) < Slots
    /\ \/ /\ Tries(p).ok
          /\ table'  = [table EXCEPT ![nextPid] = table[p]]
          /\ forker' = [forker EXCEPT ![nextPid] = p]
          /\ slot'   = [slot EXCEPT ![nextPid] = Tries(p).at]
          /\ size'   = [size EXCEPT ![nextPid] = size[p]]
          /\ Install(table[p], Tries(p))
          /\ nextPid' = nextPid + 1
          /\ UNCHANGED mode
       \/ /\ ~Tries(p).ok /\ Tries(p).taken = Frames
          /\ mode' = "oom"
          /\ UNCHANGED <<table, forker, slot, size, mapped, taken, nextPid>>
    /\ UNCHANGED <<exe, heapEnd>>

(* The pages a process may fault on: not present, and below its stack, in   *)
(* its slot.                                                                *)
FaultPages(p) == ((StackTop(slot[p]) - SlotPages)..(Low(p) - 1)) \ mapped[table[p]]

(* page_fault_handler, when nobody serves the fault: a panic.               *)
Unserved == mode' = "fault" /\ UNCHANGED size

(* The stack grows down to that page, unless grow_stack fails.              *)
StackFault(p) ==
    /\ Up /\ Alive(p)
    /\ \E page \in FaultPages(p) :
         LET r == MapRange(mapped[table[p]], taken, page, Low(p) - 1) IN
           /\ Install(table[p], r)
           /\ \/ r.ok /\ size' = [size EXCEPT ![p] = StackTop(slot[p]) - page]
                 /\ UNCHANGED mode
              \/ ~r.ok /\ Unserved
    /\ UNCHANGED <<table, forker, slot, exe, heapEnd, nextPid>>

-----------------------------------------------------------------------------
(* Heap::brk.  The page that holds the end belongs to the heap, unless the  *)
(* heap is empty.  A grown heap that does not map keeps its end.            *)
EndPage(e) == HeapBase + (IF e = 0 THEN 0 ELSE e \div 2 + 1)

MutShrunk(t, e) ==                             \* the page of the new end goes too
    UnmapRange(mapped[t], taken, HeapBase + e \div 2, EndPage(heapEnd[t]) - 1)

Shrunk(t, e) == UnmapRange(mapped[t], taken, EndPage(e), EndPage(heapEnd[t]) - 1)
Grown(t, e)  == MapRange(mapped[t], taken, EndPage(heapEnd[t]), EndPage(e) - 1)

Brk(p) ==
    /\ Up /\ Alive(p)
    /\ \E e \in BrkEnds :
         LET t == table[p]
             r == IF EndPage(e) < EndPage(heapEnd[t]) THEN Shrunk(t, e) ELSE Grown(t, e)
         IN  /\ e # heapEnd[t]
             /\ Install(t, r)
             /\ IF r.ok THEN heapEnd' = [heapEnd EXCEPT ![t] = e] ELSE UNCHANGED heapEnd
    /\ UNCHANGED <<table, forker, slot, size, exe, nextPid, mode>>

-----------------------------------------------------------------------------
(* ProcessVm::clean_up, when kill drops the address space.  The stack goes  *)
(* always; the heap, the code if p is the process that was spawned with it, *)
(* and the page table go with the last user of the table.  An error stops   *)
(* the clean-up.                                                            *)
MutIsLast(p) == TRUE                           \* using_count() not checked

IsLast(p) == Members(table[p]) = {p}

StackGone(p) == UnmapRange(mapped[table[p]], taken, Low(p), StackTop(slot[p]) - 1)

HeapGone(p, r) ==
    IF r.ok THEN UnmapRange(r.pages, r.taken, HeapBase, EndPage(heapEnd[table[p]]) - 1) ELSE r

(* ProcessVm.code, the ranges of the executable, is empty but for the       *)
(* process that was spawned.                                                *)
CodeGone(p, r) == IF table[p] = p THEN UnloadElf(exe[p], r) ELSE r

(* With its page table p's family loses what is still mapped in it; its     *)
(* frames are not given back.                                               *)
TableGone(r) == IF r.ok THEN [pages |-> {}, taken |-> r.taken - 1, ok |-> TRUE] ELSE r

CleanUp(p) ==
    IF IsLast(p) THEN TableGone(CodeGone(p, HeapGone(p, StackGone(p)))) ELSE StackGone(p)

Kill(p) ==
    /\ Up /\ Alive(p)
    /\ Install(table[p], CleanUp(p))
    /\ exe'     = IF IsLast(p) THEN [exe EXCEPT ![table[p]] = <<>>] ELSE exe
    /\ heapEnd' = IF IsLast(p) THEN [heapEnd EXCEPT ![table[p]] = 0] ELSE heapEnd
    /\ table'  = [table EXCEPT ![p] = None]
    /\ slot'   = [slot EXCEPT ![p] = 0]
    /\ size'   = [size EXCEPT ![p] = 0]
    /\ UNCHANGED <<forker, nextPid, mode>>

Next ==
    \/ \E elf \in Executables : Spawn(elf)
    \/ \E p \in Procs : VFork(p) \/ StackFault(p) \/ Brk(p) \/ Kill(p)

Spec == Init /\ [][Next]_vars
-----------------------------------------------------------------------------
(* Properties.                                                              *)

(* Every variable has its type; the frames taken are between none and all.  *)
TypeOK ==
    /\ table   \in [Procs -> Procs \cup {None}]
    /\ forker  \in [Procs -> Procs \cup {None}]
    /\ slot    \in [Procs -> 0..(Slots - 1)]
    /\ size    \in [Procs -> 0..SlotPages]
    /\ mapped  \in [Procs -> SUBSET Pages]
    /\ exe     \in [Procs -> Executables \cup {<<>>}]
    /\ heapEnd \in [Procs -> BrkEnds]
    /\ taken   \in 0..Frames
    /\ nextPid \in 1..(MaxPid + 1)
    /\ mode    \in {"up", "fault", "oom"}

(* The addresses an executable is linked to, and the byte it has there.     *)
Span(seg) == seg.addr..(seg.addr + seg.mem - 1)
Linked(elf) == UNION {Span(elf[i]) : i \in {k \in DOMAIN elf : elf[k].load}}
SegmentAt(elf, a) == elf[CHOOSE k \in DOMAIN elf : elf[k].load /\ a \in Span(elf[k])]
LinkedByte(elf, a) ==
    IF a \notin Linked(elf) THEN Zero
    ELSE LET seg == SegmentAt(elf, a)
         IN IF a - seg.addr < seg.file THEN seg.offset + (a - seg.addr) ELSE Zero

(* A process starts with the memory its executable describes (elf lib.rs:   *)
(* 292-446): every byte of a segment is at its address, the bytes the file  *)
(* does not have are zero, and so is the rest of the last page, although    *)
(* its frame may have belonged to another process before.                   *)
ImageAsLinked ==
    \A t \in Procs : Members(t) # {} =>
        LET image == LoadElf(exe[t], 0).image IN
        /\ DOMAIN image = {PageOf(a) : a \in Linked(exe[t])}
        /\ \A page \in DOMAIN image : \A b \in 0..(PageBytes - 1) :
             image[page][b] = LinkedByte(exe[t], page * PageBytes + b)

(* What a living process may use stays mapped whatever the others of its    *)
(* family do: its stack, the code and the heap, also after the process that *)
(* brought the code has exited and after a brk or vfork that failed half    *)
(* way (vm/mod.rs:157-189, heap.rs:90-104, stack.rs:119-128).               *)
OwnPagesMapped ==
    \A p \in Procs : Alive(p) =>
        {PageOf(a) : a \in Linked(exe[table[p]])} \cup (HeapBase..(EndPage(heapEnd[table[p]]) - 1))
            \cup (Low(p)..(StackTop(slot[p]) - 1)) \subseteq mapped[table[p]]

(* Two living processes of a family never share a stack slot, though the    *)
(* slot a vfork tries first depends on how many children have exited.       *)
StacksApart ==
    \A t, p, q \in Procs :
        (p \in Members(t) /\ q \in Members(t) /\ slot[p] = slot[q]) => p = q

(* No frame is given back twice or while a page table maps it: those taken  *)
(* suffice for all the living page tables and the pages present in them.    *)
(* (They may be more: what clean_up and failed mappings lose stays taken.)  *)
Used == [t \in Procs |-> Cardinality(mapped[t]) + (IF Members(t) = {} THEN 0 ELSE 1)]

FramesSuffice == taken >= SumFunction(Used)

(* Every page fault on a stack is served (stack.rs:20: "every time we meet  *)
(* a page fault, we alloc more frames") while there are frames.             *)
PageFaultServed == mode = "fault" => taken = Frames
=============================================================================
