-------------------------------- MODULE Elf --------------------------------
(***************************************************************************)
(* The elf crate (src/pkg/elf/src/lib.rs): pages mapped and unmapped one   *)
(* by one in a page table, and an executable loaded into fresh frames.     *)
(* Operators only; AddressSpace uses them.                                 *)
(*                                                                         *)
(* A page table is the set of the pages present in it; frames are counted, *)
(* those taken against all there are.                                      *)
(***************************************************************************)
EXTENDS Integers, SequencesExt

CONSTANTS
    Frames,       \* frames the boot loader found
    PageBytes     \* bytes of a page (4096)

ASSUME PageAssumption == Frames \in Nat /\ PageBytes \in Nat \ {0}

(* map_range, on the pages m present in a table, with t frames taken.       *)
(* It goes up from a to b, takes a frame, then maps the page: it stops when *)
(* no frame is left, or, having taken one for nothing, at a page already    *)
(* mapped.  What was mapped before stays mapped.                            *)
MutStops(m, t, a, b) == {p \in a..b : t + (p - a) >= Frames}   \* map_to overwrites

Stops(m, t, a, b) == {p \in a..b : p \in m \/ t + (p - a) >= Frames}

MapRange(m, t, a, b) ==
    LET stops == Stops(m, t, a, b)
        last  == IF stops = {} THEN b ELSE Min(stops) - 1
        wasted == IF stops # {} /\ t + (last + 1 - a) < Frames THEN 1 ELSE 0
    IN  [pages |-> m \cup a..last, taken |-> t + (last + 1 - a) + wasted, ok |-> stops = {}]

(* unmap_range stops at the first page that is not mapped.                  *)
UnmapRange(m, t, a, b) ==
    LET stops == {p \in a..b : p \notin m}
        last  == IF stops = {} THEN b ELSE Min(stops) - 1
    IN  [pages |-> m \ a..last, taken |-> t - (last + 1 - a), ok |-> stops = {}]

-----------------------------------------------------------------------------
(* A segment says whether it is to be loaded, its address, its size in the  *)
(* file and in memory, and where in the file it is.  A byte of memory is    *)
(* the place in the file it comes from, or zero.                            *)
Segments == [load : BOOLEAN, addr : Nat, file : Nat, mem : Nat, offset : Nat]

Zero == -1
PageOf(addr) == addr \div PageBytes
PageUp(addr) == (addr + PageBytes - 1) \div PageBytes
FirstPage(seg) == PageOf(seg.addr)
LastPage(seg)  == PageOf(seg.addr + seg.mem - 1)

(* What load_segment puts into a page: the bytes of the file from the       *)
(* beginning of the page, then zeros.                                       *)
MutPageImage(seg, page) ==                     \* always a whole page copied
    [b \in 0..(PageBytes - 1) |-> seg.offset + (page - FirstPage(seg)) * PageBytes + b]

PageImage(seg, page) ==
    [b \in 0..(PageBytes - 1) |->
        LET k == (page - FirstPage(seg)) * PageBytes + b
        IN IF k < seg.file THEN seg.offset + k ELSE Zero]

(* load_segment: pages for the bytes in the file, mapped as in map_range,   *)
(* then those for the rest that are not mapped yet.  r has the image of the *)
(* pages loaded so far.  load_elf skips what is not loaded and stops at an  *)
(* error.                                                                   *)
IsLoaded(seg) == seg.load /\ seg.mem > 0

BssPages(seg) == IF seg.mem > seg.file THEN PageUp(seg.addr + seg.file)..LastPage(seg) ELSE {}

LoadSegment(r, seg) ==
    LET file  == MapRange(DOMAIN r.image, r.taken, FirstPage(seg),
                          PageOf(seg.addr + seg.file - 1))
        bss   == BssPages(seg) \ file.pages
        taken == file.taken + Cardinality(bss)
    IN  IF ~r.ok \/ ~IsLoaded(seg) THEN r
        ELSE [image |-> [page \in file.pages \cup bss |->
                            IF page \in DOMAIN r.image THEN r.image[page]
                            ELSE PageImage(seg, page)],
              taken |-> taken, ok |-> file.ok /\ taken <= Frames]

(* load_elf; its caller panics when it fails.                               *)
LoadElf(elf, taken) ==
    FoldLeft(LoadSegment, [image |-> <<>>, taken |-> taken, ok |-> TRUE], elf)

(* The pages of a loaded segment, as load_elf returns them, unmapped; an    *)
(* error stops that, too.                                                   *)
UnloadSegment(r, seg) ==
    IF ~r.ok \/ ~IsLoaded(seg) THEN r
    ELSE UnmapRange(r.pages, r.taken, FirstPage(seg), LastPage(seg))

UnloadElf(elf, r) == FoldLeft(UnloadSegment, r, elf)
=============================================================================
