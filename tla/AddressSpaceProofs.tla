------------------------- MODULE AddressSpaceProofs -------------------------
(***************************************************************************)
(* Theorems about AddressSpace, for every number of processes, slots and   *)
(* frames, every page size and every set of executables: the stacks of a   *)
(* family never meet, what a living process may use stays mapped, the      *)
(* frames taken suffice for every page table and every page present, and   *)
(* a process starts with the image its executable is linked to.            *)
(***************************************************************************)
EXTENDS AddressSpace, FiniteSetTheorems, TLAPS

-----------------------------------------------------------------------------
(* Arithmetic.                                                              *)

(* The principle of induction, in a form that needs no predicate.           *)
LEMMA LeastNumber ==
    ASSUME NEW T \in SUBSET Nat, T # {}
    PROVE  \E m \in T : \A k \in T : m <= k
<1> DEFINE R == OpToRel(<, Nat)
<1>1. IsWellFoundedOn(R, Nat)
  BY NatLessThanWellFounded
<1>2. PICK m \in T : \A k \in T : <<k, m>> \notin R
  BY <1>1, WFMin
<1>3. \A k \in T : ~(k < m)
  BY <1>2 DEF OpToRel
<1>4. QED
  BY <1>3

(* map_range and unmap_range stop at the first page that stops them.        *)
LEMMA MinInRange ==
    ASSUME NEW a \in Int, NEW S, S # {}, \A p \in S : p \in Int /\ a <= p
    PROVE  Min(S) \in S /\ \A p \in S : Min(S) <= p
<1> DEFINE T == {k \in Nat : a + k \in S}
<1>1. T # {}
  <2>1. PICK p \in S : TRUE
    OBVIOUS
  <2>2. p - a \in T
    BY <2>1
  <2>3. QED
    BY <2>2
<1>2. PICK m \in T : \A k \in T : m <= k
  BY <1>1, LeastNumber
<1>3. \A p \in S : a + m <= p
  <2>1. \A p \in S : p - a \in T
    OBVIOUS
  <2>2. QED
    BY <1>2, <2>1
<1>4. QED
  BY <1>2, <1>3 DEF Min

(* map_range keeps what is mapped, and maps all of the range or fails.      *)
LEMMA MapRangeFacts ==
    ASSUME NEW m, NEW t, NEW a \in Int, NEW b \in Int
    PROVE  /\ m \subseteq MapRange(m, t, a, b).pages
           /\ MapRange(m, t, a, b).pages \subseteq m \cup a..b
           /\ MapRange(m, t, a, b).ok =>
                 m \cap (a..b) = {} /\ MapRange(m, t, a, b).pages = m \cup a..b
<1> DEFINE stops == Stops(m, t, a, b)
           last  == IF stops = {} THEN b ELSE Min(stops) - 1
<1>1. MapRange(m, t, a, b).pages = m \cup a..last /\ MapRange(m, t, a, b).ok = (stops = {})
  BY DEF MapRange
<1>2. stops = {} => m \cap (a..b) = {}
  BY DEF Stops
<1>3. stops \subseteq a..b
  BY DEF Stops
<1>4. a..last \subseteq a..b
  <2>1. CASE stops = {}
    BY <2>1
  <2>2. CASE stops # {}
    <3>1. Min(stops) \in a..b
      BY <1>3, <2>2, MinInRange
    <3>2. QED
      BY <2>2, <3>1
  <2>3. QED
    BY <2>1, <2>2
<1>5. QED
  BY <1>1, <1>2, <1>4

(* unmap_range takes away pages of the range only, and all of them unless   *)
(* one is missing.                                                          *)
LEMMA UnmapRangeFacts ==
    ASSUME NEW m, NEW t, NEW a \in Int, NEW b \in Int
    PROVE  /\ UnmapRange(m, t, a, b).pages \subseteq m
           /\ \A p \in m : p \notin a..b => p \in UnmapRange(m, t, a, b).pages
           /\ a..b \subseteq m => UnmapRange(m, t, a, b).ok
<1> DEFINE stops == {p \in a..b : p \notin m}
           last  == IF stops = {} THEN b ELSE Min(stops) - 1
<1>1. UnmapRange(m, t, a, b).pages = m \ a..last /\ UnmapRange(m, t, a, b).ok = (stops = {})
  BY DEF UnmapRange
<1>2. a..last \subseteq a..b
  <2>1. CASE stops = {}
    BY <2>1
  <2>2. CASE stops # {}
    <3>1. Min(stops) \in a..b
      BY <2>2, MinInRange
    <3>2. QED
      BY <2>2, <3>1
  <2>3. QED
    BY <2>1, <2>2
<1>3. QED
  BY <1>1, <1>2

(* The layout: code, heap and stacks lie apart, and so do two slots.        *)
LEMMA Layout ==
    /\ HeapBase \in Nat /\ StackBase \in Nat /\ StackBase = HeapBase + HeapPages + 1
    /\ \A s \in 0..(Slots - 1) : StackTop(s) \in Nat /\ StackBase + SlotPages <= StackTop(s)
    /\ \A s, r \in 0..(Slots - 1) : s < r => StackTop(r) <= StackTop(s) - SlotPages
<1>1. HeapBase \in Nat /\ StackBase \in Nat /\ StackBase = HeapBase + HeapPages + 1
  BY MemoryAssumption DEF HeapBase, StackBase
<1>2. ASSUME NEW d \in Nat, d >= 1
      PROVE  d * SlotPages \in Nat /\ SlotPages <= d * SlotPages
  BY <1>2, MemoryAssumption
<1>3. ASSUME NEW s \in 0..(Slots - 1)
      PROVE  StackTop(s) \in Nat /\ StackBase + SlotPages <= StackTop(s)
  <2>1. Slots - s \in Nat /\ Slots - s >= 1
    BY MemoryAssumption
  <2>2. (Slots - s) * SlotPages \in Nat /\ SlotPages <= (Slots - s) * SlotPages
    BY <1>2, <2>1
  <2>3. QED
    BY <1>1, <2>2, MemoryAssumption DEF StackTop
<1>4. ASSUME NEW s \in 0..(Slots - 1), NEW r \in 0..(Slots - 1), s < r
      PROVE  StackTop(r) <= StackTop(s) - SlotPages
  <2>1. r - s \in Nat /\ r - s >= 1
    BY <1>4
  <2>2. SlotPages <= (r - s) * SlotPages
    BY <1>2, <2>1
  <2>3. (Slots - s) * SlotPages = (Slots - r) * SlotPages + (r - s) * SlotPages
    BY MemoryAssumption
  <2>4. (Slots - s) * SlotPages \in Int /\ (Slots - r) * SlotPages \in Int /\ SlotPages \in Int
    BY MemoryAssumption
  <2>5. QED
    BY <1>1, <2>2, <2>3, <2>4 DEF StackTop
<1>5. QED
  BY <1>1, <1>3, <1>4

-----------------------------------------------------------------------------
(* The frames of pages mapped and unmapped.  After r, a step on the pages m *)
(* with t frames taken, as many frames as before are taken beyond the pages *)
(* mapped, or more.                                                         *)
Accounted(m, t, r) ==
    /\ IsFiniteSet(r.pages) /\ r.taken \in Int
    /\ r.taken - Cardinality(r.pages) >= t - Cardinality(m)

(* Counting two sets that have nothing in common, and what is left of one.  *)
LEMMA JoinApart ==
    ASSUME NEW S, IsFiniteSet(S), NEW T, IsFiniteSet(T), S \cap T = {}
    PROVE  /\ IsFiniteSet(S \cup T) /\ Cardinality(S) \in Nat /\ Cardinality(T) \in Nat
           /\ Cardinality(S \cup T) = Cardinality(S) + Cardinality(T)
<1>1. IsFiniteSet(S \cup T)
  BY FS_Union
<1>2. Cardinality(S) \in Nat /\ Cardinality(T) \in Nat
  BY FS_CardinalityType
<1>3. Cardinality(S \cup T) = Cardinality(S) + Cardinality(T) - Cardinality(S \cap T)
  BY FS_Union
<1>4. Cardinality(S \cap T) = 0
  BY FS_EmptySet
<1>5. QED
  BY <1>1, <1>2, <1>3, <1>4

LEMMA TakeAway ==
    ASSUME NEW S, IsFiniteSet(S), NEW T \in SUBSET S
    PROVE  IsFiniteSet(S \ T) /\ Cardinality(S \ T) = Cardinality(S) - Cardinality(T)
<1>1. IsFiniteSet(S \ T) /\ Cardinality(S \ T) = Cardinality(S) - Cardinality(S \cap T)
  BY FS_Difference
<1>2. S \cap T = T
  OBVIOUS
<1>3. QED
  BY <1>1, <1>2

(* map_range takes a frame for every page it maps, and no more than there   *)
(* are.                                                                     *)
LEMMA MapRangeFrames ==
    ASSUME NEW m, IsFiniteSet(m), NEW t \in Int, NEW a \in Int, NEW b \in Int, a <= b + 1
    PROVE  /\ Accounted(m, t, MapRange(m, t, a, b))
           /\ t <= Frames => MapRange(m, t, a, b).taken <= Frames
<1>1. PICK stops : stops = Stops(m, t, a, b)
  OBVIOUS
<1>2. PICK last : last = IF stops = {} THEN b ELSE Min(stops) - 1
  OBVIOUS
<1>3. PICK wasted : wasted = IF stops # {} /\ t + (last + 1 - a) < Frames THEN 1 ELSE 0
  OBVIOUS
<1>4. PICK r : r = MapRange(m, t, a, b)
  OBVIOUS
<1>5. r.pages = m \cup a..last /\ r.taken = t + (last + 1 - a) + wasted
  BY <1>1, <1>2, <1>3, <1>4 DEF MapRange
<1>6. \A p \in stops : p \in Int /\ a <= p /\ p <= b
  BY <1>1 DEF Stops
<1>7. last \in Int /\ a <= last + 1 /\ last <= b /\ \A p \in a..last : p \notin stops
  <2>1. CASE stops = {}
    BY <1>2, <2>1
  <2>2. CASE stops # {}
    <3>1. PICK k \in Int : k = Min(stops) /\ k \in stops /\ \A p \in stops : k <= p
      BY <1>6, <2>2, MinInRange
    <3>2. last = k - 1
      BY <1>2, <2>2, <3>1
    <3>3. QED
      BY <1>6, <3>1, <3>2
  <2>3. QED
    BY <2>1, <2>2
<1>8. ASSUME NEW p \in a..last PROVE p \notin m /\ t + (p - a) < Frames
  <2>1. p \in a..b /\ p \notin stops
    BY <1>7
  <2>2. p \notin m /\ ~(t + (p - a) >= Frames)
    BY <1>1, <2>1 DEF Stops
  <2>3. QED
    BY <2>1, <2>2, PageAssumption
<1>9. Cardinality(r.pages) = Cardinality(m) + (last + 1 - a) /\ IsFiniteSet(r.pages)
  <2>1. IsFiniteSet(a..last) /\ Cardinality(a..last) = last + 1 - a
    BY <1>7, FS_Interval
  <2>2. m \cap (a..last) = {}
    BY <1>8
  <2>3. QED
    BY <1>5, <2>1, <2>2, JoinApart
<1>10. wasted \in {0, 1} /\ (wasted = 1 => t + (last + 1 - a) < Frames)
  BY <1>3
<1>11. Accounted(m, t, r)
  <2>1. Cardinality(m) \in Nat
    BY FS_CardinalityType
  <2>2. QED
    BY <1>5, <1>7, <1>9, <1>10, <2>1 DEF Accounted
<1>12. t <= Frames => r.taken <= Frames
  <2>1. Frames \in Nat
    BY PageAssumption
  <2>2. last >= a => t + (last - a) < Frames
    BY <1>7, <1>8
  <2>3. QED
    BY <1>5, <1>7, <1>10, <2>1, <2>2
<1>13. QED
  BY <1>4, <1>11, <1>12

(* unmap_range gives back a frame for every page it unmaps, and no other.   *)
LEMMA UnmapRangeFrames ==
    ASSUME NEW m, IsFiniteSet(m), NEW t \in Int, NEW a \in Int, NEW b \in Int, a <= b + 1
    PROVE  /\ Accounted(m, t, UnmapRange(m, t, a, b))
           /\ UnmapRange(m, t, a, b).taken <= t
<1>1. PICK stops : stops = {p \in a..b : p \notin m}
  OBVIOUS
<1>2. PICK last : last = IF stops = {} THEN b ELSE Min(stops) - 1
  OBVIOUS
<1>3. PICK r : r = UnmapRange(m, t, a, b)
  OBVIOUS
<1>4. r.pages = m \ a..last /\ r.taken = t - (last + 1 - a)
  BY <1>1, <1>2, <1>3 DEF UnmapRange
<1>5. \A p \in stops : p \in Int /\ a <= p /\ p <= b
  BY <1>1
<1>6. last \in Int /\ a <= last + 1 /\ last <= b /\ \A p \in a..last : p \notin stops
  <2>1. CASE stops = {}
    BY <1>2, <2>1
  <2>2. CASE stops # {}
    <3>1. PICK k \in Int : k = Min(stops) /\ k \in stops /\ \A p \in stops : k <= p
      BY <1>5, <2>2, MinInRange
    <3>2. last = k - 1
      BY <1>2, <2>2, <3>1
    <3>3. QED
      BY <1>5, <3>1, <3>2
  <2>3. QED
    BY <2>1, <2>2
<1>7. a..last \subseteq m
  BY <1>1, <1>6
<1>8. Cardinality(r.pages) = Cardinality(m) - (last + 1 - a) /\ IsFiniteSet(r.pages)
  <2>1. Cardinality(a..last) = last + 1 - a
    BY <1>6, FS_Interval
  <2>2. QED
    BY <1>4, <1>7, <2>1, TakeAway
<1>9. Cardinality(m) \in Nat
  BY FS_CardinalityType
<1>10. Accounted(m, t, r) /\ r.taken <= t
  BY <1>4, <1>6, <1>8, <1>9 DEF Accounted
<1>11. QED
  BY <1>3, <1>10

(* Two steps, one after the other.                                          *)
LEMMA AccountedSteps ==
    ASSUME NEW m, IsFiniteSet(m), NEW t \in Int, NEW r, NEW q,
           Accounted(m, t, r), Accounted(r.pages, r.taken, q)
    PROVE  Accounted(m, t, q)
<1>1. Cardinality(m) \in Nat
  BY FS_CardinalityType
<1>2. IsFiniteSet(r.pages) /\ IsFiniteSet(q.pages)
  BY DEF Accounted
<1>3. Cardinality(r.pages) \in Nat /\ Cardinality(q.pages) \in Nat
  BY <1>2, FS_CardinalityType
<1>4. QED
  BY <1>1, <1>3 DEF Accounted

(* The pages there are: finitely many, those of the stacks among them.      *)
LEMMA PagesFinite == IsFiniteSet(Pages)
<1>1. 0 \in Int /\ StackTop(0) - 1 \in Int
  <2>1. 0 \in 0..(Slots - 1)
    BY MemoryAssumption
  <2>2. StackTop(0) \in Nat
    BY <2>1, Layout
  <2>3. QED
    BY <2>2
<1>2. QED
  BY <1>1, FS_Interval DEF Pages

(* The slots of the stacks.                                                 *)
LEMMA StackPages ==
    ASSUME NEW s \in 0..(Slots - 1)
    PROVE  /\ StackTop(s) <= StackTop(0) /\ StackTop(0) \in Nat
           /\ (StackTop(s) - SlotPages)..(StackTop(s) - 1) \subseteq Pages
<1>1. 0 \in 0..(Slots - 1) /\ SlotPages \in Nat
  BY MemoryAssumption
<1>2. StackTop(0) \in Nat /\ StackTop(s) \in Nat /\ StackBase \in Nat
      /\ StackBase + SlotPages <= StackTop(s)
  BY <1>1, Layout
<1>3. StackTop(s) <= StackTop(0)
  <2>1. CASE s = 0
    BY <1>2, <2>1
  <2>2. CASE s # 0
    <3>1. StackTop(s) <= StackTop(0) - SlotPages
      BY <1>1, <2>2, Layout
    <3>2. QED
      BY <1>1, <1>2, <3>1
  <2>3. QED
    BY <2>1, <2>2
<1>4. QED
  BY <1>1, <1>2, <1>3 DEF Pages

-----------------------------------------------------------------------------
(* The slots that vfork tries.                                              *)

(* step of Tries, up to n slots.                                            *)
Stepped(p, n, f) ==
    f = [k \in 0..n |-> IF k = 0 THEN NotTried(p) ELSE Try(p, FirstSlot(p) + k - 1, f[k - 1])]

(* step is well defined, by induction on the slots tried.                   *)
LEMMA SteppedExists == ASSUME NEW p PROVE \A n \in Nat : \E f : Stepped(p, n, f)
<1> DEFINE T == {n \in Nat : ~ \E f : Stepped(p, n, f)}
<1> SUFFICES ASSUME T # {} PROVE FALSE
  OBVIOUS
<1>1. PICK n \in T : \A k \in T : n <= k
  BY LeastNumber
<1>2. CASE n = 0
  <2>1. Stepped(p, 0, [k \in 0..0 |-> NotTried(p)])
    BY DEF Stepped
  <2>2. QED
    BY <1>1, <1>2, <2>1
<1>3. CASE n # 0
  <2>1. n - 1 \in Nat /\ n - 1 \notin T
    BY <1>1, <1>3
  <2>2. PICK f : Stepped(p, n - 1, f)
    BY <2>1
  <2>3. \A k \in 0..(n - 1) :
            f[k] = IF k = 0 THEN NotTried(p) ELSE Try(p, FirstSlot(p) + k - 1, f[k - 1])
    BY <2>2 DEF Stepped
  <2> DEFINE g == [k \in 0..n |-> IF k < n THEN f[k] ELSE Try(p, FirstSlot(p) + k - 1, f[k - 1])]
  <2>4. \A k \in 0..n : k # 0 => k - 1 \in 0..n /\ g[k - 1] = f[k - 1]
    OBVIOUS
  <2>5. \A k \in 0..n :
            g[k] = IF k = 0 THEN NotTried(p) ELSE Try(p, FirstSlot(p) + k - 1, g[k - 1])
    BY <1>3, <2>3, <2>4
  <2>6. Stepped(p, n, g)
    <3>1. g = [k \in 0..n |-> g[k]]
      OBVIOUS
    <3> HIDE DEF g
    <3>2. g = [k \in 0..n |->
                  IF k = 0 THEN NotTried(p) ELSE Try(p, FirstSlot(p) + k - 1, g[k - 1])]
      BY <2>5, <3>1
    <3>3. QED
      BY <3>2 DEF Stepped
  <2>7. QED
    BY <1>1, <2>6
<1>4. QED
  BY <1>2, <1>3

(* What the tries of p leave: nothing unmapped, every page and frame        *)
(* accounted for, and, if they succeed, all pages of one slot mapped that   *)
(* was free of them.                                                        *)
TriedWell(p, r) ==
    /\ mapped[table[p]] \subseteq r.pages
    /\ (mapped[table[p]] \subseteq Pages /\ taken \in Int) =>
          /\ r.pages \subseteq Pages /\ Accounted(mapped[table[p]], taken, r)
          /\ taken <= Frames => r.taken <= Frames
    /\ r.ok => /\ r.at \in FirstSlot(p)..(Slots - 1)
               /\ mapped[table[p]] \cap (StackTop(r.at) - size[p])..(StackTop(r.at) - 1) = {}
               /\ (StackTop(r.at) - size[p])..(StackTop(r.at) - 1) \subseteq r.pages

(* What the loop of Stack::vfork leaves, by induction on the slots tried.   *)
LEMMA TriesFacts ==
    ASSUME NEW p, FirstSlot(p) \in 1..(Slots - 1), Slots \in Nat, size[p] \in 0..SlotPages
    PROVE  TriedWell(p, Tries(p))
<1> DEFINE N == Slots - FirstSlot(p)
           body(f) == [k \in 0..N |-> IF k = 0 THEN NotTried(p)
                                      ELSE Try(p, FirstSlot(p) + k - 1, f[k - 1])]
<1>1. N \in Nat
  OBVIOUS
<1>2. PICK f : f = CHOOSE g : g = body(g)
  OBVIOUS
<1>3. Tries(p) = f[N]
  BY <1>2 DEF Tries
<1>4. f = body(f)
  <2>1. \E g : g = body(g)
    BY <1>1, SteppedExists DEF Stepped
  <2> HIDE DEF body
  <2>2. QED
    BY <1>2, <2>1
<1>5. \A k \in 0..N : f[k] = IF k = 0 THEN NotTried(p) ELSE Try(p, FirstSlot(p) + k - 1, f[k - 1])
  BY <1>4
<1> HIDE DEF body
<1> DEFINE T == {k \in 0..N : ~TriedWell(p, f[k])}
<1>6. T = {}
  <2> SUFFICES ASSUME T # {} PROVE FALSE
    OBVIOUS
  <2>1. PICK k \in T : \A j \in T : k <= j
    <3>1. T \in SUBSET Nat
      BY <1>1
    <3> HIDE DEF T
    <3>2. QED
      BY <3>1, LeastNumber
  <2>2. k \in 0..N /\ ~TriedWell(p, f[k])
    OBVIOUS
  <2>3. CASE k = 0
    <3>1. f[k] = NotTried(p)
      BY <1>5, <2>2, <2>3
    <3>2. /\ f[k].pages = mapped[table[p]] /\ f[k].taken = taken /\ f[k].ok = FALSE
      BY <3>1 DEF NotTried
    <3>3. ASSUME mapped[table[p]] \subseteq Pages, taken \in Int
          PROVE  Accounted(mapped[table[p]], taken, f[k])
      <4>1. IsFiniteSet(mapped[table[p]])
        BY <3>3, PagesFinite, FS_Subset
      <4>2. Cardinality(mapped[table[p]]) \in Nat
        BY <4>1, FS_CardinalityType
      <4>3. QED
        BY <3>2, <3>3, <4>1, <4>2 DEF Accounted
    <3>4. QED
      BY <2>2, <3>2, <3>3 DEF TriedWell
  <2>4. CASE k # 0
    <3>1. k - 1 \in 0..N /\ k - 1 \notin T
      BY <2>1, <2>4
    <3>2. TriedWell(p, f[k - 1])
      BY <3>1
    <3>3. PICK s : s = FirstSlot(p) + k - 1
      OBVIOUS
    <3>4. s \in FirstSlot(p)..(Slots - 1)
      BY <2>2, <2>4, <3>3
    <3>5. f[k] = Try(p, s, f[k - 1])
      BY <1>5, <2>2, <2>4, <3>3
    <3>6. CASE f[k - 1].ok
      BY <2>2, <3>2, <3>5, <3>6 DEF Try
    <3>7. CASE ~f[k - 1].ok
      <4>1. PICK r : r = f[k - 1]
        OBVIOUS
      <4>2. PICK a, b : a = StackTop(s) - size[p] /\ b = StackTop(s) - 1
        OBVIOUS
      <4>3. a \in Int /\ b \in Int /\ a <= b + 1 /\ (a..b) \subseteq Pages
        <5>1. s \in 0..(Slots - 1) /\ SlotPages \in Nat /\ size[p] \in Nat /\ size[p] <= SlotPages
          BY <3>4, MemoryAssumption
        <5>2. StackTop(s) \in Nat
          BY <5>1, Layout
        <5>3. (StackTop(s) - SlotPages)..(StackTop(s) - 1) \subseteq Pages
          BY <5>1, StackPages
        <5>4. QED
          BY <4>2, <5>1, <5>2, <5>3
      <4>4. PICK new : new = MapRange(r.pages, r.taken, a, b)
        OBVIOUS
      <4>5. /\ f[k].pages = new.pages /\ f[k].ok = new.ok /\ f[k].at = s
            /\ f[k].taken = new.taken
        BY <3>5, <3>7, <4>1, <4>2, <4>4 DEF Try
      <4>6. /\ r.pages \subseteq new.pages
            /\ new.ok => r.pages \cap (a..b) = {} /\ a..b \subseteq new.pages
            /\ new.pages \subseteq r.pages \cup a..b
        BY <4>3, <4>4, MapRangeFacts
      <4>7. mapped[table[p]] \subseteq r.pages
        BY <3>2, <4>1 DEF TriedWell
      <4>8. ASSUME mapped[table[p]] \subseteq Pages, taken \in Int
            PROVE  /\ new.pages \subseteq Pages /\ Accounted(mapped[table[p]], taken, new)
                   /\ taken <= Frames => new.taken <= Frames
        <5>1. /\ r.pages \subseteq Pages /\ Accounted(mapped[table[p]], taken, r)
              /\ taken <= Frames => r.taken <= Frames
          BY <3>2, <4>1, <4>8 DEF TriedWell
        <5>2. IsFiniteSet(mapped[table[p]])
          BY <4>8, PagesFinite, FS_Subset
        <5>3. IsFiniteSet(r.pages) /\ r.taken \in Int
          BY <5>1 DEF Accounted
        <5>4. Accounted(r.pages, r.taken, new) /\ (r.taken <= Frames => new.taken <= Frames)
          BY <4>3, <4>4, <5>3, MapRangeFrames
        <5>5. Accounted(mapped[table[p]], taken, new)
          BY <4>8, <5>1, <5>2, <5>4, AccountedSteps
        <5>6. QED
          BY <4>3, <4>6, <5>1, <5>4, <5>5
      <4>9. TriedWell(p, f[k])
        <5>1. Accounted(mapped[table[p]], taken, new) = Accounted(mapped[table[p]], taken, f[k])
          BY <4>5 DEF Accounted
        <5>2. QED
          BY <3>4, <4>2, <4>5, <4>6, <4>7, <4>8, <5>1 DEF TriedWell
      <4>10. QED
        BY <2>2, <4>9
    <3>8. QED
      BY <3>6, <3>7
  <2>5. QED
    BY <2>3, <2>4
<1>7. QED
  BY <1>1, <1>3, <1>6

-----------------------------------------------------------------------------
(* Loading an executable.                                                   *)

(* Pages of addresses.                                                      *)
LEMMA PageFacts ==
    /\ \A a \in Int : PageOf(a) \in Int
    /\ \A a, b \in Int : a <= b => PageOf(a) <= PageOf(b)
    /\ \A a \in Int : PageUp(a) = PageOf(a - 1) + 1
    /\ \A a \in Nat : PageOf(a) \in Nat
<1>1. PageBytes \in Nat /\ PageBytes > 0
  BY PageAssumption
<1>2. \A a \in Int : PageOf(a) \in Int
  BY <1>1 DEF PageOf
<1>3. \A a, b \in Int : a <= b => PageOf(a) <= PageOf(b)
  BY <1>1 DEF PageOf
<1>4. \A a \in Int : PageUp(a) = PageOf(a - 1) + 1
  BY <1>1 DEF PageOf, PageUp
<1>5. \A a \in Nat : PageOf(a) \in Nat
  BY <1>1 DEF PageOf
<1>6. QED
  BY <1>2, <1>3, <1>4, <1>5

(* An address below page n lies in a page below n.                          *)
LEMMA PageBelow ==
    ASSUME NEW a \in Nat, NEW n \in Nat, a < n * PageBytes
    PROVE  PageOf(a) < n
  BY PageAssumption DEF PageOf

(* load_elf goes from segment to segment, and so does the freeing of the    *)
(* code.  This is what FoldLeft makes of either, for the segments of s.     *)
Unloaded(t) == [image |-> <<>>, taken |-> t, ok |-> TRUE]

SegmentStep(load, r, seg) == IF load THEN LoadSegment(r, seg) ELSE UnloadSegment(r, seg)

FoldBody(load, elf, r, s, f) ==
    IF s = {} THEN r ELSE SegmentStep(load, f[s \ {Max(s)}], elf[Max(s)])

FoldsTo(load, elf, r, n, f) == f = [s \in SUBSET (1..n) |-> FoldBody(load, elf, r, s, f)]

(* The last of n indices.                                                   *)
LEMMA MaxFacts ==
    ASSUME NEW n \in Nat \ {0}
    PROVE  /\ Max(1..n) = n /\ (1..n) \ {n} = 1..(n - 1)
           /\ \A s \in SUBSET (1..n) : n \in s => Max(s) = n
<1>1. ASSUME NEW s \in SUBSET (1..n), n \in s PROVE Max(s) = n
  <2>1. \A y \in s : n >= y /\ (y >= n => y = n)
    OBVIOUS
  <2>2. QED
    BY <1>1, <2>1 DEF Max
<1>2. n \in 1..n /\ 1..n \in SUBSET (1..n) /\ (1..n) \ {n} = 1..(n - 1)
  OBVIOUS
<1>3. QED
  BY <1>1, <1>2

(* The fold is well defined, by induction on the number of segments.        *)
LEMMA FoldExists ==
    ASSUME NEW load, NEW elf, NEW r
    PROVE  \A n \in Nat : \E f : FoldsTo(load, elf, r, n, f)
<1> DEFINE T == {n \in Nat : ~ \E f : FoldsTo(load, elf, r, n, f)}
<1> SUFFICES ASSUME T # {} PROVE FALSE
  OBVIOUS
<1>1. PICK n \in T : \A k \in T : n <= k
  BY LeastNumber
<1>2. CASE n = 0
  <2> DEFINE g == [s \in SUBSET (1..0) |-> r]
  <2>1. SUBSET (1..0) = {{}}
    OBVIOUS
  <2>2. \A s \in SUBSET (1..0) : FoldBody(load, elf, r, s, g) = r
    BY <2>1 DEF FoldBody
  <2>3. FoldsTo(load, elf, r, 0, g)
    BY <2>2 DEF FoldsTo
  <2>4. QED
    BY <1>1, <1>2, <2>3
<1>3. CASE n # 0
  <2>1. n - 1 \in Nat /\ n - 1 \notin T
    BY <1>1, <1>3
  <2>2. PICK f : FoldsTo(load, elf, r, n - 1, f)
    BY <2>1
  <2>3. \A s \in SUBSET (1..(n - 1)) : f[s] = FoldBody(load, elf, r, s, f)
    BY <2>2 DEF FoldsTo
  <2> DEFINE g == [s \in SUBSET (1..n) |->
                      IF n \in s THEN SegmentStep(load, f[s \ {n}], elf[n]) ELSE f[s]]
  <2>4. \A s \in SUBSET (1..n) : n \notin s => s \in SUBSET (1..(n - 1)) /\ g[s] = f[s]
    OBVIOUS
  <2>5. \A s \in SUBSET (1..n) : g[s] = FoldBody(load, elf, r, s, g)
    <3> SUFFICES ASSUME NEW s \in SUBSET (1..n) PROVE g[s] = FoldBody(load, elf, r, s, g)
      OBVIOUS
    <3>1. CASE n \in s
      <4>1. Max(s) = n
        BY <1>3, <3>1, MaxFacts
      <4>2. s \ {n} \in SUBSET (1..n) /\ n \notin s \ {n}
        OBVIOUS
      <4>3. g[s \ {n}] = f[s \ {n}]
        BY <2>4, <4>2
      <4>4. g[s] = SegmentStep(load, f[s \ {n}], elf[n]) /\ s # {}
        BY <3>1
      <4> HIDE DEF g
      <4>5. QED
        BY <4>1, <4>3, <4>4 DEF FoldBody
    <3>2. CASE n \notin s
      <4>1. s \in SUBSET (1..(n - 1)) /\ g[s] = f[s]
        BY <2>4, <3>2
      <4>2. g[s \ {Max(s)}] = f[s \ {Max(s)}]
        <5>1. s \ {Max(s)} \in SUBSET (1..n) /\ n \notin s \ {Max(s)}
          BY <3>2
        <5>2. QED
          BY <2>4, <5>1
      <4>3. f[s] = FoldBody(load, elf, r, s, f)
        BY <2>3, <4>1
      <4> HIDE DEF g
      <4>4. QED
        BY <4>1, <4>2, <4>3 DEF FoldBody
    <3>3. QED
      BY <3>1, <3>2
  <2>6. FoldsTo(load, elf, r, n, g)
    <3>1. g = [s \in SUBSET (1..n) |-> g[s]]
      OBVIOUS
    <3> HIDE DEF g
    <3>2. QED
      BY <2>5, <3>1 DEF FoldsTo
  <2>7. QED
    BY <1>1, <2>6
<1>4. QED
  BY <1>2, <1>3

(* So loading an executable is loading its segments one after the other.    *)
LEMMA LoadElfSteps ==
    ASSUME NEW t, NEW n \in Nat, NEW elf, DOMAIN elf = 1..n
    PROVE  \E r : /\ r[0] = Unloaded(t) /\ r[n] = LoadElf(elf, t)
                  /\ \A i \in 1..n : r[i] = LoadSegment(r[i - 1], elf[i])
<1> DEFINE part(f, s) == IF s = {} THEN Unloaded(t)
                         ELSE LoadSegment(f[s \ {Max(s)}], elf[Max(s)])
           body(f) == [s \in SUBSET (1..n) |-> part(f, s)]
<1>1. PICK f : f = CHOOSE g : g = body(g)
  OBVIOUS
<1>2. LoadElf(elf, t) = f[1..n]
  BY <1>1 DEF LoadElf, FoldLeft, MapThenFoldSet, Unloaded
<1>3. f = body(f)
  <2>1. \E g : g = body(g)
    <3>1. PICK g : FoldsTo(TRUE, elf, Unloaded(t), n, g)
      BY FoldExists
    <3>2. \A s : FoldBody(TRUE, elf, Unloaded(t), s, g) = part(g, s)
      BY DEF FoldBody, SegmentStep
    <3>3. g = body(g)
      BY <3>1, <3>2 DEF FoldsTo
    <3>4. QED
      BY <3>3
  <2> HIDE DEF body
  <2>2. QED
    BY <1>1, <2>1
<1>4. \A s \in SUBSET (1..n) : f[s] = part(f, s)
  BY <1>3
<1> HIDE DEF body
<1> DEFINE r == [i \in 0..n |-> f[1..i]]
<1>5. r[0] = Unloaded(t) /\ r[n] = LoadElf(elf, t)
  <2>1. 1..0 = {} /\ {} \in SUBSET (1..n)
    OBVIOUS
  <2>2. f[{}] = Unloaded(t)
    BY <1>4, <2>1
  <2>3. QED
    BY <1>2, <2>1, <2>2
<1>6. ASSUME NEW i \in 1..n PROVE r[i] = LoadSegment(r[i - 1], elf[i])
  <2>1. 1..i \in SUBSET (1..n) /\ 1..i # {} /\ i \in Nat \ {0}
    <3>1. i \in Nat /\ i > 0 /\ i <= n
      OBVIOUS
    <3>2. i \in 1..i
      BY <3>1
    <3>3. \A k \in 1..i : k \in 1..n
      BY <3>1
    <3>4. QED
      BY <3>1, <3>2, <3>3
  <2>2. Max(1..i) = i /\ (1..i) \ {i} = 1..(i - 1)
    BY <2>1, MaxFacts
  <2>3. f[1..i] = LoadSegment(f[1..(i - 1)], elf[i])
    BY <1>4, <2>1, <2>2
  <2>4. QED
    BY <2>3
<1>7. QED
  BY <1>5, <1>6

(* The pages of a segment, f of its e bytes in the file, are those mapped   *)
(* for the bytes in the file and those for the rest.                        *)
LEMMA SegmentPages ==
    ASSUME NEW x \in Nat, NEW f \in Nat, NEW e \in Nat, NEW a \in x..(x + e - 1)
    PROVE  \/ PageOf(a) \in PageOf(x)..PageOf(x + f - 1)
           \/ e > f /\ PageOf(a) \in PageUp(x + f)..PageOf(x + e - 1)
<1>1. PICK first \in Int, b \in Int, last \in Int :
         first = PageOf(x) /\ b = PageOf(x + f - 1) /\ last = PageOf(x + e - 1)
  <2>1. PageOf(x) \in Int /\ PageOf(x + f - 1) \in Int /\ PageOf(x + e - 1) \in Int
    BY PageAssumption DEF PageOf
  <2>2. QED
    BY <2>1
<1>2. PICK p \in Int : p = PageOf(a)
  BY PageFacts
<1>3. first <= p /\ p <= last
  BY <1>1, <1>2, PageFacts
<1>4. CASE p <= b
  BY <1>1, <1>2, <1>3, <1>4
<1>5. CASE b < p
  <2>1. a >= x + f
    <3> SUFFICES ASSUME a <= x + f - 1 PROVE FALSE
      OBVIOUS
    <3>1. p <= b
      BY <1>1, <1>2, PageFacts
    <3>2. QED
      BY <1>5, <3>1
  <2>2. e > f
    BY <2>1
  <2>3. PageUp(x + f) = b + 1
    BY <1>1, PageFacts
  <2>4. QED
    BY <1>1, <1>2, <1>3, <1>5, <2>2, <2>3
<1>6. QED
  BY <1>4, <1>5

(* A segment that loads adds the pages of all its addresses.                *)
LEMMA LoadSegmentFacts ==
    ASSUME NEW r, NEW seg
    PROVE  (seg \in Segments /\ LoadSegment(r, seg).ok) =>
              /\ r.ok /\ DOMAIN r.image \subseteq DOMAIN LoadSegment(r, seg).image
              /\ seg.load => \A a \in Span(seg) : PageOf(a) \in DOMAIN LoadSegment(r, seg).image
<1>1. SUFFICES ASSUME seg \in Segments, LoadSegment(r, seg).ok
               PROVE  /\ r.ok /\ DOMAIN r.image \subseteq DOMAIN LoadSegment(r, seg).image
                      /\ seg.load => \A a \in Span(seg) :
                                         PageOf(a) \in DOMAIN LoadSegment(r, seg).image
  OBVIOUS
<1>2. PICK x \in Nat, f \in Nat, e \in Nat : x = seg.addr /\ f = seg.file /\ e = seg.mem
  BY <1>1 DEF Segments
<1>3. CASE ~r.ok
  BY <1>1, <1>3 DEF LoadSegment
<1>4. CASE r.ok /\ ~IsLoaded(seg)
  <2>1. LoadSegment(r, seg) = r
    BY <1>4 DEF LoadSegment
  <2>2. seg.load => Span(seg) = {}
    BY <1>2, <1>4 DEF IsLoaded, Span
  <2>3. QED
    BY <1>4, <2>1, <2>2
<1>5. CASE r.ok /\ IsLoaded(seg)
  <2>1. PICK m : m = DOMAIN r.image
    OBVIOUS
  <2>2. PICK first \in Int, b \in Int : first = PageOf(x) /\ b = PageOf(x + f - 1)
    <3>1. PageOf(x) \in Int
      BY PageFacts
    <3>2. PageOf(x + f - 1) \in Int
      BY PageFacts
    <3>3. QED
      BY <3>1, <3>2
  <2>3. PICK file : file = MapRange(m, r.taken, first, b)
    OBVIOUS
  <2>4. /\ DOMAIN LoadSegment(r, seg).image = file.pages \cup BssPages(seg)
        /\ LoadSegment(r, seg).ok => file.ok
    BY <1>2, <1>5, <2>1, <2>2, <2>3 DEF LoadSegment, FirstPage
  <2>5. m \subseteq file.pages /\ (file.ok => first..b \subseteq file.pages)
    <3>1. m \subseteq file.pages
      BY <2>3, MapRangeFacts
    <3>2. file.ok => file.pages = m \cup first..b
      BY <2>3, MapRangeFacts
    <3>3. QED
      BY <3>1, <3>2
  <2>6. ASSUME NEW a \in Span(seg)
        PROVE  PageOf(a) \in first..b \cup BssPages(seg)
    <3>1. a \in x..(x + e - 1)
      BY <1>2 DEF Span
    <3>2. \/ PageOf(a) \in first..b
          \/ e > f /\ PageOf(a) \in PageUp(x + f)..PageOf(x + e - 1)
      BY <2>2, <3>1, SegmentPages
    <3>3. QED
      BY <1>2, <3>2 DEF BssPages, LastPage
  <2>7. QED
    BY <1>1, <1>5, <2>1, <2>4, <2>5, <2>6
<1>6. QED
  BY <1>3, <1>4, <1>5

(* An executable that loads is there with every page it is linked to.       *)
LEMMA LoadElfFacts ==
    ASSUME NEW elf \in Executables, NEW t, LoadElf(elf, t).ok
    PROVE  \A a \in Linked(elf) : PageOf(a) \in DOMAIN LoadElf(elf, t).image
<1>1. PICK n \in Nat : n = Len(elf)
  BY LinkerAssumption
<1>2. /\ DOMAIN elf = 1..n
      /\ \A i \in 1..n : elf[i] \in Segments /\ elf[i].file <= elf[i].mem
  <2>1. DOMAIN elf = 1..n /\ \A i \in 1..n : elf[i] \in Segments
    BY <1>1, LinkerAssumption
  <2>2. \A i \in 1..n : elf[i].file \in 0..elf[i].mem
    BY <2>1, LinkerAssumption
  <2>3. QED
    BY <2>1, <2>2
<1>3. PICK r : /\ r[0] = Unloaded(t) /\ r[n] = LoadElf(elf, t)
               /\ \A i \in 1..n : r[i] = LoadSegment(r[i - 1], elf[i])
  BY <1>2, LoadElfSteps, SMTT(30)
<1> DEFINE Good(i) == r[i].ok => \A j \in 1..i : elf[j].load =>
                                     \A a \in Span(elf[j]) : PageOf(a) \in DOMAIN r[i].image
           T == {i \in 0..n : ~Good(i)}
<1>4. T = {}
  <2> SUFFICES ASSUME T # {} PROVE FALSE
    OBVIOUS
  <2>1. PICK i \in T : \A j \in T : i <= j
    <3>1. T \in SUBSET Nat
      OBVIOUS
    <3> HIDE DEF T
    <3>2. QED
      BY <3>1, LeastNumber
  <2>2. i \in 0..n /\ ~Good(i)
    OBVIOUS
  <2>3. i # 0
    BY <2>2
  <2>4. i \in 1..n /\ i - 1 \in 0..n /\ i - 1 \notin T
    BY <2>1, <2>2, <2>3
  <2>5. Good(i - 1)
    BY <2>4
  <2>6. PICK q, seg : q = r[i - 1] /\ seg = elf[i]
    OBVIOUS
  <2>7. r[i] = LoadSegment(q, seg) /\ seg \in Segments /\ seg.file <= seg.mem
    BY <1>2, <1>3, <2>4, <2>6
  <2>8. r[i].ok => /\ q.ok /\ DOMAIN q.image \subseteq DOMAIN r[i].image
                   /\ seg.load => \A a \in Span(seg) : PageOf(a) \in DOMAIN r[i].image
    BY <2>7, LoadSegmentFacts
  <2>9. \A j \in 1..i : j = i \/ j \in 1..(i - 1)
    BY <2>4
  <2>10. Good(i)
    BY <2>5, <2>6, <2>8, <2>9
  <2>11. QED
    BY <2>2, <2>10
<1>5. Good(n)
  BY <1>4
<1>6. QED
  BY <1>2, <1>3, <1>5 DEF Linked

-----------------------------------------------------------------------------
(* The invariant.  Types of what the argument is about:                     *)
SpaceTypes ==
    /\ table   \in [Procs -> Procs \cup {None}]
    /\ slot    \in [Procs -> 0..(Slots - 1)]
    /\ size    \in [Procs -> 0..SlotPages]
    /\ exe     \in [Procs -> Executables \cup {<<>>}]
    /\ heapEnd \in [Procs -> BrkEnds]
    /\ mapped = [t \in Procs |-> mapped[t]]
    /\ nextPid \in Nat \ {0}

(* What has not begun, or is gone, has left nothing behind.                 *)
Unused ==
    /\ \A p \in Procs : Alive(p) => p < nextPid /\ table[p] < nextPid
    /\ \A p \in Procs : ~Alive(p) => slot[p] = 0
    /\ \A t \in Procs : Members(t) = {} => heapEnd[t] = 0

(* OwnPagesMapped, part by part, of the pages m of a table; a stack has a   *)
(* page.                                                                    *)
CodeIn(elf, m)    == \A a \in Linked(elf) : PageOf(a) \in m
HeapIn(e, m)      == HeapBase..(EndPage(e) - 1) \subseteq m
StackIn(s, n, m)  == n >= 1 /\ (StackTop(s) - n)..(StackTop(s) - 1) \subseteq m

Furnished ==
    \A p \in Procs : Alive(p) =>
        /\ CodeIn(exe[table[p]], mapped[table[p]])
        /\ HeapIn(heapEnd[table[p]], mapped[table[p]])
        /\ StackIn(slot[p], size[p], mapped[table[p]])

SpaceInv == SpaceTypes /\ Unused /\ Furnished /\ StacksApart

(* Where the parts lie: code below HeapBase, heap below StackBase, each     *)
(* stack in its slot.                                                       *)
LEMMA CodeBelow ==
    ASSUME NEW elf \in Executables \cup {<<>>}, NEW a \in Linked(elf)
    PROVE  PageOf(a) \in Nat /\ PageOf(a) < HeapBase
<1>1. PICK i \in DOMAIN elf : a \in Span(elf[i])
  BY DEF Linked
<1>2. elf \in Executables
  BY <1>1
<1>3. elf[i] \in Segments /\ elf[i].addr + elf[i].mem <= CodePages * PageBytes
  BY <1>1, <1>2, LinkerAssumption
<1>4. PICK x \in Nat, e \in Nat : x = elf[i].addr /\ e = elf[i].mem
  BY <1>3 DEF Segments
<1>5. a \in x..(x + e - 1) /\ x + e <= CodePages * PageBytes
  BY <1>1, <1>3, <1>4 DEF Span
<1>6. a \in Nat /\ CodePages \in Nat /\ CodePages * PageBytes \in Nat
  BY <1>5, MemoryAssumption, PageAssumption
<1>7. a < CodePages * PageBytes
  BY <1>5, <1>6
<1>8. PageOf(a) < CodePages
  BY <1>6, <1>7, PageBelow
<1>9. PageOf(a) \in Nat
  BY <1>6, PageFacts
<1>10. QED
  BY <1>8, <1>9 DEF HeapBase

(* The end of a heap lies between the code and the stacks.                  *)
LEMMA HeapBelow ==
    ASSUME NEW e \in BrkEnds
    PROVE  EndPage(e) \in Nat /\ HeapBase <= EndPage(e) /\ EndPage(e) <= StackBase
<1>1. e \in Nat /\ e <= 2 * HeapPages /\ HeapPages \in Nat
  BY MemoryAssumption DEF BrkEnds
<1>2. PICK h \in Nat : h = e \div 2 /\ h <= HeapPages
  <2>1. e \div 2 \in Nat /\ e \div 2 <= HeapPages
    BY <1>1
  <2>2. QED
    BY <2>1
<1>3. HeapBase \in Nat /\ StackBase = HeapBase + HeapPages + 1
  BY Layout
<1>4. EndPage(e) = IF e = 0 THEN HeapBase ELSE HeapBase + (h + 1)
  BY <1>2, <1>3 DEF EndPage
<1>5. QED
  BY <1>1, <1>2, <1>3, <1>4

(* A stack is the top of its slot.                                          *)
LEMMA StackInSlot ==
    ASSUME SpaceTypes, NEW p \in Procs
    PROVE  /\ slot[p] \in 0..(Slots - 1) /\ StackTop(slot[p]) \in Nat /\ size[p] \in Nat
           /\ Low(p) \in Nat /\ StackBase <= StackTop(slot[p]) - SlotPages
           /\ StackTop(slot[p]) - SlotPages <= Low(p) /\ Low(p) + size[p] = StackTop(slot[p])
<1>1. slot[p] \in 0..(Slots - 1) /\ size[p] \in Nat /\ size[p] <= SlotPages /\ SlotPages \in Nat
  BY MemoryAssumption DEF SpaceTypes
<1>2. StackTop(slot[p]) \in Nat /\ StackBase + SlotPages <= StackTop(slot[p]) /\ StackBase \in Nat
  BY <1>1, Layout
<1>3. QED
  BY <1>1, <1>2 DEF Low

(* Mapping more pages takes nothing away.                                   *)
LEMMA MoreMapped ==
    ASSUME NEW m, NEW n, m \subseteq n
    PROVE  /\ \A elf : CodeIn(elf, m) => CodeIn(elf, n)
           /\ \A e : HeapIn(e, m) => HeapIn(e, n)
           /\ \A s, k : StackIn(s, k, m) => StackIn(s, k, n)
  BY DEF CodeIn, HeapIn, StackIn

(* A failed allocation or an unserved fault changes nothing of this.        *)
LEMMA SpaceKept ==
    ASSUME SpaceInv, UNCHANGED <<table, slot, size, mapped, exe, heapEnd, nextPid>>
    PROVE  SpaceInv'
<1>1. SpaceTypes'
  BY DEF SpaceInv, SpaceTypes
<1>2. Unused'
  BY DEF SpaceInv, Unused, Alive, Members
<1>3. Furnished'
  BY DEF SpaceInv, Furnished, Alive
<1>4. StacksApart'
  BY DEF SpaceInv, StacksApart, Members
<1>5. QED
  BY <1>1, <1>2, <1>3, <1>4 DEF SpaceInv

(* Nothing changes but that pages are mapped.                               *)
LEMMA SpaceGrown ==
    ASSUME SpaceInv, UNCHANGED <<table, slot, size, exe, heapEnd, nextPid>>,
           NEW t \in Procs, NEW n, mapped[t] \subseteq n, mapped' = [mapped EXCEPT ![t] = n]
    PROVE  SpaceInv'
<1>1. SpaceTypes'
  BY DEF SpaceInv, SpaceTypes
<1>2. Unused'
  BY DEF SpaceInv, Unused, Alive, Members
<1>3. Furnished'
  <2> SUFFICES ASSUME NEW p \in Procs, Alive(p)
               PROVE  /\ CodeIn(exe[table[p]], mapped'[table[p]])
                      /\ HeapIn(heapEnd[table[p]], mapped'[table[p]])
                      /\ StackIn(slot[p], size[p], mapped'[table[p]])
    BY DEF Furnished, Alive
  <2>1. mapped[table[p]] \subseteq mapped'[table[p]]
    BY DEF SpaceInv, SpaceTypes, Alive
  <2>2. /\ CodeIn(exe[table[p]], mapped[table[p]])
        /\ HeapIn(heapEnd[table[p]], mapped[table[p]])
        /\ StackIn(slot[p], size[p], mapped[table[p]])
    BY DEF SpaceInv, Furnished
  <2>3. QED
    BY <2>1, <2>2, MoreMapped
<1>4. StacksApart'
  BY DEF SpaceInv, StacksApart, Members
<1>5. QED
  BY <1>1, <1>2, <1>3, <1>4 DEF SpaceInv

(* What an executable that loads and one page of stack give a new process.  *)
LEMMA LoadedFacts ==
    ASSUME NEW elf \in Executables, Loaded(elf).ok
    PROVE  CodeIn(elf, Loaded(elf).pages) /\ StackTop(0) - 1 \in Loaded(elf).pages
<1>1. PICK code : code = LoadElf(elf, taken + 1)
  OBVIOUS
<1>2. PICK top \in Int : top = StackTop(0) - 1
  <2>1. 0 \in 0..(Slots - 1)
    BY MemoryAssumption
  <2>2. StackTop(0) \in Nat
    BY <2>1, Layout
  <2>3. QED
    BY <2>2
<1>3. PICK r : r = MapRange(DOMAIN code.image, code.taken, top, top)
  OBVIOUS
<1>4. code.ok /\ Loaded(elf) = r /\ r.ok
  BY <1>1, <1>2, <1>3 DEF Loaded
<1>5. DOMAIN code.image \subseteq r.pages
  BY <1>3, MapRangeFacts
<1>6. r.pages = DOMAIN code.image \cup top..top
  BY <1>3, <1>4, MapRangeFacts
<1>7. \A a \in Linked(elf) : PageOf(a) \in DOMAIN code.image
  BY <1>1, <1>4, LoadElfFacts
<1>8. top \in top..top
  OBVIOUS
<1>9. QED
  BY <1>2, <1>4, <1>5, <1>6, <1>7, <1>8 DEF CodeIn

(* A new process has its code, an empty heap and one page of stack, in a    *)
(* page table nobody else uses.                                             *)
LEMMA SpawnSpace == ASSUME SpaceInv, NEW elf \in Executables, Spawn(elf) PROVE SpaceInv'
<1>1. CASE UNCHANGED <<table, size, exe, mapped, taken, nextPid>>
  BY <1>1, SpaceKept DEF Spawn
<1>2. CASE /\ taken < Frames /\ Loaded(elf).ok
           /\ table' = [table EXCEPT ![nextPid] = nextPid]
           /\ size'  = [size EXCEPT ![nextPid] = 1]
           /\ exe'   = [exe EXCEPT ![nextPid] = elf]
           /\ Install(nextPid, Loaded(elf))
           /\ nextPid' = nextPid + 1
  <2>1. nextPid \in Procs /\ UNCHANGED <<slot, heapEnd>>
    BY DEF Spawn
  <2>2. PICK c \in Procs : c = nextPid
    BY <2>1
  <2>3. SpaceTypes /\ Unused /\ Furnished /\ StacksApart
    BY DEF SpaceInv
  <2>4. c # None /\ c \in Nat /\ c >= 1
    BY MemoryAssumption DEF Procs, None
  <2>5. \A p \in Procs : Alive(p) => p # c /\ table[p] # c /\ table[p] \in Procs
    <3>1. \A p \in Procs : Alive(p) => p < c /\ table[p] < c
      BY <2>2, <2>3 DEF Unused
    <3>2. \A p \in Procs : Alive(p) => table[p] \in Procs
      BY <2>3 DEF SpaceTypes, Alive
    <3>3. QED
      BY <2>4, <3>1, <3>2
  <2>6. ~Alive(c) /\ slot[c] = 0 /\ Members(c) = {} /\ heapEnd[c] = 0
    <3>1. ~Alive(c) /\ \A p \in Procs : table[p] # c
      BY <2>4, <2>5 DEF Alive
    <3>2. QED
      BY <2>3, <3>1 DEF Unused, Members
  <2>7. /\ table'[c] = c /\ size'[c] = 1 /\ exe'[c] = elf /\ mapped'[c] = Loaded(elf).pages
        /\ \A p \in Procs \ {c} : /\ table'[p] = table[p] /\ size'[p] = size[p]
                                  /\ exe'[p] = exe[p] /\ mapped'[p] = mapped[p]
    BY <1>2, <2>2, <2>3 DEF SpaceTypes, Install
  <2>8. \A t \in Procs : Members(t)' = IF t = c THEN {c} ELSE Members(t)
    <3>1. \A p \in Procs : p # c => table'[p] # c
      BY <2>4, <2>5, <2>7 DEF Alive
    <3>2. table[c] \notin Procs
      BY <2>6, MemoryAssumption DEF Alive, None, Procs
    <3>3. Members(c)' = {c}
      BY <2>7, <3>1 DEF Members
    <3>4. \A t \in Procs \ {c} : Members(t)' = Members(t)
      BY <2>7, <3>2 DEF Members
    <3>5. QED
      BY <3>3, <3>4
  <2>9. SpaceTypes'
    <3>1. table' \in [Procs -> Procs \cup {None}] /\ exe' \in [Procs -> Executables \cup {<<>>}]
      BY <1>2, <2>2, <2>3 DEF SpaceTypes
    <3>2. size' \in [Procs -> 0..SlotPages]
      <4>1. 1 \in 0..SlotPages
        BY MemoryAssumption
      <4>2. QED
        BY <1>2, <2>3, <4>1 DEF SpaceTypes
    <3>3. mapped' = [t \in Procs |-> mapped'[t]]
      BY <1>2, <2>3 DEF SpaceTypes, Install
    <3>4. nextPid' \in Nat \ {0}
      BY <1>2, <2>3 DEF SpaceTypes
    <3>5. QED
      BY <2>1, <2>3, <3>1, <3>2, <3>3, <3>4 DEF SpaceTypes
  <2>10. Unused'
    <3>1. \A p \in Procs : Alive(p)' => p < nextPid' /\ table'[p] < nextPid'
      <4>1. nextPid' = c + 1 /\ nextPid = c
        BY <1>2, <2>2
      <4>2. ASSUME NEW p \in Procs \ {c}, Alive(p)' PROVE p < c + 1 /\ table'[p] < c + 1
        <5>1. Alive(p) /\ table'[p] = table[p]
          BY <2>7, <4>2 DEF Alive
        <5>2. p < c /\ table[p] < c /\ p \in Nat /\ table[p] \in Nat
          BY <2>3, <2>5, <4>1, <5>1, MemoryAssumption DEF Unused, Procs
        <5>3. QED
          BY <2>4, <5>1, <5>2
      <4>3. c < c + 1
        BY <2>4
      <4>4. QED
        BY <2>7, <4>1, <4>2, <4>3
    <3>2. \A p \in Procs : ~Alive(p)' => slot'[p] = 0
      BY <2>1, <2>3, <2>6, <2>7 DEF Unused, Alive
    <3>3. \A t \in Procs : Members(t)' = {} => heapEnd'[t] = 0
      BY <2>1, <2>3, <2>8 DEF Unused
    <3>4. QED
      BY <3>1, <3>2, <3>3 DEF Unused
  <2>11. Furnished'
    <3> SUFFICES ASSUME NEW p \in Procs, table'[p] # None
                 PROVE  /\ CodeIn(exe'[table'[p]], mapped'[table'[p]])
                        /\ HeapIn(heapEnd'[table'[p]], mapped'[table'[p]])
                        /\ StackIn(slot'[p], size'[p], mapped'[table'[p]])
      BY DEF Furnished, Alive
    <3>1. CASE p = c
      <4>1. CodeIn(elf, Loaded(elf).pages) /\ StackTop(0) - 1 \in Loaded(elf).pages
        BY <1>2, LoadedFacts
      <4>2. HeapIn(0, Loaded(elf).pages)
        BY Layout DEF HeapIn, EndPage
      <4>3. StackIn(0, 1, Loaded(elf).pages)
        <5>1. StackTop(0) \in Nat
          BY <2>3, <2>6, StackInSlot
        <5>2. \A x \in (StackTop(0) - 1)..(StackTop(0) - 1) : x = StackTop(0) - 1
          BY <5>1
        <5>3. QED
          BY <4>1, <5>2 DEF StackIn
      <4>4. QED
        BY <2>1, <2>6, <2>7, <3>1, <4>1, <4>2, <4>3
    <3>2. CASE p # c
      <4>1. Alive(p) /\ table'[p] = table[p]
        BY <2>7, <3>2 DEF Alive
      <4>2. table[p] \in Procs \ {c}
        BY <2>5, <4>1
      <4>3. QED
        BY <2>1, <2>3, <2>7, <3>2, <4>1, <4>2 DEF Furnished
    <3>3. QED
      BY <3>1, <3>2
  <2>12. StacksApart'
    <3> SUFFICES ASSUME NEW t \in Procs, NEW p \in Procs, NEW q \in Procs,
                        p \in Members(t)', q \in Members(t)', slot[p] = slot[q]
                 PROVE  p = q
      BY <2>1 DEF StacksApart
    <3>1. QED
      BY <2>3, <2>8 DEF StacksApart
  <2>13. QED
    BY <2>9, <2>10, <2>11, <2>12 DEF SpaceInv
<1>3. QED
  BY <1>1, <1>2 DEF Spawn

(* The first slot a vfork tries lies below that of the parent.              *)
LEMMA FirstSlotBelow ==
    ASSUME SpaceTypes, NEW p \in Procs
    PROVE  FirstSlot(p) \in Nat /\ FirstSlot(p) > slot[p]
<1>1. IsFiniteSet(Procs)
  BY FS_Interval, MemoryAssumption DEF Procs
<1>2. IsFiniteSet(Children(p))
  BY <1>1, FS_Subset DEF Children
<1>3. Cardinality(Children(p)) \in Nat
  BY <1>2, FS_CardinalityType
<1>4. slot[p] \in Nat
  BY StackInSlot
<1>5. QED
  BY <1>3, <1>4 DEF FirstSlot

(* The top page of a stack lies in it.                                      *)
LEMMA TopInStack ==
    ASSUME SpaceTypes, NEW p \in Procs, NEW m, StackIn(slot[p], size[p], m)
    PROVE  StackTop(slot[p]) - 1 \in m
<1>1. StackTop(slot[p]) \in Nat /\ size[p] \in Nat /\ size[p] >= 1
  BY StackInSlot DEF StackIn
<1>2. StackTop(slot[p]) - 1 \in (StackTop(slot[p]) - size[p])..(StackTop(slot[p]) - 1)
  BY <1>1
<1>3. QED
  BY <1>2 DEF StackIn

(* A vforked child has a slot of its own: the top page of every other stack *)
(* of the family is mapped, and its was not.                                *)
LEMMA VForkSpace == ASSUME SpaceInv, NEW p \in Procs, VFork(p) PROVE SpaceInv'
<1>1. CASE UNCHANGED <<table, forker, slot, size, mapped, taken, nextPid>>
  BY <1>1, SpaceKept DEF VFork
<1>2. CASE /\ Tries(p).ok
           /\ table'  = [table EXCEPT ![nextPid] = table[p]]
           /\ slot'   = [slot EXCEPT ![nextPid] = Tries(p).at]
           /\ size'   = [size EXCEPT ![nextPid] = size[p]]
           /\ Install(table[p], Tries(p))
           /\ nextPid' = nextPid + 1
  <2>1. nextPid \in Procs /\ UNCHANGED <<exe, heapEnd>> /\ Alive(p) /\ FirstSlot(p) < Slots
    BY DEF VFork
  <2>2. PICK c \in Procs : c = nextPid
    BY <2>1
  <2>3. SpaceTypes /\ Unused /\ Furnished /\ StacksApart
    BY DEF SpaceInv
  <2>4. PICK f \in Procs : f = table[p]
    BY <2>1, <2>3 DEF SpaceTypes, Alive
  <2>5. PICK s, n, m : s = Tries(p).at /\ n = size[p] /\ m = Tries(p).pages
    OBVIOUS
  <2>6. /\ s \in 0..(Slots - 1) /\ mapped[f] \subseteq m
        /\ mapped[f] \cap (StackTop(s) - n)..(StackTop(s) - 1) = {}
        /\ (StackTop(s) - n)..(StackTop(s) - 1) \subseteq m
    <3>1. slot[p] \in 0..(Slots - 1) /\ size[p] \in 0..SlotPages /\ Slots \in Nat
      BY <2>3, MemoryAssumption DEF SpaceTypes
    <3>2. FirstSlot(p) \in 1..(Slots - 1)
      BY <2>1, <2>3, <3>1, FirstSlotBelow
    <3>3. TriedWell(p, Tries(p))
      BY <3>1, <3>2, TriesFacts
    <3>4. s \in FirstSlot(p)..(Slots - 1)
      BY <1>2, <2>5, <3>3 DEF TriedWell
    <3>5. s \in 0..(Slots - 1)
      BY <3>2, <3>4
    <3>6. QED
      BY <1>2, <2>4, <2>5, <3>3, <3>5 DEF TriedWell
  <2>7. ~Alive(c) /\ p # c /\ \A q \in Procs : Alive(q) => q # c
    <3>1. c \in Nat
      BY MemoryAssumption DEF Procs
    <3>2. \A q \in Procs : Alive(q) => q < c
      BY <2>2, <2>3 DEF Unused
    <3>3. QED
      BY <2>1, <3>1, <3>2
  <2>8. /\ table'[c] = f /\ size'[c] = n /\ slot'[c] = s /\ mapped'[f] = m
        /\ \A q \in Procs \ {c} : table'[q] = table[q] /\ size'[q] = size[q] /\ slot'[q] = slot[q]
        /\ \A t \in Procs \ {f} : mapped'[t] = mapped[t]
    BY <1>2, <2>2, <2>3, <2>4, <2>5 DEF SpaceTypes, Install
  <2>9. Members(f)' = Members(f) \cup {c} /\ \A t \in Procs \ {f} : Members(t)' = Members(t)
    <3>1. table[c] \notin Procs
      BY <2>7, MemoryAssumption DEF Alive, None, Procs
    <3>2. Members(f)' = Members(f) \cup {c}
      BY <2>8 DEF Members
    <3>3. \A t \in Procs \ {f} : Members(t)' = Members(t)
      BY <2>8, <3>1 DEF Members
    <3>4. QED
      BY <3>2, <3>3
  <2>10. SpaceTypes'
    <3>1. table' \in [Procs -> Procs \cup {None}]
      BY <1>2, <2>3, <2>4 DEF SpaceTypes
    <3>2. size' \in [Procs -> 0..SlotPages]
      BY <1>2, <2>3 DEF SpaceTypes
    <3>3. slot' \in [Procs -> 0..(Slots - 1)]
      BY <1>2, <2>3, <2>5, <2>6 DEF SpaceTypes
    <3>4. mapped' = [t \in Procs |-> mapped'[t]]
      BY <1>2, <2>3 DEF SpaceTypes, Install
    <3>5. nextPid' \in Nat \ {0}
      BY <1>2, <2>3 DEF SpaceTypes
    <3>6. QED
      BY <2>1, <2>3, <3>1, <3>2, <3>3, <3>4, <3>5 DEF SpaceTypes
  <2>11. Unused'
    <3>1. \A q \in Procs : Alive(q)' => q < nextPid' /\ table'[q] < nextPid'
      <4>1. nextPid' = c + 1 /\ c \in Nat
        BY <1>2, <2>2, MemoryAssumption DEF Procs
      <4>2. f < c /\ f \in Nat
        BY <2>1, <2>2, <2>3, <2>4, MemoryAssumption DEF Unused, Procs
      <4>3. ASSUME NEW q \in Procs \ {c}, Alive(q)' PROVE q < c + 1 /\ table'[q] < c + 1
        <5>1. Alive(q) /\ table'[q] = table[q]
          BY <2>8, <4>3 DEF Alive
        <5>2. q < c /\ table[q] < c
          BY <2>2, <2>3, <5>1 DEF Unused
        <5>3. q \in Nat /\ table[q] \in Nat
          <6>1. table[q] \in Procs
            BY <2>3, <5>1 DEF SpaceTypes, Alive
          <6>2. \A x \in Procs : x \in Nat
            BY MemoryAssumption DEF Procs
          <6>3. QED
            BY <6>1, <6>2
        <5>4. QED
          BY <4>1, <5>1, <5>2, <5>3
      <4>4. c < c + 1 /\ f < c + 1
        BY <4>1, <4>2
      <4>5. QED
        BY <2>8, <4>1, <4>3, <4>4
    <3>2. \A q \in Procs : ~Alive(q)' => slot'[q] = 0
      <4>1. f # None
        BY MemoryAssumption DEF Procs, None
      <4>2. QED
        BY <2>3, <2>8, <4>1 DEF Unused, Alive
    <3>3. \A t \in Procs : Members(t)' = {} => heapEnd'[t] = 0
      BY <2>1, <2>3, <2>9 DEF Unused
    <3>4. QED
      BY <3>1, <3>2, <3>3 DEF Unused
  <2>12. Furnished'
    <3> SUFFICES ASSUME NEW q \in Procs, table'[q] # None
                 PROVE  /\ CodeIn(exe[table'[q]], mapped'[table'[q]])
                        /\ HeapIn(heapEnd[table'[q]], mapped'[table'[q]])
                        /\ StackIn(slot'[q], size'[q], mapped'[table'[q]])
      BY <2>1 DEF Furnished, Alive
    <3>1. CASE q = c
      <4>1. CodeIn(exe[f], mapped[f]) /\ HeapIn(heapEnd[f], mapped[f]) /\ n >= 1
        BY <2>1, <2>3, <2>4, <2>5 DEF Furnished, StackIn
      <4>2. CodeIn(exe[f], m) /\ HeapIn(heapEnd[f], m)
        BY <2>6, <4>1, MoreMapped
      <4>3. StackIn(s, n, m)
        BY <2>6, <4>1 DEF StackIn
      <4>4. QED
        BY <2>8, <3>1, <4>2, <4>3
    <3>2. CASE q # c
      <4>1. Alive(q) /\ table'[q] = table[q] /\ slot'[q] = slot[q] /\ size'[q] = size[q]
        BY <2>8, <3>2 DEF Alive
      <4>2. mapped[table[q]] \subseteq mapped'[table[q]]
        BY <2>3, <2>6, <2>8, <4>1 DEF SpaceTypes, Alive
      <4>3. /\ CodeIn(exe[table[q]], mapped[table[q]])
            /\ HeapIn(heapEnd[table[q]], mapped[table[q]])
            /\ StackIn(slot[q], size[q], mapped[table[q]])
        BY <2>3, <4>1 DEF Furnished
      <4>4. QED
        BY <4>1, <4>2, <4>3, MoreMapped
    <3>3. QED
      BY <3>1, <3>2
  <2>13. StacksApart'
    <3>1. ASSUME NEW q \in Members(f) PROVE slot[q] # s
      <4>1. q \in Procs /\ table[q] = f /\ Alive(q)
        BY <3>1, MemoryAssumption DEF Members, Alive, None, Procs
      <4>2. StackTop(slot[q]) - 1 \in mapped[f]
        BY <2>3, <4>1, TopInStack DEF Furnished
      <4>3. StackTop(s) - 1 \in (StackTop(s) - n)..(StackTop(s) - 1)
        <5>1. StackTop(s) \in Nat
          BY <2>6, Layout
        <5>2. n \in Nat /\ n >= 1
          BY <2>1, <2>3, <2>5, StackInSlot DEF Furnished, StackIn
        <5>3. QED
          BY <5>1, <5>2
      <4>4. QED
        BY <2>6, <4>2, <4>3
    <3>2. ASSUME NEW t \in Procs, NEW q \in Procs, NEW r \in Procs,
                 q \in Members(t)', r \in Members(t)', slot'[q] = slot'[r]
          PROVE  q = r
      <4>1. CASE t = f
        <5>1. q \in Members(f) \cup {c} /\ r \in Members(f) \cup {c} /\ c \notin Members(f)
          <6>1. c \notin Members(f)
            BY <2>7, MemoryAssumption DEF Members, Alive, None, Procs
          <6>2. QED
            BY <2>9, <3>2, <4>1, <6>1
        <5>2. \A x \in Members(f) : slot'[x] = slot[x] /\ slot[x] # s
          BY <2>8, <3>1, <5>1 DEF Members
        <5>3. QED
          BY <2>3, <2>8, <3>2, <5>1, <5>2 DEF StacksApart
      <4>2. CASE t # f
        <5>1. q \in Members(t) /\ r \in Members(t)
          BY <2>9, <3>2, <4>2
        <5>2. Alive(q) /\ Alive(r)
          BY <5>1, MemoryAssumption DEF Members, Alive, None, Procs
        <5>3. slot[q] = slot[r]
          BY <2>7, <2>8, <3>2, <5>2
        <5>4. QED
          BY <2>3, <5>1, <5>3 DEF StacksApart
      <4>3. QED
        BY <4>1, <4>2
    <3>3. QED
      BY <3>2 DEF StacksApart
  <2>14. QED
    BY <2>10, <2>11, <2>12, <2>13 DEF SpaceInv
<1>3. QED
  BY <1>1, <1>2 DEF VFork

(* A stack that grows down to a page below it stays in its slot.            *)
LEMMA StackFaultSpace == ASSUME SpaceInv, NEW p \in Procs, StackFault(p) PROVE SpaceInv'
<1>1. PICK page \in Int : page \in FaultPages(p) /\
         LET r == MapRange(mapped[table[p]], taken, page, Low(p) - 1) IN
           /\ Install(table[p], r)
           /\ \/ r.ok /\ size' = [size EXCEPT ![p] = StackTop(slot[p]) - page]
                 /\ UNCHANGED mode
              \/ ~r.ok /\ Unserved
  <2>1. FaultPages(p) \subseteq Int
    BY DEF FaultPages
  <2>2. QED
    BY <2>1 DEF StackFault
<1>2. SpaceTypes /\ Unused /\ Furnished /\ StacksApart
  BY DEF SpaceInv
<1>3. UNCHANGED <<table, slot, exe, heapEnd, nextPid>> /\ Alive(p)
  BY DEF StackFault
<1>4. PICK f \in Procs : f = table[p]
  BY <1>2, <1>3 DEF SpaceTypes, Alive
<1>5. PICK top, low : top = StackTop(slot[p]) /\ low = Low(p)
  OBVIOUS
<1>6. /\ top \in Nat /\ low \in Nat /\ page \in Int /\ SlotPages \in Nat
      /\ top - SlotPages <= page /\ page < low /\ low <= top
  <2>1. /\ top \in Nat /\ low \in Nat /\ SlotPages \in Nat /\ low <= top
    BY <1>2, <1>5, StackInSlot, MemoryAssumption
  <2>2. page \in (top - SlotPages)..(low - 1)
    BY <1>1, <1>5 DEF FaultPages
  <2>3. QED
    BY <2>1, <2>2
<1>7. PICK r : r = MapRange(mapped[f], taken, page, low - 1)
  OBVIOUS
<1>8. mapped[f] \subseteq r.pages /\ (r.ok => page..(low - 1) \subseteq r.pages)
  <2>1. PICK b \in Int : b = low - 1
    BY <1>6
  <2>2. mapped[f] \subseteq r.pages
    BY <1>7, <2>1, MapRangeFacts
  <2>3. r.ok => r.pages = mapped[f] \cup page..b
    BY <1>7, <2>1, MapRangeFacts
  <2>4. QED
    BY <2>1, <2>2, <2>3
<1>9. mapped' = [mapped EXCEPT ![f] = r.pages]
  BY <1>1, <1>4, <1>5, <1>7 DEF Install
<1>10. CASE UNCHANGED size
  BY <1>3, <1>8, <1>9, <1>10, SpaceGrown
<1>11. CASE r.ok /\ size' = [size EXCEPT ![p] = top - page]
  <2>1. SpaceTypes'
    <3>1. top - page \in 0..SlotPages
      BY <1>6
    <3>2. size' \in [Procs -> 0..SlotPages]
      BY <1>2, <1>11, <3>1 DEF SpaceTypes
    <3>3. mapped' = [t \in Procs |-> mapped'[t]]
      BY <1>2, <1>9 DEF SpaceTypes
    <3>4. QED
      BY <1>2, <1>3, <3>2, <3>3 DEF SpaceTypes
  <2>2. Unused'
    BY <1>2, <1>3 DEF Unused, Alive, Members
  <2>3. Furnished'
    <3> SUFFICES ASSUME NEW q \in Procs, Alive(q)
                 PROVE  /\ CodeIn(exe[table[q]], mapped'[table[q]])
                        /\ HeapIn(heapEnd[table[q]], mapped'[table[q]])
                        /\ StackIn(slot[q], size'[q], mapped'[table[q]])
      BY <1>3 DEF Furnished, Alive
    <3>1. mapped[table[q]] \subseteq mapped'[table[q]]
      BY <1>2, <1>8, <1>9 DEF SpaceTypes, Alive
    <3>2. /\ CodeIn(exe[table[q]], mapped'[table[q]])
          /\ HeapIn(heapEnd[table[q]], mapped'[table[q]])
          /\ StackIn(slot[q], size[q], mapped'[table[q]])
      <4>1. /\ CodeIn(exe[table[q]], mapped[table[q]])
            /\ HeapIn(heapEnd[table[q]], mapped[table[q]])
            /\ StackIn(slot[q], size[q], mapped[table[q]])
        BY <1>2 DEF Furnished
      <4>2. QED
        BY <3>1, <4>1, MoreMapped
    <3>3. CASE q # p
      <4>1. size'[q] = size[q]
        BY <1>2, <1>11, <3>3 DEF SpaceTypes
      <4>2. QED
        BY <3>2, <4>1
    <3>4. CASE q = p
      <4>1. size'[q] = top - page /\ mapped'[f] = r.pages
        BY <1>2, <1>9, <1>11, <3>4 DEF SpaceTypes
      <4>2. (top - size[p])..(top - 1) \subseteq r.pages /\ low = top - size[p]
        BY <1>4, <1>5, <3>2, <3>4, <4>1 DEF StackIn, Low
      <4>3. ASSUME NEW x \in (top - (top - page))..(top - 1) PROVE x \in r.pages
        <5>1. x \in page..(low - 1) \/ x \in low..(top - 1)
          BY <1>6
        <5>2. QED
          BY <1>8, <1>11, <4>2, <5>1
      <4>4. top - page >= 1
        BY <1>6
      <4>5. StackIn(slot[p], top - page, r.pages)
        BY <1>5, <4>3, <4>4 DEF StackIn
      <4>6. QED
        BY <1>4, <3>2, <3>4, <4>1, <4>5
    <3>5. QED
      BY <3>3, <3>4
  <2>4. StacksApart'
    BY <1>2, <1>3 DEF StacksApart, Members
  <2>5. QED
    BY <2>1, <2>2, <2>3, <2>4 DEF SpaceInv
<1>12. QED
  BY <1>1, <1>4, <1>5, <1>7, <1>10, <1>11 DEF Unserved

(* Pages below the heap and above it: the code and the stacks.              *)
LEMMA OutsideHeap ==
    ASSUME SpaceTypes, NEW p \in Procs, Alive(p), NEW m, NEW n,
           \A x \in m : x \in Nat /\ (x < HeapBase \/ x >= StackBase) => x \in n
    PROVE  /\ CodeIn(exe[table[p]], m) => CodeIn(exe[table[p]], n)
           /\ StackIn(slot[p], size[p], m) => StackIn(slot[p], size[p], n)
<1>1. exe[table[p]] \in Executables \cup {<<>>}
  BY DEF SpaceTypes, Alive
<1>2. \A a \in Linked(exe[table[p]]) : PageOf(a) \in Nat /\ PageOf(a) < HeapBase
  BY <1>1, CodeBelow
<1>3. CodeIn(exe[table[p]], m) => CodeIn(exe[table[p]], n)
  BY <1>2 DEF CodeIn
<1>4. PICK low \in Nat, top \in Nat : low = StackTop(slot[p]) - size[p] /\ top = StackTop(slot[p])
  BY StackInSlot DEF Low
<1>5. StackBase <= low /\ StackBase \in Nat
  BY <1>4, StackInSlot, Layout, MemoryAssumption DEF Low
<1>6. \A x \in low..(top - 1) : x \in Nat /\ x >= StackBase
  BY <1>4, <1>5
<1>7. low..(top - 1) \subseteq m => low..(top - 1) \subseteq n
  BY <1>6
<1>8. QED
  BY <1>3, <1>4, <1>7 DEF StackIn

(* A heap with a new end, and its pages: the code and the stacks are not    *)
(* touched.                                                                 *)
LEMMA HeapMoved ==
    ASSUME SpaceInv, UNCHANGED <<table, slot, size, exe, nextPid>>,
           NEW t \in Procs, Members(t) # {}, NEW n, NEW e \in BrkEnds, HeapIn(e, n),
           \A x \in mapped[t] : x \in Nat /\ (x < HeapBase \/ x >= StackBase) => x \in n,
           mapped' = [mapped EXCEPT ![t] = n], heapEnd' = [heapEnd EXCEPT ![t] = e]
    PROVE  SpaceInv'
<1>1. SpaceTypes /\ Unused /\ Furnished /\ StacksApart
  BY DEF SpaceInv
<1>2. SpaceTypes'
  <2>1. heapEnd' \in [Procs -> BrkEnds] /\ mapped' = [x \in Procs |-> mapped'[x]]
    BY <1>1 DEF SpaceTypes
  <2>2. QED
    BY <1>1, <2>1 DEF SpaceTypes
<1>3. Unused'
  <2>1. \A x \in Procs : Members(x)' = Members(x) /\ (x # t => heapEnd'[x] = heapEnd[x])
    BY <1>1 DEF SpaceTypes, Members
  <2>2. \A x \in Procs : Members(x)' = {} => heapEnd'[x] = 0
    BY <1>1, <2>1 DEF Unused
  <2>3. QED
    BY <1>1, <2>2 DEF Unused, Alive
<1>4. Furnished'
  <2> SUFFICES ASSUME NEW q \in Procs, Alive(q)
               PROVE  /\ CodeIn(exe[table[q]], mapped'[table[q]])
                      /\ HeapIn(heapEnd'[table[q]], mapped'[table[q]])
                      /\ StackIn(slot[q], size[q], mapped'[table[q]])
    BY DEF Furnished, Alive
  <2>1. /\ CodeIn(exe[table[q]], mapped[table[q]])
        /\ HeapIn(heapEnd[table[q]], mapped[table[q]])
        /\ StackIn(slot[q], size[q], mapped[table[q]])
    BY <1>1 DEF Furnished
  <2>2. CASE table[q] = t
    <3>1. mapped'[t] = n /\ heapEnd'[t] = e
      BY <1>1 DEF SpaceTypes
    <3>2. CodeIn(exe[table[q]], n) /\ StackIn(slot[q], size[q], n)
      BY <1>1, <2>1, <2>2, OutsideHeap
    <3>3. QED
      BY <2>2, <3>1, <3>2
  <2>3. CASE table[q] # t
    <3>1. mapped'[table[q]] = mapped[table[q]] /\ heapEnd'[table[q]] = heapEnd[table[q]]
      BY <1>1, <2>3 DEF SpaceTypes, Alive
    <3>2. QED
      BY <2>1, <3>1
  <2>4. QED
    BY <2>2, <2>3
<1>5. StacksApart'
  BY <1>1 DEF StacksApart, Members
<1>6. QED
  BY <1>2, <1>3, <1>4, <1>5 DEF SpaceInv

(* brk: a heap that shrinks has all its pages, so nothing stops it; one     *)
(* that does not grow all the way keeps its end, and its pages.             *)
LEMMA BrkSpace == ASSUME SpaceInv, NEW p \in Procs, Brk(p) PROVE SpaceInv'
<1>1. PICK e \in BrkEnds :
         LET t == table[p]
             r == IF EndPage(e) < EndPage(heapEnd[t]) THEN Shrunk(t, e) ELSE Grown(t, e)
         IN  /\ e # heapEnd[t]
             /\ Install(t, r)
             /\ IF r.ok THEN heapEnd' = [heapEnd EXCEPT ![t] = e] ELSE UNCHANGED heapEnd
  BY DEF Brk
<1>2. SpaceTypes /\ Unused /\ Furnished /\ StacksApart
  BY DEF SpaceInv
<1>3. UNCHANGED <<table, slot, size, exe, nextPid>> /\ Alive(p)
  BY DEF Brk
<1>4. PICK t \in Procs : t = table[p]
  BY <1>2, <1>3 DEF SpaceTypes, Alive
<1>5. Members(t) # {}
  BY <1>4 DEF Members
<1>6. PICK h \in BrkEnds : h = heapEnd[t]
  BY <1>2 DEF SpaceTypes
<1>7. PICK base \in Nat, top \in Nat, x \in Nat, y \in Nat :
         base = HeapBase /\ top = StackBase /\ x = EndPage(e) /\ y = EndPage(h)
  BY HeapBelow, Layout
<1>8. base <= x /\ x <= top /\ base <= y /\ y <= top
  BY <1>7, HeapBelow
<1>9. base..(y - 1) \subseteq mapped[t]
  BY <1>2, <1>3, <1>4, <1>6, <1>7 DEF Furnished, HeapIn
<1>10. CASE x < y
  <2>1. PICK b \in Int : b = y - 1
    OBVIOUS
  <2>2. PICK r : r = UnmapRange(mapped[t], taken, x, b)
    OBVIOUS
  <2>3. x..b \subseteq mapped[t]
    BY <1>8, <1>9, <2>1
  <2>4. r.ok
    BY <2>2, <2>3, UnmapRangeFacts
  <2>5. \A z \in mapped[t] : z \notin x..b => z \in r.pages
    BY <2>2, UnmapRangeFacts
  <2>6. r = Shrunk(t, e) /\ EndPage(e) < EndPage(heapEnd[t])
    BY <1>6, <1>7, <1>10, <2>1, <2>2 DEF Shrunk
  <2>7. mapped' = [mapped EXCEPT ![t] = r.pages] /\ heapEnd' = [heapEnd EXCEPT ![t] = e]
    BY <1>1, <1>4, <2>4, <2>6 DEF Install
  <2>8. HeapIn(e, r.pages)
    <3>1. \A z \in base..(x - 1) : z \in base..(y - 1) /\ z \notin x..b
      BY <1>10, <2>1
    <3>2. base..(x - 1) \subseteq r.pages
      BY <1>9, <2>5, <3>1
    <3>3. QED
      BY <1>7, <3>2 DEF HeapIn
  <2>9. \A z \in mapped[t] : z \in Nat /\ (z < HeapBase \/ z >= StackBase) => z \in r.pages
    <3>1. \A z \in Nat : z < base \/ z >= top => z \notin x..b
      BY <1>8, <2>1
    <3>2. QED
      BY <1>7, <2>5, <3>1
  <2>10. QED
    BY <1>3, <1>5, <2>7, <2>8, <2>9, HeapMoved
<1>11. CASE ~(x < y)
  <2>1. PICK b \in Int : b = x - 1
    OBVIOUS
  <2>2. PICK r : r = MapRange(mapped[t], taken, y, b)
    OBVIOUS
  <2>3. mapped[t] \subseteq r.pages
    BY <2>2, MapRangeFacts
  <2>4. r.ok => y..b \subseteq r.pages
    <3>1. r.ok => r.pages = mapped[t] \cup y..b
      BY <2>2, MapRangeFacts
    <3>2. QED
      BY <3>1
  <2>5. r = Grown(t, e) /\ ~(EndPage(e) < EndPage(heapEnd[t]))
    BY <1>6, <1>7, <1>11, <2>1, <2>2 DEF Grown
  <2>6. /\ mapped' = [mapped EXCEPT ![t] = r.pages]
        /\ IF r.ok THEN heapEnd' = [heapEnd EXCEPT ![t] = e] ELSE UNCHANGED heapEnd
    BY <1>1, <1>4, <2>5 DEF Install
  <2>7. CASE ~r.ok
    BY <1>3, <2>3, <2>6, <2>7, SpaceGrown
  <2>8. CASE r.ok
    <3>1. \A z \in base..(x - 1) : z \in base..(y - 1) \/ z \in y..b
      BY <1>11, <2>1
    <3>2. HeapIn(e, r.pages)
      BY <1>7, <1>9, <2>3, <2>4, <2>8, <3>1 DEF HeapIn
    <3>3. QED
      BY <1>3, <1>5, <2>3, <2>6, <2>8, <3>2, HeapMoved
  <2>9. QED
    BY <2>7, <2>8
<1>12. QED
  BY <1>10, <1>11

(* kill: only the stack of a process goes with it while another uses its    *)
(* page table, and that stack is nobody else's.                             *)
LEMMA KillSpace == ASSUME SpaceInv, NEW p \in Procs, Kill(p) PROVE SpaceInv'
<1>1. SpaceTypes /\ Unused /\ Furnished /\ StacksApart
  BY DEF SpaceInv
<1>2. /\ Alive(p) /\ UNCHANGED nextPid
      /\ table' = [table EXCEPT ![p] = None] /\ slot' = [slot EXCEPT ![p] = 0]
      /\ size' = [size EXCEPT ![p] = 0]
  BY DEF Kill
<1>3. PICK t \in Procs : t = table[p]
  BY <1>1, <1>2 DEF SpaceTypes, Alive
<1>4. PICK n : n = CleanUp(p).pages
  OBVIOUS
<1>5. /\ mapped' = [mapped EXCEPT ![t] = n]
      /\ exe' = IF IsLast(p) THEN [exe EXCEPT ![t] = <<>>] ELSE exe
      /\ heapEnd' = IF IsLast(p) THEN [heapEnd EXCEPT ![t] = 0] ELSE heapEnd
  BY <1>3, <1>4 DEF Kill, Install
<1>6. /\ table'[p] = None /\ slot'[p] = 0
      /\ \A q \in Procs \ {p} : /\ table'[q] = table[q] /\ slot'[q] = slot[q]
                                /\ size'[q] = size[q]
  BY <1>1, <1>2 DEF SpaceTypes
<1>7. \A q \in Procs \ {t} : mapped'[q] = mapped[q] /\ exe'[q] = exe[q] /\ heapEnd'[q] = heapEnd[q]
  BY <1>1, <1>5 DEF SpaceTypes
<1>8. \A x \in Procs : Members(x)' = Members(x) \ {p}
  <2>1. None \notin Procs
    BY MemoryAssumption DEF None, Procs
  <2>2. QED
    BY <1>6, <2>1 DEF Members
<1>9. SpaceTypes'
  <2>1. table' \in [Procs -> Procs \cup {None}] /\ exe' \in [Procs -> Executables \cup {<<>>}]
    BY <1>1, <1>2, <1>5 DEF SpaceTypes
  <2>2. slot' \in [Procs -> 0..(Slots - 1)] /\ size' \in [Procs -> 0..SlotPages]
    <3>1. 0 \in 0..(Slots - 1) /\ 0 \in 0..SlotPages
      BY MemoryAssumption
    <3>2. QED
      BY <1>1, <1>2, <3>1 DEF SpaceTypes
  <2>3. heapEnd' \in [Procs -> BrkEnds]
    <3>1. 0 \in BrkEnds
      BY MemoryAssumption DEF BrkEnds
    <3>2. QED
      BY <1>1, <1>5, <3>1 DEF SpaceTypes
  <2>4. mapped' = [x \in Procs |-> mapped'[x]]
    BY <1>1, <1>5 DEF SpaceTypes
  <2>5. QED
    BY <1>1, <1>2, <2>1, <2>2, <2>3, <2>4 DEF SpaceTypes
<1>10. Unused'
  <2>1. \A q \in Procs : Alive(q)' => q < nextPid' /\ table'[q] < nextPid'
    <3>1. \A q \in Procs : table'[q] # None => q # p /\ table'[q] = table[q]
      BY <1>6
    <3>2. QED
      BY <1>1, <1>2, <3>1 DEF Unused, Alive
  <2>2. \A q \in Procs : ~Alive(q)' => slot'[q] = 0
    BY <1>1, <1>6 DEF Unused, Alive
  <2>3. \A x \in Procs : Members(x)' = {} => heapEnd'[x] = 0
    <3> SUFFICES ASSUME NEW x \in Procs, Members(x)' = {} PROVE heapEnd'[x] = 0
      OBVIOUS
    <3>1. CASE x = t
      <4>1. IsLast(p)
        BY <1>3, <1>8, <3>1 DEF IsLast, Members
      <4>2. QED
        BY <1>1, <1>5, <3>1, <4>1 DEF SpaceTypes
    <3>2. CASE x # t
      <4>1. Members(x) = {}
        BY <1>3, <1>8, <3>2 DEF Members
      <4>2. QED
        BY <1>1, <1>7, <3>2, <4>1 DEF Unused
    <3>3. QED
      BY <3>1, <3>2
  <2>4. QED
    BY <2>1, <2>2, <2>3 DEF Unused
<1>11. Furnished'
  <2> SUFFICES ASSUME NEW q \in Procs, table'[q] # None
               PROVE  /\ CodeIn(exe'[table'[q]], mapped'[table'[q]])
                      /\ HeapIn(heapEnd'[table'[q]], mapped'[table'[q]])
                      /\ StackIn(slot'[q], size'[q], mapped'[table'[q]])
    BY DEF Furnished, Alive
  <2>1. q # p /\ table'[q] = table[q] /\ slot'[q] = slot[q] /\ size'[q] = size[q] /\ Alive(q)
    BY <1>6 DEF Alive
  <2>2. /\ CodeIn(exe[table[q]], mapped[table[q]])
        /\ HeapIn(heapEnd[table[q]], mapped[table[q]])
        /\ StackIn(slot[q], size[q], mapped[table[q]])
    BY <1>1, <2>1 DEF Furnished
  <2>3. CASE table[q] # t
    <3>1. table[q] \in Procs \ {t}
      BY <1>1, <2>1, <2>3 DEF SpaceTypes, Alive
    <3>2. QED
      BY <1>7, <2>1, <2>2, <3>1
  <2>4. CASE table[q] = t
    <3>1. ~IsLast(p)
      BY <1>3, <2>1, <2>4 DEF IsLast, Members
    <3>2. n = StackGone(p).pages /\ exe' = exe /\ heapEnd' = heapEnd /\ mapped'[t] = n
      BY <1>1, <1>4, <1>5, <3>1 DEF CleanUp, SpaceTypes
    <3>3. PICK low \in Nat, b \in Int : low = Low(p) /\ b = StackTop(slot[p]) - 1
      BY <1>1, StackInSlot
    <3>4. \A x \in mapped[t] : x \notin low..b => x \in n
      BY <1>3, <3>2, <3>3, UnmapRangeFacts DEF StackGone
    <3>5. StackBase <= low /\ StackBase \in Nat
      BY <1>1, <3>3, StackInSlot, Layout, MemoryAssumption
    <3>6. CodeIn(exe[t], n)
      <4>1. \A x \in mapped[t] : x \in Nat /\ x < StackBase => x \in n
        BY <3>4, <3>5
      <4>2. exe[t] \in Executables \cup {<<>>}
        BY <1>1 DEF SpaceTypes
      <4>3. \A a \in Linked(exe[t]) : PageOf(a) \in Nat /\ PageOf(a) < HeapBase
        BY <4>2, CodeBelow
      <4>4. HeapBase <= StackBase /\ HeapBase \in Nat /\ StackBase \in Nat
        BY Layout, MemoryAssumption
      <4>5. \A a \in Linked(exe[t]) : PageOf(a) < StackBase
        BY <4>3, <4>4
      <4>6. QED
        BY <2>2, <2>4, <4>1, <4>3, <4>5 DEF CodeIn
    <3>7. HeapIn(heapEnd[t], n)
      <4>1. PICK y \in Nat : y = EndPage(heapEnd[t]) /\ y <= StackBase
        BY <1>1, HeapBelow DEF SpaceTypes
      <4>2. HeapBase \in Nat
        BY Layout
      <4>3. \A x \in HeapBase..(y - 1) : x \notin low..b
        BY <3>5, <4>1, <4>2
      <4>4. HeapBase..(y - 1) \subseteq mapped[t]
        BY <2>2, <2>4, <4>1 DEF HeapIn
      <4>5. HeapBase..(y - 1) \subseteq n
        BY <3>4, <4>3, <4>4
      <4>6. QED
        BY <4>1, <4>5 DEF HeapIn
    <3>8. StackIn(slot[q], size[q], n)
      <4>1. slot[q] # slot[p]
        BY <1>1, <1>3, <2>1, <2>4 DEF StacksApart, Members
      <4>2. PICK top \in Nat, k \in Nat : top = StackTop(slot[q]) /\ k = size[q]
        BY <1>1, StackInSlot
      <4>3. \A x \in (top - k)..(top - 1) : x \notin low..b
        <5>1. /\ slot[p] \in 0..(Slots - 1) /\ slot[q] \in 0..(Slots - 1)
              /\ SlotPages \in Nat /\ k <= SlotPages
          BY <1>1, <4>2, MemoryAssumption DEF SpaceTypes
        <5>2. PICK end \in Nat : end = StackTop(slot[p])
          BY <1>1, StackInSlot
        <5>3. end - SlotPages <= low /\ b = end - 1
          BY <1>1, <3>3, <5>2, StackInSlot
        <5>4. end <= top - SlotPages \/ top <= end - SlotPages
          <6>1. slot[p] < slot[q] \/ slot[q] < slot[p]
            BY <4>1, <5>1
          <6>2. QED
            BY <4>2, <5>1, <5>2, <6>1, Layout
        <5>5. QED
          BY <5>1, <5>3, <5>4
      <4>4. QED
        BY <2>2, <2>4, <3>4, <4>2, <4>3 DEF StackIn
    <3>9. QED
      BY <2>1, <2>4, <3>2, <3>6, <3>7, <3>8
  <2>5. QED
    BY <2>3, <2>4
<1>12. StacksApart'
  <2>1. \A x \in Procs : \A q \in Members(x)' : q \in Members(x) /\ slot'[q] = slot[q]
    BY <1>6, <1>8 DEF Members
  <2>2. QED
    BY <1>1, <2>1 DEF StacksApart
<1>13. QED
  BY <1>9, <1>10, <1>11, <1>12 DEF SpaceInv

LEMMA InitSpace == Init => SpaceInv
<1> SUFFICES ASSUME Init PROVE SpaceInv
  OBVIOUS
<1>1. \A p \in Procs : ~Alive(p) /\ Members(p) = {}
  BY MemoryAssumption DEF Init, Alive, Members, None, Procs
<1>2. SpaceTypes
  <2>1. 0 \in 0..(Slots - 1) /\ 0 \in 0..SlotPages /\ 0 \in BrkEnds
    BY MemoryAssumption DEF BrkEnds
  <2>2. QED
    BY <2>1 DEF Init, SpaceTypes
<1>3. Unused
  BY <1>1 DEF Init, Unused
<1>4. Furnished /\ StacksApart
  BY <1>1 DEF Furnished, StacksApart
<1>5. QED
  BY <1>2, <1>3, <1>4 DEF SpaceInv

(* The invariant of the memory of families: what a living process may use   *)
(* is mapped, and no two of a family have the same slot.                    *)
THEOREM SpaceInvariant == Spec => []SpaceInv
<1>1. SpaceInv /\ [Next]_vars => SpaceInv'
  <2> SUFFICES ASSUME SpaceInv, [Next]_vars PROVE SpaceInv'
    OBVIOUS
  <2>1. ASSUME NEW elf \in Executables, Spawn(elf) PROVE SpaceInv'
    BY <2>1, SpawnSpace
  <2>2. ASSUME NEW p \in Procs, VFork(p) PROVE SpaceInv'
    BY <2>2, VForkSpace
  <2>3. ASSUME NEW p \in Procs, StackFault(p) PROVE SpaceInv'
    BY <2>3, StackFaultSpace
  <2>4. ASSUME NEW p \in Procs, Brk(p) PROVE SpaceInv'
    BY <2>4, BrkSpace
  <2>5. ASSUME NEW p \in Procs, Kill(p) PROVE SpaceInv'
    BY <2>5, KillSpace
  <2>6. CASE UNCHANGED vars
    BY <2>6, SpaceKept DEF vars
  <2>7. QED
    BY <2>1, <2>2, <2>3, <2>4, <2>5, <2>6 DEF Next
<1>2. QED
  BY <1>1, InitSpace, PTL DEF Spec

(* Two living processes of a family never share a stack slot, whatever      *)
(* children have exited when a vfork counts them (stack.rs:112-148).        *)
THEOREM StacksStayApart == Spec => []StacksApart
<1>1. SpaceInv => StacksApart
  BY DEF SpaceInv
<1>2. QED
  BY <1>1, SpaceInvariant, PTL

(* A living process keeps its stack, the code and the heap mapped, whatever *)
(* the others of its family do and whatever fails half way (vm/mod.rs:      *)
(* 157-189, heap.rs:90-104, stack.rs:119-128).                              *)
THEOREM PagesStayMapped == Spec => []OwnPagesMapped
<1>1. SpaceInv => OwnPagesMapped
  <2> SUFFICES ASSUME SpaceInv, NEW p \in Procs, Alive(p)
               PROVE  {PageOf(a) : a \in Linked(exe[table[p]])}
                          \cup (HeapBase..(EndPage(heapEnd[table[p]]) - 1))
                          \cup (Low(p)..(StackTop(slot[p]) - 1)) \subseteq mapped[table[p]]
    BY DEF OwnPagesMapped
  <2>1. /\ CodeIn(exe[table[p]], mapped[table[p]])
        /\ HeapIn(heapEnd[table[p]], mapped[table[p]])
        /\ StackIn(slot[p], size[p], mapped[table[p]])
    BY DEF SpaceInv, Furnished
  <2>2. {PageOf(a) : a \in Linked(exe[table[p]])} \subseteq mapped[table[p]]
    BY <2>1 DEF CodeIn
  <2>3. QED
    BY <2>1, <2>2 DEF HeapIn, StackIn, Low
<1>2. QED
  BY <1>1, SpaceInvariant, PTL

-----------------------------------------------------------------------------
(* Sums over the page tables, as SumFunction adds them up: one chosen       *)
(* member less at a time.                                                   *)
OneOf(s) == CHOOSE x \in s : TRUE

SumBody(u, s, f) == IF s = {} THEN 0 ELSE u[OneOf(s)] + f[s \ {OneOf(s)}]

Small(S, n) == {s \in SUBSET S : Cardinality(s) <= n}

Adds(u, S, n, f) == f = [s \in Small(S, n) |-> SumBody(u, s, f)]

(* A part of a finite set, and that part without its chosen element.        *)
LEMMA OneLess ==
    ASSUME NEW S, IsFiniteSet(S), NEW s \in SUBSET S
    PROVE  /\ IsFiniteSet(s) /\ Cardinality(s) \in Nat
           /\ s # {} => /\ OneOf(s) \in s /\ s \ {OneOf(s)} \in SUBSET S
                        /\ Cardinality(s \ {OneOf(s)}) = Cardinality(s) - 1
<1>1. IsFiniteSet(s) /\ Cardinality(s) \in Nat
  BY FS_Subset, FS_CardinalityType
<1>2. s # {} => OneOf(s) \in s
  BY DEF OneOf
<1>3. QED
  BY <1>1, <1>2, FS_RemoveElement

(* The sum is well defined, by induction on the number of summands.         *)
LEMMA AddsExists ==
    ASSUME NEW u, NEW S, IsFiniteSet(S)
    PROVE  \A n \in Nat : \E f : Adds(u, S, n, f)
<1> DEFINE T == {n \in Nat : ~ \E f : Adds(u, S, n, f)}
<1> SUFFICES ASSUME T # {} PROVE FALSE
  OBVIOUS
<1>1. PICK n \in T : \A k \in T : n <= k
  BY LeastNumber
<1>2. n \in Nat /\ ~ \E f : Adds(u, S, n, f)
  OBVIOUS
<1>sizes. \A s \in SUBSET S : Cardinality(s) \in Nat
  BY OneLess
<1>3. \E f : \A s \in SUBSET S : Cardinality(s) < n => f[s] = SumBody(u, s, f)
  <2>1. CASE n = 0
    <3>1. \A s \in SUBSET S : ~(Cardinality(s) < n)
      BY <1>sizes, <2>1
    <3>2. QED
      BY <3>1
  <2>2. CASE n # 0
    <3>1. n - 1 \in Nat /\ n - 1 \notin T
      BY <1>1, <1>2, <2>2
    <3>2. PICK f : Adds(u, S, n - 1, f)
      BY <3>1
    <3>3. \A s \in Small(S, n - 1) : f[s] = SumBody(u, s, f)
      BY <3>2 DEF Adds
    <3>4. \A s \in SUBSET S : Cardinality(s) < n => s \in Small(S, n - 1)
      BY <1>2, <1>sizes DEF Small
    <3>5. QED
      BY <3>3, <3>4
  <2>3. QED
    BY <2>1, <2>2
<1>4. PICK f : \A s \in SUBSET S : Cardinality(s) < n => f[s] = SumBody(u, s, f)
  BY <1>3
<1> DEFINE g == [s \in Small(S, n) |-> IF Cardinality(s) < n THEN f[s] ELSE SumBody(u, s, f)]
<1>5. \A s \in Small(S, n) : g[s] = SumBody(u, s, g)
  <2> SUFFICES ASSUME NEW s \in Small(S, n) PROVE g[s] = SumBody(u, s, g)
    OBVIOUS
  <2>1. s \in SUBSET S /\ Cardinality(s) <= n
    BY DEF Small
  <2>2. g[s] = SumBody(u, s, f)
    BY <1>4, <2>1
  <2>3. s # {} => g[s \ {OneOf(s)}] = f[s \ {OneOf(s)}]
    <3> SUFFICES ASSUME s # {} PROVE g[s \ {OneOf(s)}] = f[s \ {OneOf(s)}]
      OBVIOUS
    <3>1. PICK r : r = s \ {OneOf(s)}
      OBVIOUS
    <3>2. r \in SUBSET S /\ Cardinality(r) < n
      BY <1>2, <2>1, <3>1, OneLess
    <3>3. r \in Small(S, n)
      BY <1>2, <1>sizes, <3>2 DEF Small
    <3>4. g[r] = f[r]
      BY <3>2, <3>3
    <3>5. QED
      BY <3>1, <3>4
  <2> HIDE DEF g
  <2>4. QED
    BY <2>2, <2>3 DEF SumBody
<1>6. g = [s \in Small(S, n) |-> SumBody(u, s, g)]
  <2>1. g = [s \in Small(S, n) |-> g[s]]
    OBVIOUS
  <2> HIDE DEF g
  <2>2. QED
    BY <1>5, <2>1
<1>7. Adds(u, S, n, g)
  <2> HIDE DEF g
  <2>1. QED
    BY <1>6 DEF Adds
<1>8. QED
  BY <1>2, <1>7

(* So the sum of u is a partial sum like those of its parts.                *)
LEMMA SumSteps ==
    ASSUME NEW u, IsFiniteSet(DOMAIN u)
    PROVE  \E f : /\ SumFunction(u) = f[DOMAIN u]
                  /\ \A s \in SUBSET DOMAIN u : f[s] = SumBody(u, s, f)
<1> DEFINE S == DOMAIN u
           body(f) == [s \in SUBSET S |-> SumBody(u, s, f)]
<1>1. PICK f : f = CHOOSE g : g = body(g)
  OBVIOUS
<1>2. SumFunction(u) = f[S]
  BY <1>1 DEF SumFunction, SumFunctionOnSet, FoldFunctionOnSet, MapThenFoldSet, SumBody, OneOf
<1>3. f = body(f)
  <2>1. Cardinality(S) \in Nat
    BY FS_CardinalityType
  <2>2. PICK g : Adds(u, S, Cardinality(S), g)
    BY <2>1, AddsExists
  <2>3. Small(S, Cardinality(S)) = SUBSET S
    BY FS_Subset DEF Small
  <2>4. g = body(g)
    BY <2>2, <2>3 DEF Adds
  <2> HIDE DEF body
  <2>5. QED
    BY <1>1, <2>4
<1>4. \A s \in SUBSET S : f[s] = SumBody(u, s, f)
  BY <1>3
<1>5. QED
  BY <1>2, <1>4

(* A sum changes by as much as its one changed summand.                     *)
LEMMA SumChanges ==
    ASSUME NEW S, IsFiniteSet(S), NEW u \in [S -> Nat], NEW v \in [S -> Nat], NEW t \in S,
           \A x \in S \ {t} : u[x] = v[x]
    PROVE  /\ SumFunction(u) \in Nat /\ SumFunction(v) \in Nat
           /\ SumFunction(v) - SumFunction(u) = v[t] - u[t]
<1>1. DOMAIN u = S /\ DOMAIN v = S
  OBVIOUS
<1>2. PICK f : SumFunction(u) = f[S] /\ \A s \in SUBSET S : f[s] = SumBody(u, s, f)
  BY <1>1, SumSteps
<1>3. PICK g : SumFunction(v) = g[S] /\ \A s \in SUBSET S : g[s] = SumBody(v, s, g)
  BY <1>1, SumSteps
<1>4. PICK d \in Int : d = v[t] - u[t]
  OBVIOUS
<1> DEFINE Good(s) == /\ f[s] \in Nat /\ g[s] \in Nat
                      /\ g[s] = f[s] + (IF t \in s THEN d ELSE 0)
           T == {n \in Nat : \E s \in SUBSET S : Cardinality(s) = n /\ ~Good(s)}
<1>5. T = {}
  <2> SUFFICES ASSUME T # {} PROVE FALSE
    OBVIOUS
  <2>1. PICK n \in T : \A k \in T : n <= k
    BY LeastNumber
  <2>2. PICK s \in SUBSET S : Cardinality(s) = n /\ ~Good(s)
    OBVIOUS
  <2>3. CASE s = {}
    <3>1. f[s] = 0 /\ g[s] = 0
      BY <1>2, <1>3, <2>3 DEF SumBody
    <3>2. QED
      BY <2>2, <2>3, <3>1
  <2>4. CASE s # {}
    <3>1. PICK x, r : x = OneOf(s) /\ r = s \ {OneOf(s)}
      OBVIOUS
    <3>2. x \in s /\ x \in S /\ r \in SUBSET S /\ Cardinality(r) = n - 1 /\ n \in Nat
      BY <2>2, <2>4, <3>1, OneLess
    <3>3. Good(r)
      <4>1. Cardinality(r) \in Nat
        BY <3>2, OneLess
      <4>2. n - 1 \notin T
        BY <2>1, <3>2
      <4>3. QED
        BY <3>2, <4>1, <4>2
    <3>4. f[s] = u[x] + f[r] /\ g[s] = v[x] + g[r]
      BY <1>2, <1>3, <2>4, <3>1 DEF SumBody
    <3>5. u[x] \in Nat /\ v[x] \in Nat
      BY <3>2
    <3>6. CASE x = t
      <4>1. t \in s /\ t \notin r /\ v[x] = u[x] + d
        BY <1>4, <3>1, <3>2, <3>5, <3>6
      <4>2. QED
        BY <2>2, <3>3, <3>4, <3>5, <4>1
    <3>7. CASE x # t
      <4>1. (t \in s <=> t \in r) /\ v[x] = u[x]
        BY <3>1, <3>2, <3>7
      <4>2. QED
        BY <2>2, <3>3, <3>4, <3>5, <4>1
    <3>8. QED
      BY <3>6, <3>7
  <2>5. QED
    BY <2>3, <2>4
<1>6. Good(S)
  <2>1. S \in SUBSET S /\ Cardinality(S) \in Nat
    BY FS_CardinalityType
  <2>2. QED
    BY <1>5, <2>1
<1>7. QED
  BY <1>2, <1>3, <1>4, <1>6

-----------------------------------------------------------------------------
(* Loading and unloading a segment.                                         *)
Image(r) == [pages |-> DOMAIN r.image, taken |-> r.taken]

(* load_segment takes a frame for every page it maps.                       *)
LEMMA LoadSegmentFrames ==
    ASSUME NEW r, NEW seg \in Segments, IsFiniteSet(DOMAIN r.image), r.taken \in Int
    PROVE  /\ Accounted(DOMAIN r.image, r.taken, Image(LoadSegment(r, seg)))
           /\ (r.taken <= Frames /\ LoadSegment(r, seg).ok) => LoadSegment(r, seg).taken <= Frames
<1>1. CASE ~r.ok \/ ~IsLoaded(seg)
  <2>1. LoadSegment(r, seg) = r
    BY <1>1 DEF LoadSegment
  <2>2. Cardinality(DOMAIN r.image) \in Nat
    BY FS_CardinalityType
  <2>3. QED
    BY <2>1, <2>2 DEF Accounted, Image
<1>2. CASE r.ok /\ IsLoaded(seg)
  <2>1. PICK x \in Nat, f \in Nat, e \in Nat : x = seg.addr /\ f = seg.file /\ e = seg.mem
    BY DEF Segments
  <2>2. PICK m, t : m = DOMAIN r.image /\ t = r.taken /\ IsFiniteSet(m) /\ t \in Int
    OBVIOUS
  <2>3. PICK a \in Int, b \in Int : a = PageOf(x) /\ b = PageOf(x + f - 1) /\ a <= b + 1
    <3>1. PageOf(x) \in Int /\ PageOf(x + f - 1) \in Int
      BY PageAssumption DEF PageOf
    <3>2. PageUp(x) = PageOf(x - 1) + 1
      BY PageFacts
    <3>3. PageOf(x) <= PageUp(x)
      BY PageAssumption DEF PageOf, PageUp
    <3>4. PageOf(x - 1) <= PageOf(x + f - 1)
      BY PageFacts
    <3>5. PageOf(x - 1) \in Int
      BY PageAssumption DEF PageOf
    <3>6. QED
      BY <3>1, <3>2, <3>3, <3>4, <3>5
  <2>4. PICK file, bss : file = MapRange(m, t, a, b) /\ bss = BssPages(seg) \ file.pages
    OBVIOUS
  <2>5. PICK q : q = Image(LoadSegment(r, seg))
    OBVIOUS
  <2>6. /\ q.pages = file.pages \cup bss /\ q.taken = file.taken + Cardinality(bss)
        /\ LoadSegment(r, seg).taken = q.taken
        /\ LoadSegment(r, seg).ok => q.taken <= Frames
    BY <1>2, <2>1, <2>2, <2>3, <2>4, <2>5 DEF LoadSegment, FirstPage, Image
  <2>7. Accounted(m, t, file)
    BY <2>2, <2>3, <2>4, MapRangeFrames
  <2>8. IsFiniteSet(bss) /\ Cardinality(bss) \in Nat
    <3>1. IsFiniteSet(BssPages(seg))
      <4>1. PageUp(x + f) \in Int /\ PageOf(x + e - 1) \in Int
        BY PageAssumption DEF PageUp, PageOf
      <4>2. IsFiniteSet(PageUp(x + f)..PageOf(x + e - 1))
        BY <4>1, FS_Interval
      <4>3. IsFiniteSet({})
        BY FS_EmptySet
      <4>4. QED
        BY <2>1, <4>2, <4>3 DEF BssPages, LastPage
    <3>2. QED
      BY <2>4, <3>1, FS_Difference, FS_CardinalityType
  <2>9. IsFiniteSet(file.pages) /\ Cardinality(file.pages) \in Nat
    BY <2>7, FS_CardinalityType DEF Accounted
  <2>10. IsFiniteSet(q.pages) /\ Cardinality(q.pages) = Cardinality(file.pages) + Cardinality(bss)
    <3>1. file.pages \cap bss = {}
      BY <2>4
    <3>2. QED
      BY <2>6, <2>8, <2>9, <3>1, JoinApart, ZenonT(60)
  <2>11. Accounted(m, t, q)
    BY <2>6, <2>7, <2>8, <2>9, <2>10 DEF Accounted
  <2>12. QED
    BY <2>2, <2>5, <2>6, <2>11
<1>3. QED
  BY <1>1, <1>2

(* An executable that loads takes a frame for every page of its image, and  *)
(* all of that lies below the heap.                                         *)
LEMMA LoadSegmentBelow ==
    ASSUME NEW r, NEW seg \in Segments, seg.file <= seg.mem,
           seg.addr + seg.mem <= CodePages * PageBytes, DOMAIN r.image \subseteq 0..(HeapBase - 1)
    PROVE  DOMAIN LoadSegment(r, seg).image \subseteq 0..(HeapBase - 1)
<1>1. CASE ~r.ok \/ ~IsLoaded(seg)
  BY <1>1 DEF LoadSegment
<1>2. CASE r.ok /\ IsLoaded(seg)
  <2>1. PICK x \in Nat, f \in Nat, e \in Nat : x = seg.addr /\ f = seg.file /\ e = seg.mem
    BY DEF Segments
  <2>2. PICK m : m = DOMAIN r.image
    OBVIOUS
  <2>3. PICK a \in Int, b \in Int, c \in Int, u \in Nat :
           a \in Nat /\ a = PageOf(x) /\ b = PageOf(x + f - 1) /\ c = PageOf(x + e - 1) /\ u = PageUp(x + f)
    <3>1. PageOf(x) \in Nat
      BY PageAssumption DEF PageOf
    <3>2. PageOf(x + f - 1) \in Int /\ PageOf(x + e - 1) \in Int
      BY PageAssumption DEF PageOf
    <3>3. PageUp(x + f) \in Nat
      BY PageAssumption DEF PageUp
    <3>4. QED
      BY <3>1, <3>2, <3>3
  <2>4. b <= c
    <3>1. PICK y \in Int, z \in Int : y = x + f - 1 /\ z = x + e - 1
      OBVIOUS
    <3>2. y <= z
      BY <2>1, <3>1
    <3>3. PageOf(y) <= PageOf(z)
      BY <3>2, PageFacts
    <3>4. QED
      BY <2>3, <3>1, <3>3
  <2>5. c <= HeapBase - 1
    <3>1. e > 0
      BY <1>2, <2>1 DEF IsLoaded
    <3>2. PICK y \in Nat : y = x + e - 1
      BY <3>1
    <3>3. CodePages \in Nat /\ CodePages * PageBytes \in Nat
      BY MemoryAssumption, PageAssumption
    <3>4. y < CodePages * PageBytes
      BY <2>1, <3>2, <3>3
    <3>5. PageOf(y) < CodePages /\ PageOf(y) \in Nat
      BY <3>2, <3>3, <3>4, PageBelow, PageFacts
    <3>6. QED
      BY <2>3, <3>2, <3>3, <3>5 DEF HeapBase
  <2>6. PICK t : t = r.taken
    OBVIOUS
  <2>7. PICK file : file = MapRange(m, t, a, b)
    OBVIOUS
  <2>8. DOMAIN LoadSegment(r, seg).image \subseteq file.pages \cup (u..c)
    BY <1>2, <2>1, <2>2, <2>3, <2>6, <2>7 DEF LoadSegment, FirstPage, BssPages, LastPage
  <2>9. file.pages \subseteq m \cup (a..b)
    BY <2>7, MapRangeFacts
  <2>10. (a..b) \subseteq 0..(HeapBase - 1) /\ (u..c) \subseteq 0..(HeapBase - 1)
    <3>1. HeapBase \in Nat
      BY Layout
    <3>2. QED
      BY <2>3, <2>4, <2>5, <3>1
  <2>11. QED
    BY <2>2, <2>8, <2>9, <2>10
<1>3. QED
  BY <1>1, <1>2

(* So does load_elf, and it maps nothing beyond the code.                   *)
LEMMA LoadElfFrames ==
    ASSUME NEW elf \in Executables, NEW t \in Int
    PROVE  /\ Accounted({}, t, Image(LoadElf(elf, t)))
           /\ DOMAIN LoadElf(elf, t).image \subseteq 0..(HeapBase - 1)
           /\ (t <= Frames /\ LoadElf(elf, t).ok) => LoadElf(elf, t).taken <= Frames
<1>1. PICK n \in Nat : n = Len(elf)
  BY LinkerAssumption
<1>2. /\ DOMAIN elf = 1..n
      /\ \A i \in 1..n : elf[i] \in Segments
  BY <1>1, LinkerAssumption
<1>3. \A i \in 1..n : elf[i].file <= elf[i].mem /\ elf[i].addr + elf[i].mem <= CodePages * PageBytes
  BY <1>2, LinkerAssumption
<1>4. PICK r : /\ r[0] = Unloaded(t) /\ r[n] = LoadElf(elf, t)
               /\ \A i \in 1..n : r[i] = LoadSegment(r[i - 1], elf[i])
  BY <1>2, LoadElfSteps
<1> DEFINE Good(q) == /\ Accounted({}, t, Image(q)) /\ DOMAIN q.image \subseteq 0..(HeapBase - 1)
                      /\ (t <= Frames /\ q.ok) => q.taken <= Frames
           T == {i \in 0..n : ~Good(r[i])}
<1>5. T = {}
  <2> SUFFICES ASSUME T # {} PROVE FALSE
    OBVIOUS
  <2>1. PICK i \in T : \A j \in T : i <= j
    <3>1. T \in SUBSET Nat
      OBVIOUS
    <3> HIDE DEF T
    <3>2. QED
      BY <3>1, LeastNumber
  <2>2. i \in 0..n /\ ~Good(r[i])
    OBVIOUS
  <2>3. CASE i = 0
    <3>1. DOMAIN r[i].image = {} /\ r[i].taken = t
      BY <1>4, <2>3 DEF Unloaded
    <3>2. Good(r[i])
      BY <3>1, FS_EmptySet DEF Accounted, Image
    <3>3. QED
      BY <2>2, <3>2
  <2>4. CASE i # 0
    <3>1. i \in 1..n /\ i - 1 \in 0..n /\ i - 1 \notin T
      BY <2>1, <2>2, <2>4
    <3>2. Good(r[i - 1])
      BY <3>1
    <3>3. PICK q, seg : q = r[i - 1] /\ seg = elf[i]
      OBVIOUS
    <3>4. r[i] = LoadSegment(q, seg) /\ seg \in Segments /\ seg.file <= seg.mem
          /\ seg.addr + seg.mem <= CodePages * PageBytes
      BY <1>2, <1>3, <1>4, <3>1, <3>3
    <3>5. PICK w : w = LoadSegment(q, seg)
      OBVIOUS
    <3>6. DOMAIN w.image \subseteq 0..(HeapBase - 1)
      BY <3>2, <3>3, <3>4, <3>5, LoadSegmentBelow
    <3>7. IsFiniteSet(DOMAIN q.image) /\ q.taken \in Int
      BY <3>2, <3>3 DEF Accounted, Image
    <3>8. /\ Accounted(DOMAIN q.image, q.taken, Image(w))
          /\ (q.taken <= Frames /\ w.ok) => w.taken <= Frames
      BY <3>4, <3>5, <3>7, LoadSegmentFrames
    <3>9. Accounted({}, t, Image(w))
      <4>1. Accounted({}, t, Image(q)) /\ Accounted(Image(q).pages, Image(q).taken, Image(w))
        BY <3>2, <3>3, <3>8 DEF Image
      <4>2. IsFiniteSet({})
        BY FS_EmptySet
      <4>3. QED
        BY <4>1, <4>2, AccountedSteps
    <3>10. w.ok => q.ok
      BY <3>4, <3>5, LoadSegmentFacts
    <3>11. Good(w)
      BY <3>2, <3>3, <3>6, <3>8, <3>9, <3>10
    <3> HIDE DEF Good
    <3>12. QED
      BY <2>2, <3>4, <3>5, <3>11
  <2>5. QED
    BY <2>3, <2>4
<1>6. Good(r[n])
  <2>1. n \in 0..n
    OBVIOUS
  <2>2. QED
    BY <1>5, <2>1
<1>7. QED
  BY <1>4, <1>6

(* The freeing of the code, segment by segment.                             *)
Unloads(elf, r, n, q) ==
    /\ q[0] = r /\ q[n] = UnloadElf(elf, r)
    /\ \A i \in 1..n : q[i] = UnloadSegment(q[i - 1], elf[i])

(* The fold of UnloadElf, unrolled.                                         *)
LEMMA UnloadSteps ==
    ASSUME NEW r, NEW n \in Nat, NEW elf, DOMAIN elf = 1..n
    PROVE  \E q : Unloads(elf, r, n, q)
<1> DEFINE part(f, s) == IF s = {} THEN r ELSE UnloadSegment(f[s \ {Max(s)}], elf[Max(s)])
           body(f) == [s \in SUBSET (1..n) |-> part(f, s)]
<1>1. PICK f : f = CHOOSE g : g = body(g)
  OBVIOUS
<1>2. UnloadElf(elf, r) = f[1..n]
  BY <1>1 DEF UnloadElf, FoldLeft, MapThenFoldSet
<1>3. f = body(f)
  <2>1. \E g : g = body(g)
    <3>1. PICK g : FoldsTo(FALSE, elf, r, n, g)
      BY FoldExists
    <3>2. \A s : FoldBody(FALSE, elf, r, s, g) = part(g, s)
      BY DEF FoldBody, SegmentStep
    <3>3. g = body(g)
      BY <3>1, <3>2 DEF FoldsTo
    <3>4. QED
      BY <3>3
  <2> HIDE DEF body
  <2>2. QED
    BY <1>1, <2>1
<1>4. \A s \in SUBSET (1..n) : f[s] = part(f, s)
  BY <1>3
<1> HIDE DEF body
<1> DEFINE q == [i \in 0..n |-> f[1..i]]
<1>5. q[0] = r /\ q[n] = f[1..n]
  <2>1. 1..0 = {} /\ {} \in SUBSET (1..n)
    OBVIOUS
  <2>2. f[{}] = r
    BY <1>4, <2>1
  <2>3. QED
    BY <2>1, <2>2
<1>6. ASSUME NEW i \in 1..n PROVE q[i] = UnloadSegment(q[i - 1], elf[i])
  <2>1. 1..i \in SUBSET (1..n) /\ 1..i # {} /\ i \in Nat \ {0}
    <3>1. i \in Nat /\ i > 0 /\ i <= n
      OBVIOUS
    <3>2. i \in 1..i
      BY <3>1
    <3>3. \A k \in 1..i : k \in 1..n
      BY <3>1
    <3>4. QED
      BY <3>1, <3>2, <3>3
  <2>2. Max(1..i) = i /\ (1..i) \ {i} = 1..(i - 1)
    BY <2>1, MaxFacts
  <2>3. f[1..i] = UnloadSegment(f[1..(i - 1)], elf[i])
    BY <1>4, <2>1, <2>2
  <2>4. QED
    BY <2>3
<1> HIDE DEF q
<1>7. Unloads(elf, r, n, q)
  BY <1>2, <1>5, <1>6 DEF Unloads
<1>8. QED
  BY <1>7

(* Pages and frames that are given back: none that was not there.           *)
Returned(m, t, r) == Accounted(m, t, r) /\ r.pages \subseteq m /\ r.taken <= t

(* Two steps that give back, one after the other; one unmap_range; none.    *)
LEMMA ReturnedSteps ==
    ASSUME NEW m, IsFiniteSet(m), NEW t \in Int, NEW r, NEW q,
           Returned(m, t, r), Returned(r.pages, r.taken, q)
    PROVE  Returned(m, t, q)
<1>1. Accounted(m, t, q)
  BY AccountedSteps DEF Returned
<1>2. QED
  BY <1>1 DEF Returned, Accounted

LEMMA UnmapReturned ==
    ASSUME NEW m, IsFiniteSet(m), NEW t \in Int, NEW a \in Int, NEW b \in Int, a <= b + 1
    PROVE  Returned(m, t, UnmapRange(m, t, a, b))
  BY UnmapRangeFrames, UnmapRangeFacts DEF Returned

LEMMA Kept ==
    ASSUME NEW r, IsFiniteSet(r.pages), r.taken \in Int
    PROVE  Returned(r.pages, r.taken, r)
<1>1. Cardinality(r.pages) \in Nat
  BY FS_CardinalityType
<1>2. QED
  BY <1>1 DEF Returned, Accounted

(* Unloading a segment, and then an executable, gives back and takes        *)
(* nothing.                                                                 *)
LEMMA UnloadSegmentFrames ==
    ASSUME NEW r, NEW seg \in Segments, IsFiniteSet(r.pages), r.taken \in Int
    PROVE  Returned(r.pages, r.taken, UnloadSegment(r, seg))
<1>1. CASE ~r.ok \/ ~IsLoaded(seg)
  BY <1>1, Kept DEF UnloadSegment
<1>2. CASE r.ok /\ IsLoaded(seg)
  <2>1. PICK x \in Nat, e \in Nat : x = seg.addr /\ e = seg.mem
    BY DEF Segments
  <2>2. PICK y \in Int : y = x + e - 1 /\ x <= y
    BY <1>2, <2>1 DEF IsLoaded
  <2>3. PICK a \in Int, b \in Int : a = PageOf(x) /\ b = PageOf(y)
    BY PageFacts, SMTT(30)
  <2>4. a <= b
    BY <2>2, <2>3, PageFacts
  <2>5. UnloadSegment(r, seg) = UnmapRange(r.pages, r.taken, a, b)
    BY <1>2, <2>1, <2>2, <2>3 DEF UnloadSegment, FirstPage, LastPage
  <2>6. a <= b + 1
    BY <2>4
  <2>7. QED
    BY <2>5, <2>6, UnmapReturned
<1>3. QED
  BY <1>1, <1>2

LEMMA UnloadFrames ==
    ASSUME NEW elf \in Executables \cup {<<>>}, NEW r, IsFiniteSet(r.pages), r.taken \in Int
    PROVE  Returned(r.pages, r.taken, UnloadElf(elf, r))
<1>1. PICK n \in Nat : DOMAIN elf = 1..n /\ \A i \in 1..n : elf[i] \in Segments
  <2>1. CASE elf = <<>>
    <3>1. DOMAIN elf = 1..0
      BY <2>1
    <3>2. \A i \in 1..0 : FALSE
      OBVIOUS
    <3>3. QED
      BY <3>1, <3>2
  <2>2. CASE elf \in Executables
    <3>1. elf \in Seq(Segments)
      BY <2>2, LinkerAssumption
    <3>2. QED
      BY <3>1
  <2>3. QED
    BY <2>1, <2>2
<1>2. PICK q : Unloads(elf, r, n, q)
  BY <1>1, UnloadSteps
<1> DEFINE T == {i \in 0..n : ~Returned(r.pages, r.taken, q[i])}
<1>3. T = {}
  <2> SUFFICES ASSUME T # {} PROVE FALSE
    OBVIOUS
  <2>1. PICK i \in T : \A j \in T : i <= j
    <3>1. T \in SUBSET Nat
      OBVIOUS
    <3> HIDE DEF T
    <3>2. QED
      BY <3>1, LeastNumber
  <2>2. i \in 0..n /\ ~Returned(r.pages, r.taken, q[i])
    OBVIOUS
  <2>3. CASE i = 0
    BY <1>2, <2>2, <2>3, Kept DEF Unloads
  <2>4. CASE i # 0
    <3>1. i \in 1..n /\ i - 1 \in 0..n /\ i - 1 \notin T
      BY <2>1, <2>2, <2>4
    <3>2. PICK p, seg : p = q[i - 1] /\ seg = elf[i]
      OBVIOUS
    <3>3. Returned(r.pages, r.taken, p)
      BY <3>1, <3>2
    <3>4. seg \in Segments /\ q[i] = UnloadSegment(p, seg)
      BY <1>1, <1>2, <3>1, <3>2 DEF Unloads
    <3>5. Returned(p.pages, p.taken, q[i])
      <4>1. IsFiniteSet(p.pages) /\ p.taken \in Int
        BY <3>3 DEF Returned, Accounted
      <4>2. QED
        BY <3>4, <4>1, UnloadSegmentFrames
    <3>6. Returned(r.pages, r.taken, q[i])
      BY <3>3, <3>5, ReturnedSteps
    <3>7. QED
      BY <2>2, <3>6
  <2>5. QED
    BY <2>3, <2>4
<1>4. Returned(r.pages, r.taken, q[n])
  <2>1. n \in 0..n
    OBVIOUS
  <2>2. QED
    BY <1>3, <2>1
<1>5. QED
  BY <1>2, <1>4 DEF Unloads

-----------------------------------------------------------------------------
(* The invariant about frames: the rest of TypeOK, and FramesSuffice.       *)
FrameTypes ==
    /\ forker  \in [Procs -> Procs \cup {None}]
    /\ mapped  \in [Procs -> SUBSET Pages]
    /\ taken   \in 0..Frames
    /\ nextPid \in 1..(MaxPid + 1)
    /\ mode    \in {"up", "fault", "oom"}

FrameInv == SpaceInv /\ FrameTypes /\ FramesSuffice

(* The frame of page table t itself.                                        *)
TableFrame(t) == IF Members(t) = {} THEN 0 ELSE 1

(* A page table has finitely many pages.                                    *)
LEMMA MappedFinite ==
    ASSUME FrameTypes, NEW t \in Procs
    PROVE  IsFiniteSet(mapped[t]) /\ Cardinality(mapped[t]) \in Nat
<1>1. mapped[t] \in SUBSET Pages
  BY DEF FrameTypes
<1>2. QED
  BY <1>1, PagesFinite, FS_Subset, FS_CardinalityType

(* A step on one page table, seen from the frames.                          *)
LEMMA Recount ==
    ASSUME FrameTypes, FramesSuffice, NEW t \in Procs, NEW r, Install(t, r),
           r.pages \subseteq Pages, r.taken \in Int, r.taken <= Frames,
           \A x \in Procs \ {t} : Members(x)' = {} <=> Members(x) = {},
           r.taken - Cardinality(r.pages) - TableFrame(t)'
               >= taken - Cardinality(mapped[t]) - TableFrame(t)
    PROVE  mapped' \in [Procs -> SUBSET Pages] /\ taken' \in 0..Frames /\ FramesSuffice'
<1>1. mapped' = [mapped EXCEPT ![t] = r.pages] /\ taken' = r.taken
  BY DEF Install
<1>2. mapped' \in [Procs -> SUBSET Pages]
  BY <1>1 DEF FrameTypes
<1>3. mapped'[t] = r.pages /\ \A x \in Procs \ {t} : mapped'[x] = mapped[x]
  BY <1>1 DEF FrameTypes
<1>4. \A x \in Procs : Cardinality(mapped[x]) \in Nat /\ Cardinality(mapped'[x]) \in Nat
  <2>1. \A x \in Procs : mapped'[x] \in SUBSET Pages
    BY <1>2
  <2>2. \A s \in SUBSET Pages : Cardinality(s) \in Nat
    BY PagesFinite, FS_Subset, FS_CardinalityType
  <2>3. QED
    BY <2>1, <2>2, MappedFinite
<1>5. PICK u : u = Used
  OBVIOUS
<1>6. PICK v : v = Used'
  OBVIOUS
<1>7. /\ u = [x \in Procs |-> Cardinality(mapped[x]) + TableFrame(x)]
      /\ v = [x \in Procs |-> Cardinality(mapped'[x]) + TableFrame(x)']
  BY <1>5, <1>6 DEF Used, TableFrame
<1>8. \A x \in Procs : TableFrame(x) \in {0, 1} /\ TableFrame(x)' \in {0, 1}
  BY DEF TableFrame
<1>9. u \in [Procs -> Nat] /\ v \in [Procs -> Nat]
  <2>1. \A x \in Procs : /\ Cardinality(mapped[x]) + TableFrame(x) \in Nat
                         /\ Cardinality(mapped'[x]) + TableFrame(x)' \in Nat
    BY <1>4, <1>8
  <2>2. QED
    BY <1>7, <2>1
<1>10. \A x \in Procs \ {t} : u[x] = v[x]
  <2>1. \A x \in Procs \ {t} : TableFrame(x)' = TableFrame(x)
    BY DEF TableFrame
  <2>2. QED
    BY <1>3, <1>7, <2>1
<1>11. IsFiniteSet(Procs)
  BY FS_Interval, MemoryAssumption DEF Procs
<1>12. /\ SumFunction(u) \in Nat /\ SumFunction(v) \in Nat
       /\ SumFunction(v) - SumFunction(u) = v[t] - u[t]
  BY <1>9, <1>10, <1>11, SumChanges
<1>13. v[t] = Cardinality(r.pages) + TableFrame(t)' /\ u[t] = Cardinality(mapped[t]) + TableFrame(t)
  BY <1>3, <1>7
<1>14. taken >= SumFunction(u) /\ taken \in Int
  BY <1>5 DEF FramesSuffice, FrameTypes
<1>15. Cardinality(r.pages) \in Nat /\ Cardinality(mapped[t]) \in Nat
  BY <1>3, <1>4
<1>16. r.taken >= SumFunction(v)
  BY <1>8, <1>12, <1>13, <1>14, <1>15
<1>17. FramesSuffice'
  BY <1>1, <1>6, <1>16 DEF FramesSuffice
<1>18. taken' \in 0..Frames
  BY <1>1, <1>12, <1>16, PageAssumption
<1>19. QED
  BY <1>2, <1>17, <1>18

(* What a member more or less does to the page tables in use.               *)
LEMMA MemberMore ==
    ASSUME SpaceInv, nextPid \in Procs, NEW f \in Procs, table' = [table EXCEPT ![nextPid] = f]
    PROVE  /\ Members(nextPid) = {} /\ Members(f)' # {}
           /\ \A x \in Procs \ {f} : Members(x)' = {} <=> Members(x) = {}
<1>1. PICK c \in Procs : c = nextPid
  OBVIOUS
<1>2. None \notin Procs /\ c \in Int
  BY MemoryAssumption DEF None, Procs
<1>3. \A p \in Procs : Alive(p) => p < c /\ table[p] < c
  BY <1>1 DEF SpaceInv, Unused
<1>4. ~Alive(c) /\ \A p \in Procs : table[p] # c
  BY <1>2, <1>3 DEF Alive
<1>5. table'[c] = f /\ \A p \in Procs \ {c} : table'[p] = table[p]
  BY <1>1 DEF SpaceInv, SpaceTypes
<1>6. \A x \in Procs \ {f} : Members(x)' = Members(x)
  BY <1>2, <1>4, <1>5 DEF Members, Alive
<1>7. c \in Members(f)'
  BY <1>5 DEF Members
<1>8. Members(c) = {}
  BY <1>4 DEF Members
<1>9. QED
  BY <1>1, <1>6, <1>7, <1>8

LEMMA MemberLess ==
    ASSUME SpaceInv, NEW p \in Procs, Alive(p), table' = [table EXCEPT ![p] = None],
           NEW f \in Procs, f = table[p]
    PROVE  /\ Members(f)' = Members(f) \ {p}
           /\ \A x \in Procs \ {f} : Members(x)' = Members(x)
<1>1. None \notin Procs
  BY MemoryAssumption DEF None, Procs
<1>2. table'[p] = None /\ \A q \in Procs \ {p} : table'[q] = table[q]
  BY DEF SpaceInv, SpaceTypes
<1>3. QED
  BY <1>1, <1>2 DEF Members

(* spawn takes a frame for its page table, and one for every page.          *)
LEMMA LoadedFrames ==
    ASSUME NEW elf \in Executables, taken \in 0..Frames, taken < Frames, Loaded(elf).ok
    PROVE  /\ Loaded(elf).pages \subseteq Pages /\ Accounted({}, taken + 1, Loaded(elf))
           /\ Loaded(elf).taken <= Frames
<1>1. PICK t \in Int : t = taken + 1 /\ t <= Frames
  BY PageAssumption
<1>2. PICK code : code = LoadElf(elf, t)
  OBVIOUS
<1>3. PICK top \in Int, stack \in Int : top = StackTop(0) - 1 /\ stack = top + 1 /\ top \in Pages
  <2>1. 0 \in 0..(Slots - 1) /\ StackBase \in Nat /\ SlotPages \in Nat \ {0}
    BY MemoryAssumption, Layout
  <2>2. StackTop(0) \in Nat /\ StackBase + SlotPages <= StackTop(0)
    BY <2>1, Layout
  <2>3. QED
    BY <2>1, <2>2 DEF Pages
<1>4. PICK r : r = MapRange(DOMAIN code.image, code.taken, top, top)
  OBVIOUS
<1>5. code.ok /\ Loaded(elf) = r /\ r.ok
  BY <1>1, <1>2, <1>3, <1>4 DEF Loaded
<1>6. /\ Accounted({}, t, Image(code)) /\ DOMAIN code.image \subseteq 0..(HeapBase - 1)
      /\ code.taken <= Frames
  BY <1>1, <1>2, <1>5, LoadElfFrames
<1>7. IsFiniteSet(DOMAIN code.image) /\ code.taken \in Int
  BY <1>6 DEF Accounted, Image
<1>8. top <= top + 1
  OBVIOUS
<1>9. Accounted(DOMAIN code.image, code.taken, r) /\ r.taken <= Frames
  BY <1>4, <1>6, <1>7, <1>8, MapRangeFrames
<1>10. Accounted({}, t, r)
  <2>1. Accounted(Image(code).pages, Image(code).taken, r)
    BY <1>9 DEF Image
  <2>2. IsFiniteSet({})
    BY FS_EmptySet
  <2>3. QED
    BY <1>6, <2>1, <2>2, AccountedSteps
<1>11. r.pages \subseteq Pages
  <2>1. r.pages \subseteq DOMAIN code.image \cup top..top
    BY <1>4, MapRangeFacts
  <2>2. top..top \subseteq Pages
    BY <1>3
  <2>3. 0..(HeapBase - 1) \subseteq Pages
    <3>1. 0 \in 0..(Slots - 1) /\ SlotPages \in Nat /\ HeapPages \in Nat
      BY MemoryAssumption
    <3>2. HeapBase \in Nat /\ StackBase \in Nat /\ HeapBase <= StackBase
      BY <3>1, Layout
    <3>3. StackTop(0) \in Nat /\ StackBase + SlotPages <= StackTop(0)
      BY <3>1, Layout
    <3>4. QED
      BY <3>1, <3>2, <3>3 DEF Pages
  <2>4. QED
    BY <1>6, <2>1, <2>2, <2>3
<1>12. QED
  BY <1>1, <1>5, <1>9, <1>10, <1>11

LEMMA SpawnFrames == ASSUME FrameInv, NEW elf \in Executables, Spawn(elf) PROVE FrameInv'
<1>1. SpaceInv'
  BY SpawnSpace DEF FrameInv
<1>2. SpaceInv /\ FrameTypes /\ FramesSuffice
  BY DEF FrameInv
<1>3. CASE UNCHANGED <<table, size, exe, mapped, taken, nextPid>> /\ mode' = "oom"
  <2>1. FrameTypes'
    BY <1>2, <1>3 DEF FrameTypes, Spawn
  <2>2. FramesSuffice'
    BY <1>2, <1>3 DEF FramesSuffice, Used, Members
  <2>3. QED
    BY <1>1, <2>1, <2>2 DEF FrameInv
<1>4. CASE /\ taken < Frames /\ Loaded(elf).ok
           /\ table' = [table EXCEPT ![nextPid] = nextPid]
           /\ Install(nextPid, Loaded(elf))
           /\ nextPid' = nextPid + 1
           /\ UNCHANGED mode
  <2>1. nextPid \in Procs /\ UNCHANGED forker
    BY DEF Spawn
  <2>2. PICK c \in Procs, r \in {Loaded(elf)} : c = nextPid /\ r = Loaded(elf)
    BY <2>1
  <2>3. taken \in 0..Frames
    BY <1>2 DEF FrameTypes
  <2>4. r.pages \subseteq Pages /\ Accounted({}, taken + 1, r) /\ r.taken <= Frames
    BY <1>4, <2>2, <2>3, LoadedFrames
  <2>5. /\ Members(c) = {} /\ Members(c)' # {}
        /\ \A x \in Procs \ {c} : Members(x)' = {} <=> Members(x) = {}
    BY <1>2, <1>4, <2>2, MemberMore
  <2>6. r.taken - Cardinality(r.pages) - TableFrame(c)'
            >= taken - Cardinality(mapped[c]) - TableFrame(c)
    <3>1. TableFrame(c) = 0 /\ TableFrame(c)' = 1
      BY <2>5 DEF TableFrame
    <3>2. Cardinality(mapped[c]) \in Nat
      BY <1>2, MappedFinite
    <3>3. r.taken - Cardinality(r.pages) >= taken + 1 - 0 /\ r.taken \in Int /\ IsFiniteSet(r.pages)
      <4>1. PICK none \in Nat : none = Cardinality({}) /\ none = 0
        BY FS_EmptySet
      <4>2. IsFiniteSet(r.pages) /\ r.taken \in Int
        BY <2>4 DEF Accounted
      <4>3. PICK k \in Nat : k = Cardinality(r.pages)
        BY <4>2, FS_CardinalityType
      <4>4. r.taken - k >= (taken + 1) - none
        BY <2>4, <4>1, <4>3 DEF Accounted
      <4>5. QED
        BY <2>3, <4>1, <4>2, <4>3, <4>4
    <3>4. Cardinality(r.pages) \in Nat
      BY <3>3, FS_CardinalityType
    <3>5. QED
      BY <2>3, <3>1, <3>2, <3>3, <3>4
  <2>7. mapped' \in [Procs -> SUBSET Pages] /\ taken' \in 0..Frames /\ FramesSuffice'
    <3>1. Install(c, r) /\ r.taken \in Int
      BY <1>4, <2>2, <2>4 DEF Accounted
    <3>2. QED
      BY <1>2, <2>4, <2>5, <2>6, <3>1, Recount
  <2>8. nextPid' \in 1..(MaxPid + 1)
    BY <1>4, <2>1, MemoryAssumption DEF Procs
  <2>9. FrameTypes'
    BY <1>2, <1>4, <2>1, <2>7, <2>8 DEF FrameTypes
  <2>10. QED
    BY <1>1, <2>7, <2>9 DEF FrameInv
<1>5. QED
  BY <1>3, <1>4 DEF Spawn

(* vfork pays for the pages its tries map, those it leaves behind           *)
(* included.                                                                *)
LEMMA VForkFrames == ASSUME FrameInv, NEW p \in Procs, VFork(p) PROVE FrameInv'
<1>1. SpaceInv'
  BY VForkSpace DEF FrameInv
<1>2. SpaceInv /\ FrameTypes /\ FramesSuffice
  BY DEF FrameInv
<1>3. CASE UNCHANGED <<table, forker, slot, size, mapped, taken, nextPid>> /\ mode' = "oom"
  <2>1. FrameTypes'
    BY <1>2, <1>3 DEF FrameTypes
  <2>2. FramesSuffice'
    BY <1>2, <1>3 DEF FramesSuffice, Used, Members
  <2>3. QED
    BY <1>1, <2>1, <2>2 DEF FrameInv
<1>4. CASE /\ Tries(p).ok
           /\ table'  = [table EXCEPT ![nextPid] = table[p]]
           /\ forker' = [forker EXCEPT ![nextPid] = p]
           /\ Install(table[p], Tries(p))
           /\ nextPid' = nextPid + 1
           /\ UNCHANGED mode
  <2>1. nextPid \in Procs /\ Alive(p) /\ FirstSlot(p) < Slots
    BY DEF VFork
  <2>2. PICK f \in Procs, r \in {Tries(p)} : f = table[p] /\ r = Tries(p)
    BY <1>2, <2>1 DEF SpaceInv, SpaceTypes, Alive
  <2>3. taken \in 0..Frames /\ mapped[f] \subseteq Pages
    BY <1>2 DEF FrameTypes
  <2>4. r.pages \subseteq Pages /\ Accounted(mapped[f], taken, r) /\ r.taken <= Frames
    <3>1. slot[p] \in 0..(Slots - 1) /\ size[p] \in 0..SlotPages /\ Slots \in Nat
      BY <1>2, MemoryAssumption DEF SpaceInv, SpaceTypes
    <3>2. FirstSlot(p) \in Nat /\ FirstSlot(p) > slot[p]
      BY <1>2, FirstSlotBelow DEF SpaceInv
    <3>3. FirstSlot(p) \in 1..(Slots - 1)
      BY <2>1, <3>1, <3>2
    <3>4. TriedWell(p, r)
      BY <2>2, <3>1, <3>3, TriesFacts
    <3>5. QED
      BY <2>2, <2>3, <3>4 DEF TriedWell
  <2>5. Members(f) # {} /\ Members(f)' # {}
        /\ \A x \in Procs \ {f} : Members(x)' = {} <=> Members(x) = {}
    <3>1. p \in Members(f)
      BY <2>2 DEF Members
    <3>2. QED
      BY <1>2, <1>4, <2>1, <2>2, <3>1, MemberMore
  <2>6. r.taken - Cardinality(r.pages) - TableFrame(f)'
            >= taken - Cardinality(mapped[f]) - TableFrame(f)
    <3>1. TableFrame(f) = 1 /\ TableFrame(f)' = 1
      BY <2>5 DEF TableFrame
    <3>2. Cardinality(mapped[f]) \in Nat
      BY <1>2, MappedFinite
    <3>3. Cardinality(r.pages) \in Nat
      BY <2>4, FS_CardinalityType DEF Accounted
    <3>4. QED
      BY <2>3, <2>4, <3>1, <3>2, <3>3 DEF Accounted
  <2>7. mapped' \in [Procs -> SUBSET Pages] /\ taken' \in 0..Frames /\ FramesSuffice'
    <3>1. Install(f, r) /\ r.taken \in Int
      BY <1>4, <2>2, <2>4 DEF Accounted
    <3>2. QED
      BY <1>2, <2>4, <2>5, <2>6, <3>1, Recount
  <2>8. nextPid' \in 1..(MaxPid + 1)
    BY <1>4, <2>1, MemoryAssumption DEF Procs
  <2>9. forker' \in [Procs -> Procs \cup {None}]
    BY <1>2, <1>4 DEF FrameTypes
  <2>10. FrameTypes'
    BY <1>2, <1>4, <2>7, <2>8, <2>9 DEF FrameTypes
  <2>11. QED
    BY <1>1, <2>7, <2>10 DEF FrameInv
<1>5. QED
  BY <1>3, <1>4 DEF VFork

(* A step that pays for the pages it adds, and neither founds nor ends a    *)
(* family.                                                                  *)
LEMMA Accounting ==
    ASSUME FrameTypes, FramesSuffice, UNCHANGED table, NEW t \in Procs, NEW r, Install(t, r),
           r.pages \subseteq Pages, Accounted(mapped[t], taken, r), r.taken <= Frames
    PROVE  mapped' \in [Procs -> SUBSET Pages] /\ taken' \in 0..Frames /\ FramesSuffice'
<1>1. \A x \in Procs : Members(x)' = Members(x)
  BY DEF Members
<1>2. TableFrame(t)' = TableFrame(t) /\ TableFrame(t) \in {0, 1}
  BY <1>1 DEF TableFrame
<1>3. PICK k \in Nat, n \in Nat : k = Cardinality(mapped[t]) /\ n = Cardinality(r.pages)
  BY MappedFinite, FS_CardinalityType DEF Accounted
<1>4. r.taken \in Int /\ r.taken - n >= taken - k
  BY <1>3 DEF Accounted
<1>5. taken \in Int
  BY DEF FrameTypes
<1>6. r.taken - n - TableFrame(t)' >= taken - k - TableFrame(t)
  BY <1>2, <1>4, <1>5
<1>7. QED
  BY <1>1, <1>3, <1>4, <1>6, Recount

(* The stack takes the frames of the pages it grows by, also when the fault *)
(* is not served.                                                           *)
LEMMA StackFaultFrames == ASSUME FrameInv, NEW p \in Procs, StackFault(p) PROVE FrameInv'
<1>1. SpaceInv'
  BY StackFaultSpace DEF FrameInv
<1>2. SpaceInv /\ FrameTypes /\ FramesSuffice /\ SpaceTypes
  BY DEF FrameInv, SpaceInv
<1>3. Alive(p) /\ UNCHANGED <<table, forker, nextPid>>
  BY DEF StackFault
<1>4. PICK f \in Procs : f = table[p]
  BY <1>2, <1>3 DEF SpaceTypes, Alive
<1>5. PICK low \in Nat, top \in Nat : low = Low(p) /\ top = StackTop(slot[p])
  BY <1>2, StackInSlot
<1>6. PICK page \in Int : page \in FaultPages(p) /\
         LET r == MapRange(mapped[f], taken, page, low - 1) IN
           Install(f, r) /\ (UNCHANGED mode \/ mode' = "fault")
  <2>1. FaultPages(p) \subseteq Int
    BY DEF FaultPages
  <2>2. QED
    BY <1>4, <1>5, <2>1 DEF StackFault, Unserved
<1>7. SlotPages \in Nat /\ top - SlotPages <= page /\ page < low /\ low <= top
  <2>1. SlotPages \in Nat /\ low <= top
    BY <1>2, <1>5, StackInSlot, MemoryAssumption
  <2>2. page \in (top - SlotPages)..(low - 1)
    BY <1>5, <1>6 DEF FaultPages
  <2>3. QED
    BY <1>5, <2>1, <2>2
<1>8. PICK b \in Int, r \in {MapRange(mapped[f], taken, page, low - 1)} :
         b = low - 1 /\ r = MapRange(mapped[f], taken, page, b)
  OBVIOUS
<1>9. Install(f, r) /\ (UNCHANGED mode \/ mode' = "fault")
  BY <1>6, <1>8
<1>10. IsFiniteSet(mapped[f]) /\ mapped[f] \subseteq Pages /\ taken \in Int /\ taken <= Frames
  BY <1>2, MappedFinite, PageAssumption DEF FrameTypes
<1>11. page <= b + 1
  BY <1>7, <1>8
<1>12. Accounted(mapped[f], taken, r) /\ r.taken <= Frames
  BY <1>8, <1>10, <1>11, MapRangeFrames
<1>13. r.pages \subseteq Pages
  <2>1. r.pages \subseteq mapped[f] \cup page..b
    BY <1>8, MapRangeFacts
  <2>2. page..b \subseteq (top - SlotPages)..(top - 1)
    BY <1>7, <1>8
  <2>3. slot[p] \in 0..(Slots - 1)
    BY <1>2, StackInSlot
  <2>4. (top - SlotPages)..(top - 1) \subseteq Pages
    BY <1>5, <2>3, StackPages
  <2>5. QED
    BY <1>10, <2>1, <2>2, <2>4
<1>14. mapped' \in [Procs -> SUBSET Pages] /\ taken' \in 0..Frames /\ FramesSuffice'
  BY <1>2, <1>3, <1>9, <1>12, <1>13, Accounting
<1>15. FrameTypes'
  BY <1>2, <1>3, <1>9, <1>14 DEF FrameTypes
<1>16. QED
  BY <1>1, <1>14, <1>15 DEF FrameInv

(* brk gives the frames of the pages it unmaps back, and takes those of the *)
(* pages it maps.                                                           *)
LEMMA BrkFrames == ASSUME FrameInv, NEW p \in Procs, Brk(p) PROVE FrameInv'
<1>1. SpaceInv'
  BY BrkSpace DEF FrameInv
<1>2. SpaceInv /\ FrameTypes /\ FramesSuffice /\ SpaceTypes
  BY DEF FrameInv, SpaceInv
<1>3. Alive(p) /\ UNCHANGED <<table, forker, nextPid, mode>>
  BY DEF Brk
<1>4. PICK t \in Procs : t = table[p]
  BY <1>2, <1>3 DEF SpaceTypes, Alive
<1>5. PICK h \in BrkEnds : h = heapEnd[t]
  BY <1>2 DEF SpaceTypes
<1>6. PICK e \in BrkEnds :
         Install(t, IF EndPage(e) < EndPage(h) THEN Shrunk(t, e) ELSE Grown(t, e))
  BY <1>4, <1>5 DEF Brk
<1>7. PICK x \in Nat, y \in Nat : x = EndPage(e) /\ y = EndPage(h)
  BY HeapBelow
<1>8. IsFiniteSet(mapped[t]) /\ mapped[t] \subseteq Pages /\ taken \in Int /\ taken <= Frames
  BY <1>2, MappedFinite, PageAssumption DEF FrameTypes
<1>9. \E r : Install(t, r) /\ r.pages \subseteq Pages /\ Accounted(mapped[t], taken, r)
             /\ r.taken <= Frames
  <2>1. CASE x < y
    <3>1. PICK b \in Int, r \in {UnmapRange(mapped[t], taken, x, y - 1)} :
             b = y - 1 /\ r = UnmapRange(mapped[t], taken, x, b)
      OBVIOUS
    <3>2. r = Shrunk(t, e) /\ Install(t, r)
      BY <1>5, <1>6, <1>7, <2>1, <3>1 DEF Shrunk
    <3>3. x <= b + 1
      BY <2>1, <3>1
    <3>4. Returned(mapped[t], taken, r)
      BY <1>8, <3>1, <3>3, UnmapReturned
    <3>5. Accounted(mapped[t], taken, r) /\ r.pages \subseteq Pages /\ r.taken <= taken
      BY <1>8, <3>4 DEF Returned
    <3>6. r.taken <= Frames
      BY <1>8, <3>5, PageAssumption DEF Accounted
    <3>7. QED
      BY <3>2, <3>5, <3>6
  <2>2. CASE ~(x < y)
    <3>1. PICK b \in Int, r \in {MapRange(mapped[t], taken, y, x - 1)} :
             b = x - 1 /\ r = MapRange(mapped[t], taken, y, b)
      OBVIOUS
    <3>2. r = Grown(t, e) /\ Install(t, r)
      BY <1>5, <1>6, <1>7, <2>2, <3>1 DEF Grown
    <3>3. y <= b + 1
      BY <2>2, <3>1
    <3>4. Accounted(mapped[t], taken, r) /\ r.taken <= Frames
      BY <1>8, <3>1, <3>3, MapRangeFrames
    <3>5. r.pages \subseteq Pages
      <4>1. r.pages \subseteq mapped[t] \cup y..b
        BY <3>1, MapRangeFacts
      <4>2. PICK top \in Nat : top = StackTop(0) /\ x <= top
        <5>1. 0 \in 0..(Slots - 1) /\ SlotPages \in Nat
          BY MemoryAssumption
        <5>2. StackTop(0) \in Nat /\ StackBase \in Nat /\ StackBase + SlotPages <= StackTop(0)
          BY <5>1, Layout
        <5>3. x <= StackBase
          BY <1>7, HeapBelow
        <5>4. QED
          BY <5>1, <5>2, <5>3
      <4>3. y..b \subseteq Pages
        BY <3>1, <4>2 DEF Pages
      <4>4. QED
        BY <1>8, <4>1, <4>3
    <3>6. QED
      BY <3>2, <3>4, <3>5
  <2>3. QED
    BY <2>1, <2>2
<1>10. PICK r : Install(t, r) /\ r.pages \subseteq Pages /\ Accounted(mapped[t], taken, r)
                /\ r.taken <= Frames
  BY <1>9
<1>11. mapped' \in [Procs -> SUBSET Pages] /\ taken' \in 0..Frames /\ FramesSuffice'
  BY <1>2, <1>3, <1>10, Accounting
<1>12. FrameTypes'
  BY <1>2, <1>3, <1>11 DEF FrameTypes
<1>13. QED
  BY <1>1, <1>11, <1>12 DEF FrameInv

(* What clean_up gives back before the page table: the frames of pages that *)
(* were mapped, none twice.                                                 *)
LEMMA CleanUpReturns ==
    ASSUME FrameTypes, SpaceInv, NEW p \in Procs, NEW f \in Procs, f = table[p]
    PROVE  /\ Returned(mapped[f], taken, StackGone(p))
           /\ Returned(mapped[f], taken, CodeGone(p, HeapGone(p, StackGone(p))))
<1>1. IsFiniteSet(mapped[f]) /\ taken \in Int
  BY MappedFinite, PageAssumption DEF FrameTypes
<1>2. PICK low \in Nat, b \in Int : low = Low(p) /\ b = StackTop(slot[p]) - 1 /\ low <= b + 1
  <2>1. /\ StackTop(slot[p]) \in Nat /\ size[p] \in Nat /\ Low(p) \in Nat
        /\ Low(p) + size[p] = StackTop(slot[p])
    BY StackInSlot DEF SpaceInv
  <2>2. QED
    BY <2>1
<1>3. PICK r : r = StackGone(p)
  OBVIOUS
<1>4. Returned(mapped[f], taken, r)
  BY <1>1, <1>2, <1>3, UnmapReturned DEF StackGone
<1>5. PICK q : q = HeapGone(p, r)
  OBVIOUS
<1>6. IsFiniteSet(r.pages) /\ r.taken \in Int
  BY <1>4 DEF Returned, Accounted
<1>7. Returned(r.pages, r.taken, q)
  <2>1. CASE ~r.ok
    BY <1>5, <1>6, <2>1, Kept DEF HeapGone
  <2>2. CASE r.ok
    <3>1. heapEnd[f] \in BrkEnds
      BY DEF SpaceInv, SpaceTypes
    <3>2. PICK y \in Int, base \in Nat : /\ y = EndPage(heapEnd[f]) - 1 /\ base = HeapBase
                                         /\ base <= y + 1
      <4>1. EndPage(heapEnd[f]) \in Nat /\ HeapBase <= EndPage(heapEnd[f]) /\ HeapBase \in Nat
        BY <3>1, HeapBelow, Layout
      <4>2. QED
        BY <4>1
    <3>3. q = UnmapRange(r.pages, r.taken, base, y)
      BY <1>5, <2>2, <3>2 DEF HeapGone
    <3>4. QED
      BY <1>6, <3>2, <3>3, UnmapReturned
  <2>3. QED
    BY <2>1, <2>2
<1>8. Returned(mapped[f], taken, q)
  BY <1>1, <1>4, <1>7, ReturnedSteps
<1>9. PICK c : c = CodeGone(p, q)
  OBVIOUS
<1>10. IsFiniteSet(q.pages) /\ q.taken \in Int
  BY <1>8 DEF Returned, Accounted
<1>11. Returned(q.pages, q.taken, c)
  <2>1. exe[p] \in Executables \cup {<<>>}
    BY DEF SpaceInv, SpaceTypes
  <2>2. CASE table[p] = p
    BY <1>9, <1>10, <2>1, <2>2, UnloadFrames DEF CodeGone
  <2>3. CASE table[p] # p
    BY <1>9, <1>10, <2>3, Kept DEF CodeGone
  <2>4. QED
    BY <2>2, <2>3
<1>12. Returned(mapped[f], taken, c)
  BY <1>1, <1>8, <1>11, ReturnedSteps
<1>13. QED
  BY <1>3, <1>4, <1>5, <1>9, <1>12

(* kill gives the frame of the page table back when nobody uses it.         *)
LEMMA KillFrames == ASSUME FrameInv, NEW p \in Procs, Kill(p) PROVE FrameInv'
<1>1. SpaceInv'
  BY KillSpace DEF FrameInv
<1>2. SpaceInv /\ FrameTypes /\ FramesSuffice /\ SpaceTypes
  BY DEF FrameInv, SpaceInv
<1>3. Alive(p) /\ table' = [table EXCEPT ![p] = None] /\ UNCHANGED <<forker, nextPid, mode>>
  BY DEF Kill
<1>4. PICK f \in Procs : f = table[p]
  BY <1>2, <1>3 DEF SpaceTypes, Alive
<1>5. PICK r : r = CleanUp(p)
  OBVIOUS
<1>6. Install(f, r)
  BY <1>4, <1>5 DEF Kill
<1>7. Members(f)' = Members(f) \ {p} /\ \A x \in Procs \ {f} : Members(x)' = Members(x)
  BY <1>2, <1>3, <1>4, MemberLess
<1>8. p \in Members(f) /\ (IsLast(p) <=> Members(f)' = {})
  <2>1. p \in Members(f)
    BY <1>4 DEF Members
  <2>2. IsLast(p) <=> Members(f) = {p}
    BY <1>4 DEF IsLast
  <2>3. QED
    BY <1>7, <2>1, <2>2
<1>9. TableFrame(f) = 1 /\ TableFrame(f)' = IF IsLast(p) THEN 0 ELSE 1
  BY <1>8 DEF TableFrame
<1>10. taken \in Int /\ taken <= Frames /\ mapped[f] \subseteq Pages /\ Frames \in Int
  BY <1>2, PageAssumption DEF FrameTypes
<1>11. PICK k \in Nat : k = Cardinality(mapped[f])
  BY <1>2, MappedFinite
<1>12. PICK n \in {0, 1} : n = TableFrame(f)' /\ n = IF IsLast(p) THEN 0 ELSE 1
  BY <1>9
<1>13. /\ r.pages \subseteq Pages /\ r.taken \in Int /\ r.taken <= Frames
       /\ r.taken - Cardinality(r.pages) - n >= taken - k - 1
  <2>1. CASE ~IsLast(p)
    <3>1. Returned(mapped[f], taken, r)
      BY <1>2, <1>4, <1>5, <2>1, CleanUpReturns DEF CleanUp
    <3>2. PICK c \in Nat, t \in Int : c = Cardinality(r.pages) /\ t = r.taken
      BY <3>1, FS_CardinalityType DEF Returned, Accounted
    <3>3. r.pages \subseteq mapped[f] /\ t <= taken /\ t - c >= taken - k
      BY <1>11, <3>1, <3>2 DEF Returned, Accounted
    <3>4. QED
      BY <1>10, <1>12, <2>1, <3>2, <3>3
  <2>2. CASE IsLast(p)
    <3>1. PICK q : q = CodeGone(p, HeapGone(p, StackGone(p)))
      OBVIOUS
    <3>2. Returned(mapped[f], taken, q)
      BY <1>2, <1>4, <3>1, CleanUpReturns
    <3>3. PICK c \in Nat, t \in Int : c = Cardinality(q.pages) /\ t = q.taken
      BY <3>2, FS_CardinalityType DEF Returned, Accounted
    <3>4. q.pages \subseteq mapped[f] /\ t <= taken /\ t - c >= taken - k
      BY <1>11, <3>2, <3>3 DEF Returned, Accounted
    <3>5. r = TableGone(q)
      BY <1>5, <2>2, <3>1 DEF CleanUp
    <3>6. CASE q.ok
      <4>1. r.pages = {} /\ r.taken = t - 1
        BY <3>3, <3>5, <3>6 DEF TableGone
      <4>2. Cardinality(r.pages) = 0
        BY <4>1, FS_EmptySet
      <4>3. QED
        BY <1>10, <1>12, <2>2, <3>3, <3>4, <4>1, <4>2
    <3>7. CASE ~q.ok
      <4>1. r = q
        BY <3>5, <3>7 DEF TableGone
      <4>2. QED
        BY <1>10, <1>12, <2>2, <3>3, <3>4, <4>1
    <3>8. QED
      BY <3>6, <3>7
  <2>3. QED
    BY <2>1, <2>2
<1>14. r.taken - Cardinality(r.pages) - TableFrame(f)'
           >= taken - Cardinality(mapped[f]) - TableFrame(f)
  BY <1>9, <1>11, <1>12, <1>13
<1>15. mapped' \in [Procs -> SUBSET Pages] /\ taken' \in 0..Frames /\ FramesSuffice'
  BY <1>2, <1>6, <1>7, <1>13, <1>14, Recount
<1>16. FrameTypes'
  BY <1>2, <1>3, <1>15 DEF FrameTypes
<1>17. QED
  BY <1>1, <1>15, <1>16 DEF FrameInv

(* A sum of zeros is zero: nothing is used, and nothing taken, at first.    *)
LEMMA SumOfZeros ==
    ASSUME NEW S, IsFiniteSet(S), NEW u, u = [x \in S |-> 0]
    PROVE  SumFunction(u) = 0
<1>1. DOMAIN u = S
  OBVIOUS
<1>2. PICK f : SumFunction(u) = f[S] /\ \A s \in SUBSET S : f[s] = SumBody(u, s, f)
  BY <1>1, SumSteps
<1> DEFINE T == {n \in Nat : \E s \in SUBSET S : Cardinality(s) = n /\ f[s] # 0}
<1>3. T = {}
  <2> SUFFICES ASSUME T # {} PROVE FALSE
    OBVIOUS
  <2>1. PICK n \in T : \A k \in T : n <= k
    BY LeastNumber
  <2>2. PICK s \in SUBSET S : Cardinality(s) = n /\ f[s] # 0
    OBVIOUS
  <2>3. s # {}
    BY <1>2, <2>2 DEF SumBody
  <2>4. PICK x, r : x = OneOf(s) /\ r = s \ {OneOf(s)}
    OBVIOUS
  <2>5. x \in S /\ r \in SUBSET S /\ Cardinality(r) = n - 1 /\ n \in Nat
    BY <2>2, <2>3, <2>4, OneLess
  <2>6. f[r] = 0
    <3>1. Cardinality(r) \in Nat
      BY <2>5, OneLess
    <3>2. n - 1 \notin T
      BY <2>1, <2>5
    <3>3. QED
      BY <2>5, <3>1, <3>2
  <2>7. f[s] = u[x] + f[r]
    BY <1>2, <2>3, <2>4 DEF SumBody
  <2>8. QED
    BY <2>2, <2>5, <2>6, <2>7
<1>4. Cardinality(S) \in Nat /\ S \in SUBSET S
  BY FS_CardinalityType
<1>5. QED
  BY <1>2, <1>3, <1>4

LEMMA InitFrames == Init => FrameInv
<1> SUFFICES ASSUME Init PROVE FrameInv
  OBVIOUS
<1>1. FrameTypes
  <2>1. 0 \in 0..Frames /\ 1 \in 1..(MaxPid + 1)
    BY PageAssumption, MemoryAssumption
  <2>2. QED
    BY <2>1 DEF Init, FrameTypes
<1>2. \A t \in Procs : Members(t) = {}
  BY MemoryAssumption DEF Init, Members, None, Procs
<1>3. \A t \in Procs : Cardinality(mapped[t]) = 0
  BY FS_EmptySet DEF Init
<1>4. PICK u : u = Used
  OBVIOUS
<1>5. u = [t \in Procs |-> 0]
  BY <1>2, <1>3, <1>4 DEF Used
<1>6. IsFiniteSet(Procs)
  BY FS_Interval, MemoryAssumption DEF Procs
<1>7. SumFunction(u) = 0
  BY <1>5, <1>6, SumOfZeros
<1>8. FramesSuffice
  BY <1>4, <1>7 DEF FramesSuffice, Init
<1>9. QED
  BY <1>1, <1>8, InitSpace DEF FrameInv

(* The invariant of the frames: every step pays for what it maps and gives  *)
(* back at most what it unmaps.                                             *)
THEOREM FrameInvariant == Spec => []FrameInv
<1>1. FrameInv /\ [Next]_vars => FrameInv'
  <2> SUFFICES ASSUME FrameInv, [Next]_vars PROVE FrameInv'
    OBVIOUS
  <2>1. ASSUME NEW elf \in Executables, Spawn(elf) PROVE FrameInv'
    BY <2>1, SpawnFrames
  <2>2. ASSUME NEW p \in Procs, VFork(p) PROVE FrameInv'
    BY <2>2, VForkFrames
  <2>3. ASSUME NEW p \in Procs, StackFault(p) PROVE FrameInv'
    BY <2>3, StackFaultFrames
  <2>4. ASSUME NEW p \in Procs, Brk(p) PROVE FrameInv'
    BY <2>4, BrkFrames
  <2>5. ASSUME NEW p \in Procs, Kill(p) PROVE FrameInv'
    BY <2>5, KillFrames
  <2>6. CASE UNCHANGED vars
    <3>1. SpaceInv'
      BY <2>6, SpaceKept DEF vars, FrameInv
    <3>2. FrameTypes'
      BY <2>6 DEF vars, FrameInv, FrameTypes
    <3>3. FramesSuffice'
      BY <2>6 DEF vars, FrameInv, FramesSuffice, Used, Members
    <3>4. QED
      BY <3>1, <3>2, <3>3 DEF FrameInv
  <2>7. QED
    BY <2>1, <2>2, <2>3, <2>4, <2>5, <2>6 DEF Next
<1>2. QED
  BY <1>1, InitFrames, PTL DEF Spec

(* Every variable of AddressSpace has its type: in particular a mapping     *)
(* never leaves the pages there are, and no more frames are taken than      *)
(* there are, nor given back than were taken.                               *)
THEOREM AddressSpaceTypes == Spec => []TypeOK
<1>1. FrameInv => TypeOK
  BY DEF FrameInv, SpaceInv, SpaceTypes, FrameTypes, TypeOK
<1>2. QED
  BY <1>1, FrameInvariant, PTL

(* No frame is given back twice, or while a page table still maps it: the   *)
(* frames taken suffice for every living page table and every page present  *)
(* (map_range and unmap_range of elf lib.rs, ProcessVm::clean_up,           *)
(* Stack::vfork, Heap::brk, however often they fail half way).              *)
THEOREM FramesAreEnough == Spec => []FramesSuffice
<1>1. FrameInv => FramesSuffice
  BY DEF FrameInv
<1>2. QED
  BY <1>1, FrameInvariant, PTL

-----------------------------------------------------------------------------
(* The image of an executable.  A load that succeeds does so with fewer     *)
(* frames taken, too, and puts the same into the same pages.                *)
LEMMA MapRangeExact ==
    ASSUME NEW m, NEW t \in Int, NEW a \in Int, NEW b \in Int, MapRange(m, t, a, b).ok
    PROVE  /\ MapRange(m, t, a, b).pages = m \cup a..b
           /\ MapRange(m, t, a, b).taken = t + (b + 1 - a)
           /\ \A u \in Int : u <= t => MapRange(m, u, a, b).ok
<1>1. Stops(m, t, a, b) = {}
  BY DEF MapRange
<1>2. MapRange(m, t, a, b).pages = m \cup a..b
  BY MapRangeFacts
<1>3. MapRange(m, t, a, b).taken = t + (b + 1 - a)
  BY <1>1 DEF MapRange
<1>4. ASSUME NEW u \in Int, u <= t PROVE MapRange(m, u, a, b).ok
  <2>1. ASSUME NEW p \in a..b PROVE p \notin m /\ ~(u + (p - a) >= Frames)
    <3>1. p \in Int
      OBVIOUS
    <3>2. p \notin m /\ ~(t + (p - a) >= Frames)
      BY <1>1, Zenon DEF Stops
    <3>3. QED
      BY <1>4, <3>1, <3>2, PageAssumption
  <2>2. Stops(m, u, a, b) \subseteq a..b
    BY DEF Stops
  <2>3. Stops(m, u, a, b) = {}
    BY <2>1, <2>2 DEF Stops
  <2>4. QED
    BY <2>3 DEF MapRange
<1>5. QED
  BY <1>2, <1>3, <1>4

(* The pages of a segment, f of its e bytes in the file: first those that   *)
(* are mapped for the file, then those for the rest.                        *)
LEMMA SegmentEnds ==
    ASSUME NEW seg \in Segments, IsLoaded(seg), seg.file <= seg.mem
    PROVE  \E a, b, c \in Int :
              /\ FirstPage(seg) = a /\ PageOf(seg.addr + seg.file - 1) = b
              /\ LastPage(seg) = c /\ BssPages(seg) = (b + 1)..c
              /\ a <= b + 1 /\ b <= c
<1>1. PICK x \in Nat, f \in Nat, e \in Nat :
         x = seg.addr /\ f = seg.file /\ e = seg.mem /\ e > 0 /\ f <= e
  BY DEF Segments, IsLoaded
<1>2. PICK u \in Int, v \in Int, w \in Int, z \in Int :
         u = x - 1 /\ v = x + f - 1 /\ w = x + e - 1 /\ z = x + f
  OBVIOUS
<1>3. u <= v /\ v <= w /\ v = z - 1
  BY <1>1, <1>2
<1>4. PICK y \in Int, a \in Int, b \in Int, c \in Int :
         y = PageOf(u) /\ a = PageOf(x) /\ b = PageOf(v) /\ c = PageOf(w)
  <2>1. \A n \in Int : PageOf(n) \in Int
    BY PageFacts
  <2>2. PageOf(u) \in Int /\ PageOf(x) \in Int /\ PageOf(v) \in Int /\ PageOf(w) \in Int
    BY <2>1
  <2>3. QED
    BY <2>2
<1>5. y <= b /\ b <= c
  BY <1>3, <1>4, PageFacts
<1>6. a <= y + 1
  BY <1>2, <1>4, PageAssumption DEF PageOf
<1>7. PageUp(z) = b + 1
  BY <1>3, <1>4, PageFacts
<1>8. a <= b + 1
  BY <1>5, <1>6
<1>9. e = f => b = c
  BY <1>2, <1>4
<1>10. FirstPage(seg) = a /\ PageOf(seg.addr + seg.file - 1) = b /\ LastPage(seg) = c
  BY <1>1, <1>2, <1>4 DEF FirstPage, LastPage
<1>11. BssPages(seg) = (b + 1)..c
  <2>1. CASE e > f
    BY <1>1, <1>2, <1>7, <1>10, <2>1 DEF BssPages
  <2>2. CASE ~(e > f)
    <3>1. e = f
      BY <1>1, <2>2
    <3>2. BssPages(seg) = {} /\ b = c
      BY <1>1, <1>9, <2>2, <3>1 DEF BssPages
    <3>3. QED
      BY <3>2
  <2>3. QED
    BY <2>1, <2>2
<1>12. QED
  BY <1>5, <1>8, <1>10, <1>11

(* The pages of a segment.                                                  *)
SegmentRange(seg) == FirstPage(seg)..LastPage(seg)

(* A segment that loads into pages of its own: what is in them, and what    *)
(* changes with fewer frames taken before: nothing but their number.        *)
LEMMA SegmentLoaded ==
    ASSUME NEW r, r.taken \in Int, NEW seg \in Segments, IsLoaded(seg), seg.file <= seg.mem,
           LoadSegment(r, seg).ok, NEW q, q.taken \in Int, q.taken <= r.taken, q.ok,
           q.image = r.image
    PROVE  /\ r.ok /\ DOMAIN LoadSegment(r, seg).image = DOMAIN r.image \cup SegmentRange(seg)
           /\ \A page \in DOMAIN r.image : LoadSegment(r, seg).image[page] = r.image[page]
           /\ \A page \in SegmentRange(seg) \ DOMAIN r.image :
                 LoadSegment(r, seg).image[page] = PageImage(seg, page)
           /\ LoadSegment(r, seg).taken \in Int
           /\ LoadSegment(q, seg).ok /\ LoadSegment(q, seg).image = LoadSegment(r, seg).image
           /\ LoadSegment(q, seg).taken \in Int
           /\ LoadSegment(q, seg).taken <= LoadSegment(r, seg).taken
<1>1. r.ok /\ q.ok
  BY DEF LoadSegment
<1>2. PICK a \in Int, b \in Int, c \in Int :
         /\ FirstPage(seg) = a /\ PageOf(seg.addr + seg.file - 1) = b
         /\ LastPage(seg) = c /\ BssPages(seg) = (b + 1)..c
         /\ a <= b + 1 /\ b <= c
  BY SegmentEnds
<1>3. PICK m : m = DOMAIN r.image
  OBVIOUS
<1>4. PICK file : file = MapRange(m, r.taken, a, b)
  OBVIOUS
<1>5. PICK early : early = MapRange(m, q.taken, a, b)
  OBVIOUS
<1>6. file.ok
  BY <1>1, <1>2, <1>3, <1>4 DEF LoadSegment
<1>7. /\ file.pages = m \cup a..b /\ file.taken = r.taken + (b + 1 - a)
       /\ early.ok /\ early.pages = m \cup a..b /\ early.taken = q.taken + (b + 1 - a)
  <2>1. PICK t \in Int, u \in Int : t = r.taken /\ u = q.taken /\ u <= t
    OBVIOUS
  <2>2. /\ file = MapRange(m, t, a, b) /\ early = MapRange(m, u, a, b)
        /\ MapRange(m, t, a, b).ok
    BY <1>4, <1>5, <1>6, <2>1
  <2>3. MapRange(m, u, a, b).ok
    BY <2>1, <2>2, MapRangeExact
  <2>4. file.pages = m \cup a..b /\ file.taken = t + (b + 1 - a)
    BY <2>2, MapRangeExact
  <2>5. early.pages = m \cup a..b /\ early.taken = u + (b + 1 - a)
    BY <2>2, <2>3, MapRangeExact
  <2>6. QED
    BY <2>1, <2>2, <2>3, <2>4, <2>5
<1>8. PICK bss : bss = ((b + 1)..c) \ (m \cup a..b)
  OBVIOUS
<1>9. PICK k \in Nat : k = Cardinality(bss)
  <2>1. IsFiniteSet((b + 1)..c) /\ bss \subseteq (b + 1)..c
    BY <1>8, FS_Interval
  <2>2. QED
    BY <2>1, FS_Subset, FS_CardinalityType
<1>10. PICK s \in Int, z \in Int : s = file.taken + k /\ z = early.taken + k
  BY <1>7
<1>11. s <= Frames /\ z <= s
  <2>1. s <= Frames
    BY <1>1, <1>2, <1>3, <1>4, <1>7, <1>8, <1>9, <1>10 DEF LoadSegment
  <2>2. QED
    BY <1>7, <1>10, <2>1
<1>12. PICK new : new = [page \in (m \cup a..b) \cup bss |->
                            IF page \in m THEN r.image[page] ELSE PageImage(seg, page)]
  OBVIOUS
<1>13. LoadSegment(r, seg) = [image |-> new, taken |-> s, ok |-> TRUE]
  BY <1>1, <1>2, <1>3, <1>4, <1>6, <1>7, <1>8, <1>9, <1>10, <1>11, <1>12
     DEF LoadSegment
<1>14. LoadSegment(q, seg) = [image |-> new, taken |-> z, ok |-> TRUE]
  <2>1. z <= Frames
    BY <1>11, PageAssumption
  <2>2. QED
    BY <1>1, <1>2, <1>3, <1>5, <1>7, <1>8, <1>9, <1>10, <1>12, <2>1, ZenonT(60) DEF LoadSegment
<1>15. SegmentRange(seg) = a..c /\ (m \cup a..b) \cup bss = m \cup a..c
  <2>1. SegmentRange(seg) = a..c
    BY <1>2 DEF SegmentRange
  <2>2. \A p : p \in a..c <=> p \in a..b \/ p \in (b + 1)..c
    BY <1>2
  <2>3. QED
    BY <1>8, <2>1, <2>2
<1>16. QED
  BY <1>1, <1>3, <1>11, <1>12, <1>13, <1>14, <1>15
(* An address on page p, and a segment that begins with a page.             *)
LEMMA PageAddress ==
    ASSUME NEW p \in Nat, NEW b \in 0..(PageBytes - 1)
    PROVE  p * PageBytes + b \in Nat /\ PageOf(p * PageBytes + b) = p
  BY PageAssumption DEF PageOf

LEMMA Aligned ==
    ASSUME NEW x \in Nat, x % PageBytes = 0
    PROVE  PageOf(x) \in Nat /\ x = PageOf(x) * PageBytes
  BY PageAssumption DEF PageOf

LEMMA PageStart ==
    ASSUME NEW a \in Nat
    PROVE  PageOf(a) * PageBytes <= a
  BY PageAssumption DEF PageOf

(* Pages of PageBytes bytes: the distance between two in bytes.             *)
LEMMA PageDistance ==
    ASSUME NEW p \in Nat, NEW q \in Nat
    PROVE  /\ (p - q) * PageBytes = p * PageBytes - q * PageBytes
           /\ q <= p => q * PageBytes <= p * PageBytes
<1>1. PageBytes \in Nat
  BY PageAssumption
<1>2. (p - q) * PageBytes = p * PageBytes - q * PageBytes
  BY <1>1
<1>3. ASSUME q <= p PROVE q * PageBytes <= p * PageBytes
  <2>1. PICK d \in Nat : p = q + d
    <3>1. p - q \in Nat /\ p = q + (p - q)
      BY <1>3
    <3>2. QED
      BY <3>1
  <2>2. p * PageBytes = q * PageBytes + d * PageBytes
    BY <1>1, <2>1
  <2>3. d * PageBytes \in Nat /\ q * PageBytes \in Nat
    BY <1>1
  <2>4. QED
    BY <2>2, <2>3
<1>4. QED
  BY <1>2, <1>3

(* What the linker promises of a loaded segment: it begins with a page and  *)
(* is not larger in the file than in memory.                                *)
Placed(seg) == /\ seg \in Segments /\ IsLoaded(seg)
               /\ seg.addr % PageBytes = 0 /\ seg.file <= seg.mem

LEMMA PlacedFacts ==
    ASSUME NEW seg, Placed(seg)
    PROVE  \E x \in Nat, f \in Nat, e \in Nat, n \in Nat, c \in Nat :
              /\ x = seg.addr /\ f = seg.file /\ e = seg.mem /\ e > 0 /\ f <= e
              /\ x = n * PageBytes /\ n = FirstPage(seg) /\ c = LastPage(seg)
              /\ c = PageOf(x + e - 1) /\ Span(seg) = x..(x + e - 1)
              /\ SegmentRange(seg) = n..c
<1>1. PICK x \in Nat, f \in Nat, e \in Nat :
         x = seg.addr /\ f = seg.file /\ e = seg.mem /\ e > 0 /\ f <= e
  BY DEF Placed, Segments, IsLoaded
<1>2. PICK n \in Nat : n = PageOf(x) /\ x = n * PageBytes
  <2>1. x % PageBytes = 0
    BY <1>1 DEF Placed
  <2>2. QED
    BY <2>1, Aligned
<1>3. PICK l \in Nat : l = x + e - 1
  BY <1>1
<1>4. PICK c \in Nat : c = PageOf(l)
  <2>1. \A a \in Nat : PageOf(a) \in Nat
    BY PageFacts
  <2>2. QED
    BY <2>1
<1>5. FirstPage(seg) = n /\ LastPage(seg) = c /\ Span(seg) = x..(x + e - 1)
  BY <1>1, <1>2, <1>3, <1>4 DEF FirstPage, LastPage, Span
<1>6. QED
  BY <1>1, <1>2, <1>3, <1>4, <1>5 DEF SegmentRange

(* The pages of a segment are those of its addresses.                       *)
LEMMA SpanPages ==
    ASSUME NEW seg, Placed(seg)
    PROVE  /\ \A page \in SegmentRange(seg) : page \in Nat
           /\ \A a \in Span(seg) : a \in Nat /\ PageOf(a) \in SegmentRange(seg)
           /\ \A page \in SegmentRange(seg) : \E a \in Span(seg) : PageOf(a) = page
<1>1. PICK x \in Nat, f \in Nat, e \in Nat, n \in Nat, c \in Nat :
         /\ x = seg.addr /\ f = seg.file /\ e = seg.mem /\ e > 0 /\ f <= e
         /\ x = n * PageBytes /\ n = FirstPage(seg) /\ c = LastPage(seg)
         /\ c = PageOf(x + e - 1) /\ Span(seg) = x..(x + e - 1)
         /\ SegmentRange(seg) = n..c
  BY PlacedFacts
<1>2. PICK l \in Nat : l = x + e - 1
  BY <1>1
<1>3. \A i, j \in Int : i <= j => PageOf(i) <= PageOf(j)
  BY PageFacts
<1>4. \A i \in Nat : PageOf(i) \in Nat
  BY PageFacts
<1>5. PageOf(x) = n
  BY <1>1 DEF FirstPage
<1>6. ASSUME NEW a \in Span(seg) PROVE a \in Nat /\ PageOf(a) \in SegmentRange(seg)
  <2>1. a \in Nat /\ x <= a /\ a <= l
    BY <1>1, <1>2
  <2>2. PageOf(x) <= PageOf(a) /\ PageOf(a) <= PageOf(l) /\ PageOf(a) \in Nat
    BY <1>3, <1>4, <2>1
  <2>3. QED
    BY <1>1, <1>2, <1>5, <2>1, <2>2
<1>7. ASSUME NEW page \in SegmentRange(seg)
      PROVE  page \in Nat /\ \E a \in Span(seg) : PageOf(a) = page
  <2>1. page \in Nat /\ n <= page /\ page <= c
    BY <1>1
  <2>2. PICK a \in Nat : a = page * PageBytes
    BY <2>1, PageAssumption
  <2>3. PageOf(a) = page
    <3>1. a = page * PageBytes + 0 /\ 0 \in 0..(PageBytes - 1)
      BY <2>2, PageAssumption
    <3>2. QED
      BY <2>1, <3>1, PageAddress
  <2>4. x <= a
    BY <1>1, <2>1, <2>2, PageDistance
  <2>5. a <= l
    <3>1. c * PageBytes <= l
      BY <1>1, <1>2, PageStart
    <3>2. a <= c * PageBytes
      BY <2>1, <2>2, PageDistance
    <3>3. c * PageBytes \in Nat
      BY PageAssumption
    <3>4. QED
      BY <3>1, <3>2, <3>3
  <2>6. a \in Span(seg)
    BY <1>1, <1>2, <2>4, <2>5
  <2>7. QED
    BY <2>1, <2>3, <2>6
<1>8. QED
  BY <1>6, <1>7

(* Segments that lie apart have no page in common.                          *)
LEMMA PagesApart ==
    ASSUME NEW seg, NEW other, Placed(seg), Placed(other), Apart(seg, other)
    PROVE  SegmentRange(seg) \cap SegmentRange(other) = {}
<1>1. ASSUME NEW s, NEW o, Placed(s), Placed(o), s.addr + s.mem <= o.addr
      PROVE  SegmentRange(s) \cap SegmentRange(o) = {}
  <2>1. PICK x \in Nat, f \in Nat, e \in Nat, n \in Nat, c \in Nat :
           /\ x = s.addr /\ f = s.file /\ e = s.mem /\ e > 0 /\ f <= e
           /\ x = n * PageBytes /\ n = FirstPage(s) /\ c = LastPage(s)
           /\ c = PageOf(x + e - 1) /\ Span(s) = x..(x + e - 1)
           /\ SegmentRange(s) = n..c
    BY <1>1, PlacedFacts
  <2>2. PICK y \in Nat, g \in Nat, h \in Nat, m \in Nat, d \in Nat :
           /\ y = o.addr /\ g = o.file /\ h = o.mem /\ h > 0 /\ g <= h
           /\ y = m * PageBytes /\ m = FirstPage(o) /\ d = LastPage(o)
           /\ d = PageOf(y + h - 1) /\ Span(o) = y..(y + h - 1)
           /\ SegmentRange(o) = m..d
    BY <1>1, PlacedFacts
  <2>3. PICK l \in Nat : l = x + e - 1
    BY <2>1
  <2>4. l < m * PageBytes
    BY <1>1, <2>1, <2>2, <2>3, SMTT(30)
  <2>5. c < m
    BY <2>1, <2>3, <2>4, PageBelow
  <2>6. QED
    BY <2>1, <2>2, <2>5
<1>2. CASE seg.addr + seg.mem <= other.addr
  BY <1>1, <1>2
<1>3. CASE other.addr + other.mem <= seg.addr
  BY <1>1, <1>3
<1>4. QED
  BY <1>2, <1>3 DEF Apart

(* What is loaded of the first i segments: pages and their bytes.           *)
Holds(elf, i, image) ==
    /\ \A page : page \in DOMAIN image <=>
                    \E j \in 1..i : IsLoaded(elf[j]) /\ page \in SegmentRange(elf[j])
    /\ \A j \in 1..i : IsLoaded(elf[j]) =>
          \A page \in SegmentRange(elf[j]) : image[page] = PageImage(elf[j], page)

(* One more segment, apart from those before.                               *)
LEMMA HoldsMore ==
    ASSUME NEW elf, NEW i \in Nat \ {0}, NEW old, NEW new, Holds(elf, i - 1, old),
           DOMAIN new = DOMAIN old \cup SegmentRange(elf[i]), IsLoaded(elf[i]),
           \A page \in DOMAIN old : new[page] = old[page],
           \A page \in SegmentRange(elf[i]) \ DOMAIN old : new[page] = PageImage(elf[i], page),
           \A j \in 1..(i - 1) : IsLoaded(elf[j]) =>
                SegmentRange(elf[j]) \cap SegmentRange(elf[i]) = {}
    PROVE  Holds(elf, i, new)
<1>1. \A j : j \in 1..i <=> j = i \/ j \in 1..(i - 1)
  OBVIOUS
<1>2. \A page : page \in DOMAIN old <=>
         \E j \in 1..(i - 1) : IsLoaded(elf[j]) /\ page \in SegmentRange(elf[j])
  BY DEF Holds
<1>3. \A page : page \in DOMAIN new <=>
         \E j \in 1..i : IsLoaded(elf[j]) /\ page \in SegmentRange(elf[j])
  BY <1>1, <1>2
<1>4. ASSUME NEW j \in 1..i, IsLoaded(elf[j]), NEW page \in SegmentRange(elf[j])
      PROVE  new[page] = PageImage(elf[j], page)
  <2>1. CASE j = i
    <3>1. page \notin DOMAIN old
      BY <1>2, <1>4, <2>1
    <3>2. QED
      BY <1>4, <2>1, <3>1
  <2>2. CASE j \in 1..(i - 1)
    <3>1. page \in DOMAIN old /\ old[page] = PageImage(elf[j], page)
      BY <1>2, <1>4, <2>2 DEF Holds
    <3>2. QED
      BY <3>1
  <2>3. QED
    BY <1>1, <2>1, <2>2
<1>5. QED
  BY <1>3, <1>4 DEF Holds

LEMMA ExecutableFacts ==
    ASSUME NEW elf \in Executables
    PROVE  \E n \in Nat :
              /\ DOMAIN elf = 1..n
              /\ \A i \in 1..n : elf[i] \in Segments
              /\ \A i \in 1..n : IsLoaded(elf[i]) => Placed(elf[i])
              /\ \A i, j \in 1..n : IsLoaded(elf[i]) /\ IsLoaded(elf[j]) /\ i # j =>
                    SegmentRange(elf[i]) \cap SegmentRange(elf[j]) = {}
<1>1. PICK n \in Nat : n = Len(elf)
  BY LinkerAssumption
<1>2. DOMAIN elf = 1..n /\ \A i \in 1..n : elf[i] \in Segments
  BY <1>1, LinkerAssumption
<1>3. ASSUME NEW i \in 1..n, IsLoaded(elf[i]) PROVE Placed(elf[i])
  <2>1. i \in DOMAIN elf
    BY <1>2
  <2>2. elf[i].addr % PageBytes = 0 /\ elf[i].file \in 0..elf[i].mem
    BY <2>1, LinkerAssumption, Zenon
  <2>3. elf[i].file <= elf[i].mem
    BY <2>2
  <2>4. QED
    BY <1>2, <1>3, <2>2, <2>3 DEF Placed
<1>4. ASSUME NEW i \in 1..n, NEW j \in 1..n, IsLoaded(elf[i]), IsLoaded(elf[j]), i # j
      PROVE  SegmentRange(elf[i]) \cap SegmentRange(elf[j]) = {}
  <2>1. elf[i].load /\ elf[j].load
    BY <1>4 DEF IsLoaded
  <2>2. Apart(elf[i], elf[j])
    BY <1>2, <1>4, <2>1, LinkerAssumption
  <2>3. QED
    BY <1>3, <1>4, <2>2, PagesApart
<1>5. QED
  BY <1>2, <1>3, <1>4

(* A load that succeeds with t frames taken does so with fewer, and puts    *)
(* the same into the same pages: what the segments are linked to.           *)
LEMMA LoadElfSooner ==
    ASSUME NEW elf \in Executables, NEW t \in Int, NEW u \in Int, u <= t, LoadElf(elf, t).ok
    PROVE  LoadElf(elf, u).ok /\ Holds(elf, Len(elf), LoadElf(elf, u).image)
<1>1. PICK n \in Nat :
         /\ DOMAIN elf = 1..n
         /\ \A i \in 1..n : elf[i] \in Segments
         /\ \A i \in 1..n : IsLoaded(elf[i]) => Placed(elf[i])
         /\ \A i, j \in 1..n : IsLoaded(elf[i]) /\ IsLoaded(elf[j]) /\ i # j =>
               SegmentRange(elf[i]) \cap SegmentRange(elf[j]) = {}
  BY ExecutableFacts
<1>2. \A x : \E f : /\ f[0] = Unloaded(x) /\ f[n] = LoadElf(elf, x)
                  /\ \A i \in 1..n : f[i] = LoadSegment(f[i - 1], elf[i])
  <2>1. DOMAIN elf = 1..n
    BY <1>1
  <2>2. QED
    BY <2>1, LoadElfSteps
<1>3. PICK r : /\ r[0] = Unloaded(t) /\ r[n] = LoadElf(elf, t)
               /\ \A i \in 1..n : r[i] = LoadSegment(r[i - 1], elf[i])
  BY <1>2
<1>4. PICK q : /\ q[0] = Unloaded(u) /\ q[n] = LoadElf(elf, u)
               /\ \A i \in 1..n : q[i] = LoadSegment(q[i - 1], elf[i])
  BY <1>2
<1> DEFINE Good(i) == r[i].ok => /\ r[i].taken \in Int /\ q[i].taken \in Int
                                 /\ q[i].taken <= r[i].taken /\ q[i].ok
                                 /\ q[i].image = r[i].image /\ Holds(elf, i, r[i].image)
           T == {i \in 0..n : ~Good(i)}
<1>5. Good(0)
  <2>1. DOMAIN r[0].image = {}
    BY <1>3 DEF Unloaded
  <2>2. Holds(elf, 0, r[0].image)
    BY <2>1 DEF Holds
  <2>3. QED
    BY <1>3, <1>4, <2>2 DEF Unloaded
<1>6. ASSUME NEW i \in 1..n, Good(i - 1) PROVE Good(i)
  <2> SUFFICES ASSUME r[i].ok
               PROVE  /\ r[i].taken \in Int /\ q[i].taken \in Int
                      /\ q[i].taken <= r[i].taken /\ q[i].ok
                      /\ q[i].image = r[i].image /\ Holds(elf, i, r[i].image)
    OBVIOUS
  <2>1. PICK s, z, seg : s = r[i - 1] /\ z = q[i - 1] /\ seg = elf[i]
    OBVIOUS
  <2>2. r[i] = LoadSegment(s, seg) /\ q[i] = LoadSegment(z, seg)
    BY <1>3, <1>4, <2>1
  <2>3. s.ok
    BY <2>2 DEF LoadSegment
  <2>4. /\ s.taken \in Int /\ z.taken \in Int /\ z.taken <= s.taken /\ z.ok
        /\ z.image = s.image /\ Holds(elf, i - 1, s.image)
    BY <1>6, <2>1, <2>3
  <2>5. CASE IsLoaded(seg)
    <3>1. Placed(seg)
      BY <1>1, <2>1, <2>5
    <3>2. /\ DOMAIN r[i].image = DOMAIN s.image \cup SegmentRange(seg)
          /\ \A page \in DOMAIN s.image : r[i].image[page] = s.image[page]
          /\ \A page \in SegmentRange(seg) \ DOMAIN s.image :
                r[i].image[page] = PageImage(seg, page)
          /\ r[i].taken \in Int /\ q[i].ok /\ q[i].image = r[i].image
          /\ q[i].taken \in Int /\ q[i].taken <= r[i].taken
      <4>1. seg \in Segments /\ seg.file <= seg.mem
        BY <3>1 DEF Placed
      <4>2. LoadSegment(s, seg).ok
        BY <2>2
      <4>3. QED
        BY <2>2, <2>4, <2>5, <4>1, <4>2, SegmentLoaded
    <3>3. \A j \in 1..(i - 1) : IsLoaded(elf[j]) =>
             SegmentRange(elf[j]) \cap SegmentRange(elf[i]) = {}
      <4>1. \A j \in 1..(i - 1) : j \in 1..n /\ j # i
        OBVIOUS
      <4>2. QED
        BY <1>1, <2>1, <2>5, <4>1
    <3>4. Holds(elf, i, r[i].image)
      <4>1. i \in Nat \ {0}
        OBVIOUS
      <4>2. QED
        BY <2>1, <2>4, <2>5, <3>2, <3>3, <4>1, HoldsMore, SMTT(30)
    <3>5. QED
      BY <3>2, <3>4
  <2>6. CASE ~IsLoaded(seg)
    <3>1. r[i] = s /\ q[i] = z
      BY <2>2, <2>6 DEF LoadSegment
    <3>2. \A j : j \in 1..i <=> j = i \/ j \in 1..(i - 1)
      OBVIOUS
    <3>3. Holds(elf, i, s.image)
      BY <2>1, <2>4, <2>6, <3>2 DEF Holds
    <3>4. QED
      BY <2>4, <3>1, <3>3
  <2>7. QED
    BY <2>5, <2>6
<1>7. T = {}
  <2> HIDE DEF Good
  <2> SUFFICES ASSUME T # {} PROVE FALSE
    OBVIOUS
  <2>1. PICK i \in T : \A j \in T : i <= j
    <3>1. T \in SUBSET Nat
      OBVIOUS
    <3> HIDE DEF T
    <3>2. QED
      BY <3>1, LeastNumber
  <2>2. i \in 0..n /\ ~Good(i)
    OBVIOUS
  <2>3. i \in 1..n /\ i - 1 \in 0..n /\ i - 1 \notin T
    BY <1>5, <2>1, <2>2
  <2>4. QED
    BY <1>6, <2>2, <2>3
<1>8. Good(n)
  <2> HIDE DEF Good
  <2>1. QED
    BY <1>7
<1>9. n = Len(elf)
  BY <1>1, LinkerAssumption
<1>10. QED
  BY <1>3, <1>4, <1>8, <1>9

(* A byte of a segment's page: that of its address in the file, or zero.    *)
LEMMA ByteOfSegment ==
    ASSUME NEW seg, Placed(seg), NEW page \in SegmentRange(seg), NEW b \in 0..(PageBytes - 1),
           NEW a \in Int, a = page * PageBytes + b
    PROVE  /\ a \in Span(seg) => PageImage(seg, page)[b] =
                 IF a - seg.addr < seg.file THEN seg.offset + (a - seg.addr) ELSE Zero
           /\ a \notin Span(seg) => PageImage(seg, page)[b] = Zero
<1>1. PICK x \in Nat, f \in Nat, e \in Nat, n \in Nat, c \in Nat :
         /\ x = seg.addr /\ f = seg.file /\ e = seg.mem /\ e > 0 /\ f <= e
         /\ x = n * PageBytes /\ n = FirstPage(seg) /\ c = LastPage(seg)
         /\ c = PageOf(x + e - 1) /\ Span(seg) = x..(x + e - 1)
         /\ SegmentRange(seg) = n..c
  BY PlacedFacts
<1>2. page \in Nat /\ n <= page
  BY <1>1
<1>3. PICK k \in Int : k = (page - n) * PageBytes + b
  <2>1. (page - n) * PageBytes \in Int /\ b \in Int
    BY <1>2, PageAssumption
  <2>2. QED
    BY <2>1
<1>4. k = a - x /\ a >= x
  <2>1. (page - n) * PageBytes = page * PageBytes - n * PageBytes
    BY <1>2, PageDistance
  <2>2. n * PageBytes <= page * PageBytes
    BY <1>2, PageDistance
  <2>3. PICK y \in Int : y = page * PageBytes
    BY <1>2, PageAssumption
  <2>4. k = (y - x) + b /\ a = y + b /\ x <= y /\ b \in Nat
    BY <1>1, <1>3, <2>1, <2>2, <2>3
  <2>5. QED
    BY <2>4
<1>5. PageImage(seg, page)[b] = IF k < f THEN seg.offset + k ELSE Zero
  BY <1>1, <1>3 DEF PageImage
<1>6. CASE a \in Span(seg)
  BY <1>1, <1>4, <1>5, <1>6
<1>7. CASE a \notin Span(seg)
  <2>1. a \notin x..(x + e - 1) /\ f <= e /\ k = a - x /\ a >= x
    BY <1>1, <1>4, <1>7
  <2>2. a >= x + e
    BY <2>1
  <2>3. ~(k < f)
    BY <2>1, <2>2
  <2>4. QED
    BY <1>5, <1>7, <2>3
<1>8. QED
  BY <1>6, <1>7

(* The addresses of an executable are those of the segments that are loaded. *)
LEMMA SpanLoaded ==
    ASSUME NEW seg \in Segments, seg.load, NEW a \in Span(seg)
    PROVE  IsLoaded(seg)
<1>1. PICK x \in Nat, e \in Nat : x = seg.addr /\ e = seg.mem
  BY DEF Segments
<1>2. a \in x..(x + e - 1)
  BY <1>1 DEF Span
<1>3. e > 0
  BY <1>2
<1>4. QED
  BY <1>1, <1>3 DEF IsLoaded

LEMMA LinkedFacts ==
    ASSUME NEW elf, NEW n, DOMAIN elf = 1..n, \A i \in 1..n : elf[i] \in Segments
    PROVE  \A a : a \in Linked(elf) <=> \E j \in 1..n : IsLoaded(elf[j]) /\ a \in Span(elf[j])
<1>1. ASSUME NEW j \in 1..n, elf[j].load, NEW a \in Span(elf[j]) PROVE IsLoaded(elf[j])
  BY <1>1, SpanLoaded
<1>2. \A j \in 1..n : IsLoaded(elf[j]) => elf[j].load
  BY DEF IsLoaded
<1>3. \A a : a \in Linked(elf) <=> \E j \in 1..n : elf[j].load /\ a \in Span(elf[j])
  BY DEF Linked
<1>4. QED
  BY <1>1, <1>2, <1>3

(* An image that holds all segments is the one the executable is linked to. *)
ImageFine(elf, image) ==
    /\ DOMAIN image = {PageOf(a) : a \in Linked(elf)}
    /\ \A page \in DOMAIN image : \A b \in 0..(PageBytes - 1) :
          image[page][b] = LinkedByte(elf, page * PageBytes + b)

LEMMA HeldImage ==
    ASSUME NEW elf \in Executables, NEW image, Holds(elf, Len(elf), image)
    PROVE  ImageFine(elf, image)
<1>1. PICK n \in Nat :
         /\ DOMAIN elf = 1..n
         /\ \A i \in 1..n : elf[i] \in Segments
         /\ \A i \in 1..n : IsLoaded(elf[i]) => Placed(elf[i])
         /\ \A i, j \in 1..n : IsLoaded(elf[i]) /\ IsLoaded(elf[j]) /\ i # j =>
               SegmentRange(elf[i]) \cap SegmentRange(elf[j]) = {}
  BY ExecutableFacts
<1>2. Holds(elf, n, image)
  <2>1. n = Len(elf)
    BY <1>1, LinkerAssumption
  <2>2. QED
    BY <2>1
<1>3. \A a : a \in Linked(elf) <=> \E j \in 1..n : IsLoaded(elf[j]) /\ a \in Span(elf[j])
  BY <1>1, LinkedFacts
<1>4. DOMAIN image = {PageOf(a) : a \in Linked(elf)}
  <2>1. ASSUME NEW page \in DOMAIN image PROVE \E a \in Linked(elf) : PageOf(a) = page
    <3>1. PICK j \in 1..n : IsLoaded(elf[j]) /\ page \in SegmentRange(elf[j])
      BY <1>2 DEF Holds
    <3>2. PICK a \in Span(elf[j]) : PageOf(a) = page
      BY <1>1, <3>1, SpanPages
    <3>3. QED
      BY <1>3, <3>1, <3>2
  <2>2. ASSUME NEW a \in Linked(elf) PROVE PageOf(a) \in DOMAIN image
    <3>1. PICK j \in 1..n : IsLoaded(elf[j]) /\ a \in Span(elf[j])
      BY <1>3
    <3>2. PageOf(a) \in SegmentRange(elf[j])
      BY <1>1, <3>1, SpanPages
    <3>3. QED
      BY <1>2, <3>1, <3>2 DEF Holds
  <2>3. QED
    BY <2>1, <2>2
<1>5. ASSUME NEW page \in DOMAIN image, NEW b \in 0..(PageBytes - 1)
      PROVE  image[page][b] = LinkedByte(elf, page * PageBytes + b)
  <2>1. PICK j \in 1..n : IsLoaded(elf[j]) /\ page \in SegmentRange(elf[j])
    BY <1>2 DEF Holds
  <2>2. image[page] = PageImage(elf[j], page) /\ Placed(elf[j])
    BY <1>1, <1>2, <2>1 DEF Holds
  <2>3. page \in Nat
    BY <2>1, <2>2, SpanPages
  <2>4. PICK a \in Nat : a = page * PageBytes + b /\ PageOf(a) = page
    BY <2>3, PageAddress
  <2>5. \A k \in 1..n : IsLoaded(elf[k]) /\ a \in Span(elf[k]) => k = j
    <3>1. ASSUME NEW k \in 1..n, IsLoaded(elf[k]), a \in Span(elf[k]) PROVE k = j
      <4>1. page \in SegmentRange(elf[k])
        BY <1>1, <2>4, <3>1, SpanPages
      <4>2. QED
        BY <1>1, <2>1, <3>1, <4>1
    <3>2. QED
      BY <3>1
  <2>6. CASE a \in Span(elf[j])
    <3>1. a \in Linked(elf)
      BY <1>3, <2>1, <2>6
    <3>2. \A k \in DOMAIN elf : elf[k].load /\ a \in Span(elf[k]) => IsLoaded(elf[k])
      BY <1>1, SpanLoaded
    <3>3. SegmentAt(elf, a) = elf[j]
      <4>1. j \in DOMAIN elf /\ elf[j].load
        BY <1>1, <2>1 DEF IsLoaded
      <4>2. \A k \in DOMAIN elf : elf[k].load /\ a \in Span(elf[k]) => k = j
        BY <1>1, <2>5, <3>2
      <4>3. (CHOOSE k \in DOMAIN elf : elf[k].load /\ a \in Span(elf[k])) = j
        BY <2>6, <4>1, <4>2
      <4>4. QED
        BY <4>3 DEF SegmentAt
    <3>4. LinkedByte(elf, a) =
             IF a - elf[j].addr < elf[j].file THEN elf[j].offset + (a - elf[j].addr) ELSE Zero
      BY <3>1, <3>3 DEF LinkedByte
    <3>5. QED
      BY <2>1, <2>2, <2>4, <2>6, <3>4, ByteOfSegment
  <2>7. CASE a \notin Span(elf[j])
    <3>1. a \notin Linked(elf)
      BY <1>3, <2>5, <2>7
    <3>2. LinkedByte(elf, a) = Zero
      BY <3>1 DEF LinkedByte
    <3>3. QED
      BY <2>1, <2>2, <2>4, <2>7, <3>2, ByteOfSegment
  <2>8. QED
    BY <2>6, <2>7
<1>6. QED
  BY <1>4, <1>5 DEF ImageFine

(* The invariant: every table's executable would load as it is linked.      *)
ImagesFine == \A t \in Procs : ImageFine(exe[t], LoadElf(exe[t], 0).image)

LEMMA NothingLoaded == ImageFine(<<>>, LoadElf(<<>>, 0).image)
<1>1. DOMAIN <<>> = 1..0
  OBVIOUS
<1>2. PICK r : r[0] = Unloaded(0) /\ r[0] = LoadElf(<<>>, 0)
  BY <1>1, LoadElfSteps
<1>3. DOMAIN LoadElf(<<>>, 0).image = {}
  BY <1>2 DEF Unloaded
<1>4. Linked(<<>>) = {}
  BY DEF Linked
<1>5. QED
  BY <1>3, <1>4 DEF ImageFine

(* A spawned process has an executable that has just loaded.                *)
LEMMA SpawnedImage ==
    ASSUME FrameInv, NEW elf \in Executables, Loaded(elf).ok
    PROVE  ImageFine(elf, LoadElf(elf, 0).image)
<1>1. PICK t \in Int : t = taken + 1 /\ 0 <= t
  BY DEF FrameInv, FrameTypes
<1>2. LoadElf(elf, t).ok
  BY <1>1 DEF Loaded
<1>3. Holds(elf, Len(elf), LoadElf(elf, 0).image)
  BY <1>1, <1>2, LoadElfSooner
<1>4. QED
  BY <1>3, HeldImage

LEMMA ImagesNext ==
    ASSUME FrameInv, ImagesFine, [Next]_vars
    PROVE  ImagesFine'
<1>1. exe \in [Procs -> Executables \cup {<<>>}]
  BY DEF FrameInv, SpaceInv, SpaceTypes
<1>2. ASSUME NEW elf \in Executables, Spawn(elf) PROVE ImagesFine'
  <2>1. CASE exe' = exe
    BY <2>1 DEF ImagesFine
  <2>2. CASE exe' = [exe EXCEPT ![nextPid] = elf] /\ Loaded(elf).ok
    <3>1. ImageFine(elf, LoadElf(elf, 0).image)
      BY <2>2, SpawnedImage
    <3>2. ASSUME NEW t \in Procs PROVE ImageFine(exe'[t], LoadElf(exe'[t], 0).image)
      <4>1. exe'[t] = elf \/ exe'[t] = exe[t]
        BY <1>1, <2>2
      <4>2. QED
        BY <3>1, <4>1 DEF ImagesFine
    <3>3. QED
      BY <3>2 DEF ImagesFine
  <2>3. QED
    BY <1>2, <2>1, <2>2 DEF Spawn
<1>3. ASSUME NEW p \in Procs, Kill(p) PROVE ImagesFine'
  <2>1. ASSUME NEW t \in Procs PROVE ImageFine(exe'[t], LoadElf(exe'[t], 0).image)
    <3>1. exe'[t] = <<>> \/ exe'[t] = exe[t]
      BY <1>1, <1>3 DEF Kill
    <3>2. QED
      BY <3>1, NothingLoaded DEF ImagesFine
  <2>2. QED
    BY <2>1 DEF ImagesFine
<1>4. ASSUME exe' = exe PROVE ImagesFine'
  BY <1>4 DEF ImagesFine
<1>5. ASSUME NEW p \in Procs, VFork(p) \/ StackFault(p) \/ Brk(p) PROVE exe' = exe
  BY <1>5 DEF VFork, StackFault, Brk
<1>6. UNCHANGED vars => exe' = exe
  BY DEF vars
<1>7. QED
  BY <1>2, <1>3, <1>4, <1>5, <1>6 DEF Next

(* Every process starts with the memory its executable describes (elf       *)
(* lib.rs:292-446): the bytes of its segments at their addresses, zeros in  *)
(* the rest of their pages, and no page more.                               *)
THEOREM ImagesAsLinked == Spec => []ImageAsLinked
<1>1. Init => ImagesFine
  <2> SUFFICES ASSUME Init PROVE ImagesFine
    OBVIOUS
  <2>1. \A t \in Procs : exe[t] = <<>>
    BY DEF Init
  <2>2. QED
    BY <2>1, NothingLoaded DEF ImagesFine
<1>2. FrameInv /\ ImagesFine /\ [Next]_vars => ImagesFine'
  BY ImagesNext
<1>3. ImagesFine => ImageAsLinked
  BY DEF ImagesFine, ImageFine, ImageAsLinked
<1>4. QED
  BY <1>1, <1>2, <1>3, FrameInvariant, PTL DEF Spec
=============================================================================
