---------------------------- MODULE StorageProofs ----------------------------
(***************************************************************************)
(* Theorems about the two ends of the storage.                             *)
(*                                                                         *)
(* Files, for every set of well-formed volumes, of paths and of buffer     *)
(* lengths, whatever blocks the drive fails to read: a read delivers the   *)
(* bytes of its file in order, open finds the entry a path leads to and    *)
(* returns a descriptor that was free, and a listing names all a directory *)
(* shows.                                                                  *)
(*                                                                         *)
(* AtaBus, for every size of sector, every medium and all kinds of drives: *)
(* data moves only in step with the drive, and the bus is the block device *)
(* that its users take it for.                                             *)
(***************************************************************************)
EXTENDS Files, AtaBus, FiniteSetTheorems, FunctionTheorems, SequenceTheorems, TLAPS


-----------------------------------------------------------------------------
(* Numbers.                                                                 *)

(* The principle of induction, in a form that needs no predicate.           *)
LEMMA LeastNumber ==
    ASSUME NEW T \in SUBSET Nat, T # {}
    PROVE  \E m \in T : \A k \in T : m <= k
<1> DEFINE R == OpToRel(<, Nat)
<1>1. IsWellFoundedOn(R, Nat)
  BY NatLessThanWellFounded
<1>2. PICK m \in T : \A k \in T : <<k, m>> \notin R
  BY <1>1, WFMin
<1>3. \A k \in T : ~(k < m)
  BY <1>2 DEF OpToRel
<1>4. QED
  BY <1>3

(* The members of a set of numbers, counted from the smallest.              *)
LEMMA RankFacts ==
    ASSUME NEW n \in Nat, NEW S \in SUBSET (1..n)
    PROVE  /\ IsFiniteSet(S) /\ Cardinality(S) \in Nat
           /\ \A k \in S : Rank(S, k) \in 1..Cardinality(S)
           /\ \A j, k \in S : j < k => Rank(S, j) < Rank(S, k)
           /\ \A j, k \in S : Rank(S, j) = Rank(S, k) => j = k
           /\ \A m \in 1..Cardinality(S) : \E k \in S : Rank(S, k) = m
<1>1. IsFiniteSet(S) /\ Cardinality(S) \in Nat
  <2>1. IsFiniteSet(1..n)
    BY FS_Interval
  <2>2. IsFiniteSet(S)
    BY <2>1, FS_Subset
  <2>3. QED
    BY <2>2, FS_CardinalityType
<1>2. ASSUME NEW k \in S PROVE Rank(S, k) \in 1..Cardinality(S)
  <2> DEFINE U == {j \in S : j <= k}
  <2>1. U \in SUBSET S /\ U # {}
    OBVIOUS
  <2>2. IsFiniteSet(U) /\ Cardinality(U) <= Cardinality(S)
    BY <1>1, <2>1, FS_Subset
  <2>3. Cardinality(U) \in Nat /\ Cardinality(U) # 0
    BY <2>1, <2>2, FS_CardinalityType, FS_EmptySet
  <2>4. QED
    BY <1>1, <2>2, <2>3 DEF Rank
<1>3. ASSUME NEW j \in S, NEW k \in S, j < k PROVE Rank(S, j) < Rank(S, k)
  <2> DEFINE U == {i \in S : i <= j}
             W == {i \in S : i <= k}
  <2>1. W \in SUBSET S /\ U \in SUBSET W /\ k \in W /\ k \notin U
    <3>1. j \in Nat /\ k \in Nat /\ S \subseteq Nat
      OBVIOUS
    <3>2. ~(k <= j) /\ k <= k /\ \A i \in S : i <= j => i <= k
      BY <1>3, <3>1
    <3>3. QED
      BY <3>2
  <2>2. IsFiniteSet(W)
    BY <1>1, <2>1, FS_Subset
  <2>3. Cardinality(U) <= Cardinality(W) /\ Cardinality(W) # Cardinality(U)
    BY <2>1, <2>2, FS_Subset
  <2>4. Cardinality(U) = Rank(S, j) /\ Cardinality(W) = Rank(S, k)
    BY DEF Rank
  <2>5. QED
    BY <1>2, <2>3, <2>4
<1>4. \A j, k \in S : Rank(S, j) = Rank(S, k) => j = k
  <2> SUFFICES ASSUME NEW j \in S, NEW k \in S, Rank(S, j) = Rank(S, k), j # k PROVE FALSE
    OBVIOUS
  <2>1. Rank(S, j) \in Nat /\ Rank(S, k) \in Nat /\ (j < k \/ k < j)
    BY <1>2, <1>1
  <2>2. CASE j < k
    <3>1. Rank(S, j) < Rank(S, k)
      BY <1>3, <2>2
    <3>2. QED
      BY <2>1, <3>1
  <2>3. CASE k < j
    <3>1. Rank(S, k) < Rank(S, j)
      BY <1>3, <2>3
    <3>2. QED
      BY <2>1, <3>1
  <2>4. QED
    BY <2>1, <2>2, <2>3
<1>5. ASSUME NEW m \in 1..Cardinality(S) PROVE \E k \in S : Rank(S, k) = m
  <2> DEFINE f == [k \in S |-> Rank(S, k)]
  <2>1. f \in Injection(S, 1..Cardinality(S))
    BY <1>2, <1>4 DEF Injection, IsInjective
  <2>2. IsFiniteSet(1..Cardinality(S)) /\ Cardinality(1..Cardinality(S)) = Cardinality(S)
    BY <1>1, FS_Interval
  <2>3. f \in Surjection(S, 1..Cardinality(S))
    BY <2>1, <2>2, FS_Injection
  <2>4. QED
    BY <2>3 DEF Surjection
<1>6. QED
  BY <1>1, <1>2, <1>3, <1>4, <1>5

(* One more member, larger than the others, comes last.                     *)
LEMMA RankNew ==
    ASSUME NEW n \in Nat, NEW S \in SUBSET (1..n), NEW k \in Nat, n < k
    PROVE  /\ Cardinality(S \cup {k}) = Cardinality(S) + 1
           /\ Rank(S \cup {k}, k) = Cardinality(S) + 1
           /\ \A j \in S : Rank(S \cup {k}, j) = Rank(S, j)
<1>1. IsFiniteSet(S) /\ k \notin S
  <2>1. IsFiniteSet(S)
    BY ONLY RankFacts, n \in Nat, S \in SUBSET (1..n), Zenon
  <2>2. QED
    BY <2>1
<1>2. Cardinality(S \cup {k}) = Cardinality(S) + 1
  BY <1>1, FS_AddElement
<1>3. {j \in S \cup {k} : j <= k} = S \cup {k}
  <2>1. \A j \in S \cup {k} : j <= k
    OBVIOUS
  <2>2. QED
    BY <2>1
<1>4. ASSUME NEW j \in S
      PROVE  {i \in S \cup {k} : i <= j} = {i \in S : i <= j}
  <2>1. ~(k <= j)
    OBVIOUS
  <2>2. QED
    BY <2>1
<1>5. QED
  BY <1>2, <1>3, <1>4 DEF Rank

(* Quotient and remainder, and how to recognise them.                       *)
LEMMA DivFacts ==
    ASSUME NEW a \in Nat, NEW d \in Nat \ {0}
    PROVE  /\ a \div d \in Nat /\ (a % d) \in 0..(d - 1)
           /\ a = (a \div d) * d + (a % d)
OBVIOUS

LEMMA DivUnique ==
    ASSUME NEW d \in Nat \ {0}, NEW q \in Nat, NEW r \in 0..(d - 1)
    PROVE  (q * d + r) \div d = q /\ ((q * d + r) % d) = r
<1>1. PICK a \in Nat : a = q * d + r
  <2>1. q * d \in Nat
    OBVIOUS
  <2>2. QED
    BY <2>1
<1>2. PICK p \in Nat : p = a \div d
  BY DivFacts
<1>3. PICK s \in 0..(d - 1) : s = (a % d) /\ a = p * d + s
  BY <1>2, DivFacts
<1>4. (q - p) * d = s - r
  BY <1>1, <1>3
<1>5. q = p
  <2>1. PICK x \in Int : x = q - p
    OBVIOUS
  <2>2. x * d = s - r /\ s - r < d /\ s - r > 0 - d
    BY <1>4, <2>1
  <2>3. x >= 1 => x * d >= d
    OBVIOUS
  <2>4. x <= 0 - 1 => x * d <= 0 - d
    OBVIOUS
  <2>5. x * d \in Int /\ s - r \in Int
    OBVIOUS
  <2>6. ~(x >= 1) /\ ~(x <= 0 - 1)
    BY <2>2, <2>3, <2>4, <2>5
  <2>7. QED
    BY <2>1, <2>6
<1>6. QED
  BY <1>1, <1>2, <1>3, <1>4, <1>5

(* A product grows with its factors.                                        *)
LEMMA ProductGrows ==
    ASSUME NEW a \in Nat, NEW b \in Nat, NEW d \in Nat, a <= b
    PROVE  a * d \in Nat /\ b * d \in Nat /\ a * d <= b * d
<1>1. PICK x \in Nat : b = a + x
  <2>1. b - a \in Nat /\ b = a + (b - a)
    OBVIOUS
  <2>2. QED
    BY <2>1
<1>2. b * d = a * d + x * d /\ a * d \in Nat /\ x * d \in Nat
  BY <1>1
<1>3. QED
  BY <1>2

(* A place in the n-th of several blocks of d lies before their end.        *)
LEMMA ProductBelow ==
    ASSUME NEW a \in Nat, NEW b \in Nat, NEW d \in Nat, NEW r \in Nat, a < b, r < d
    PROVE  a * d \in Nat /\ b * d \in Nat /\ a * d + r < b * d
<1>1. a + 1 \in Nat /\ a + 1 <= b
  OBVIOUS
<1>2. (a + 1) * d \in Nat /\ b * d \in Nat /\ (a + 1) * d <= b * d
  BY <1>1, ProductGrows
<1>3. (a + 1) * d = a * d + d /\ a * d \in Nat
  OBVIOUS
<1>4. QED
  BY <1>2, <1>3

-----------------------------------------------------------------------------
(* The volume.                                                              *)
LEMMA Geometry ==
    /\ SectorSize \in Nat \ {0} /\ PerSector \in Nat \ {0} /\ EntryLen \in Nat \ {0}
    /\ SectorSize = PerSector * EntryLen
<1>1. SectorSize \in Nat \ {0} /\ EntryLen \in Nat \ {0} /\ (SectorSize % EntryLen) = 0
  BY GeometryAssumption
<1>2. PICK q \in Nat : q = SectorSize \div EntryLen /\ SectorSize = q * EntryLen + (SectorSize % EntryLen)
  BY <1>1, DivFacts
<1>3. q * EntryLen \in Nat /\ SectorSize = q * EntryLen
  BY <1>1, <1>2
<1>4. q # 0
  BY <1>1, <1>3
<1>5. QED
  BY <1>1, <1>2, <1>3, <1>4 DEF PerSector

(* The entry of the partition table the kernel mounts is the partition.     *)
LEMMA PartitionFacts ==
    ASSUME NEW v, WellFormed(v)
    PROVE  /\ Partition(v).begin = v.begin /\ Partition(v).total \in Nat
           /\ v.begin \in Nat /\ v.begin + Partition(v).total <= Lba28
<1> DEFINE active == {i \in DOMAIN v.mbr : IsActive(v.mbr[i])}
<1>1. TableFormed(v) /\ v.begin \in Nat
  BY DEF WellFormed, RegionsFormed
<1>2. PICK i \in DOMAIN v.mbr :
          /\ i \in Nat /\ IsActive(v.mbr[i])
          /\ \A k \in DOMAIN v.mbr : IsActive(v.mbr[k]) => k \in Nat /\ i <= k
          /\ v.mbr[i].begin = v.begin /\ v.mbr[i].total \in Nat
          /\ v.begin + v.mbr[i].total <= Lba28
  BY <1>1, Zenon DEF TableFormed
<1>3. i \in active /\ \A k \in active : k \in Nat /\ i <= k
  BY <1>2
<1>4. \A k \in active : (\A j \in active : k <= j) => k = i
  <2> SUFFICES ASSUME NEW k \in active, \A j \in active : k <= j PROVE k = i
    OBVIOUS
  <2>1. k <= i /\ i <= k /\ k \in Nat /\ i \in Nat
    BY <1>2, <1>3
  <2>2. QED
    BY <2>1
<1> HIDE DEF active
<1>5. (CHOOSE k \in active : \A j \in active : k <= j) = i
  BY <1>3, <1>4
<1> USE DEF active
<1>6. Partition(v) = v.mbr[i]
  BY <1>5 DEF Partition, Entries
<1>7. QED
  BY <1>1, <1>2, <1>6

(* No block of the partition is out of the reach of the drive.              *)
LEMMA LbaFacts ==
    ASSUME NEW v, WellFormed(v), NEW block \in Nat, InPartition(v, block)
    PROVE  Lba(v, block) = v.begin + block
<1>1. PICK b \in Nat, t \in Nat : Partition(v).begin = b /\ v.begin = b /\ t = Partition(v).total
  BY PartitionFacts
<1>2. b + t <= 268435456 /\ block < t
  BY <1>1, PartitionFacts DEF InPartition, Lba28
<1>3. b + block \in Nat /\ b + block < 268435456
  BY <1>1, <1>2
<1>4. ((b + block) % 268435456) = b + block
  BY <1>3
<1>5. QED
  BY <1>1, <1>4 DEF Lba, Lba28

(* A cluster is on one chain at most, in one place.                         *)
LEMMA ChainFacts ==
    ASSUME NEW v, WellFormed(v), NEW c, IsHead(v, c)
    PROVE  /\ Chain(v, c) \in v.chains /\ Chain(v, c) \in Seq(v.clusters)
           /\ Chain(v, c) # <<>> /\ Chain(v, c)[1] = c
           /\ Len(Chain(v, c)) \in Nat /\ Len(Chain(v, c)) >= 1
           /\ DOMAIN Chain(v, c) = 1..Len(Chain(v, c))
           /\ \A i \in 1..Len(Chain(v, c)) :
                 Chain(v, c)[i] \in v.clusters /\ Chain(v, c)[i] \in Nat
                 /\ 2 <= Chain(v, c)[i] /\ Chain(v, c)[i] < EndMark
<1>1. ChainsFormed(v)
  BY DEF WellFormed
<1>2. PICK s : s = Chain(v, c)
  OBVIOUS
<1>3. s \in v.chains /\ s[1] = c
  BY <1>2 DEF IsHead, Chain
<1>4. \A x \in v.clusters : x \in Nat /\ 2 <= x /\ x < EndMark
  BY <1>1 DEF ChainsFormed
<1>5. s \in Seq(v.clusters) /\ s # <<>>
  <2>1. \A x \in v.chains : x \in Seq(v.clusters) /\ x # <<>>
    BY ONLY <1>1 DEF ChainsFormed
  <2>2. QED
    BY <1>3, <2>1
<1>6. Len(s) \in Nat /\ Len(s) >= 1 /\ DOMAIN s = 1..Len(s)
  BY <1>5
<1>7. \A i \in 1..Len(s) : s[i] \in v.clusters
  BY <1>5
<1>8. \A i \in 1..Len(s) : s[i] \in v.clusters /\ s[i] \in Nat /\ 2 <= s[i] /\ s[i] < EndMark
  BY <1>4, <1>7
<1>9. QED
  BY <1>2, <1>3, <1>5, <1>6, <1>8, Zenon

LEMMA OnOneChain ==
    ASSUME NEW v, WellFormed(v), NEW s \in v.chains, NEW t \in v.chains,
           NEW i \in DOMAIN s, NEW j \in DOMAIN t, s[i] = t[j]
    PROVE  s = t /\ i = j
<1>1. ChainsFormed(v)
  BY DEF WellFormed
<1>2. \A x, y \in v.chains : \A k \in DOMAIN x, l \in DOMAIN y :
          x[k] = y[l] => x = y /\ k = l
  BY ONLY <1>1 DEF ChainsFormed
<1>3. QED
  BY <1>2, ZenonT(60)

(* Where the regions begin, for the kernel and on the disk.                 *)
LEMMA Regions ==
    ASSUME NEW v, WellFormed(v)
    PROVE  /\ v.begin \in Nat /\ v.reserved \in Nat /\ v.rootSectors \in Nat \ {0} /\ v.spc \in Nat \ {0}
           /\ FatStart(v) = v.reserved
           /\ RootSize(v) = v.rootSectors
           /\ RootStart(v) \in Nat /\ FatStart(v) <= RootStart(v)
           /\ RootLba(v) = v.begin + RootStart(v)
           /\ DataStart(v) = RootStart(v) + v.rootSectors
           /\ DataLba(v) = v.begin + DataStart(v)
<1>1. RegionsFormed(v)
  BY DEF WellFormed
<1>2. PICK b \in Nat, r \in Nat, f \in Nat, g \in Nat, n \in Nat, m \in Nat :
          /\ v.begin = b /\ v.reserved = r /\ v.fats = f /\ v.fatSectors = g
          /\ v.rootEntries = n /\ v.rootSectors = m
  BY <1>1 DEF RegionsFormed
<1>3. v.spc \in Nat \ {0}
  BY <1>1 DEF RegionsFormed
<1>4. PICK d \in Nat \ {0} : d = SectorSize
  BY Geometry
<1>5. PICK e \in Nat : e = n * EntryLen
  BY Geometry
<1>6. PICK h \in Int : h = (m - 1) * d
  OBVIOUS
<1>7. PICK l \in Nat : l = m * d
  OBVIOUS
<1>8. l = h + d
  BY <1>6, <1>7
<1>9. h + 1 <= e /\ e <= l
  <2>1. e \in (h + 1)..l
    BY <1>1, <1>2, <1>4, <1>5, <1>6, <1>7 DEF RegionsFormed
  <2>2. QED
    BY <2>1
<1>10. PICK x \in 0..(d - 1) : e + d - 1 = l + x
  <2>1. e - h - 1 \in 0..(d - 1) /\ e + d - 1 = l + (e - h - 1)
    BY <1>8, <1>9
  <2>2. QED
    BY <2>1
<1>11. (e + d - 1) \div d = m
  BY <1>7, <1>10, DivUnique
<1>12. RootSize(v) = m
  BY <1>2, <1>4, <1>5, <1>11 DEF RootSize, Bpb
<1>13. PICK q \in Nat : q = f * g
  OBVIOUS
<1>14. FatStart(v) = r /\ RootStart(v) = r + q
  BY <1>2, <1>13 DEF FatStart, RootStart, Bpb
<1>15. DataStart(v) = r + q + m
  BY <1>12, <1>14 DEF DataStart
<1>16. RootLba(v) = b + r + q /\ DataLba(v) = b + r + q + m
  BY <1>2, <1>13 DEF RootLba, DataLba
<1>17. v.rootSectors \in Nat \ {0}
  BY <1>1 DEF RegionsFormed
<1>18. QED
  BY <1>2, <1>3, <1>12, <1>14, <1>15, <1>16, <1>17

(* The word of a cluster in the table is found, if its block can be read.   *)
WordOf(v, c) ==
    IF Linked(v, c) # {} THEN CHOOSE n \in Linked(v, c) : TRUE
    ELSE IF IsLast(v, c) THEN 65535 ELSE 0

LEMMA FatWord ==
    ASSUME NEW v, WellFormed(v), NEW c \in Nat, c < EndMark, InPartition(v, FatBlock(v, c))
    PROVE  Word(v, c) = WordOf(v, c)
<1>1. PICK d \in Nat \ {0} : d = SectorSize
  BY Geometry
<1>2. PICK t \in Nat : t = c * 2
  OBVIOUS
<1>3. (c % 65536) = c
  BY DEF EndMark
<1>4. PICK q \in Nat, x \in 0..(d - 1) : q = t \div d /\ x = (t % d) /\ t = q * d + x
  BY DivFacts
<1>5. PICK b \in Nat, r \in Nat : b = v.begin /\ r = v.reserved /\ FatStart(v) = r
  BY Regions
<1>6. FatBlock(v, c) = r + q /\ FatByte(c) = x
  BY <1>1, <1>2, <1>3, <1>4, <1>5 DEF FatBlock, FatByte
<1>7. Lba(v, FatBlock(v, c)) = b + (r + q)
  BY <1>5, <1>6, LbaFacts
<1>8. Word(v, c) = DiskWord(v, b + (r + q), x)
  BY <1>6, <1>7 DEF Word
<1>9. ~(b + (r + q) < b + r) /\ (b + (r + q)) - (b + r) = q
  OBVIOUS
<1>10. (q * d + x) \div 2 = c
  <2>1. q * d + x = c * 2 + 0
    BY <1>2, <1>4
  <2>2. (c * 2 + 0) \div 2 = c
    OBVIOUS
  <2>3. QED
    BY <2>1, <2>2
<1>11. DiskWord(v, b + (r + q), x) =
          IF b + (r + q) < v.begin + v.reserved THEN 0
          ELSE WordOf(v, (((b + (r + q)) - (v.begin + v.reserved)) * SectorSize + x) \div 2)
  BY DEF DiskWord, WordOf
<1>12. (((b + (r + q)) - (b + r)) * d + x) \div 2 = c
  BY ONLY <1>9, <1>10, Zenon
<1>13. v.begin + v.reserved = b + r /\ SectorSize = d
  BY <1>1, <1>5
<1>14. DiskWord(v, b + (r + q), x) = WordOf(v, c)
  BY ONLY <1>9, <1>11, <1>12, <1>13, Zenon
<1>15. QED
  BY <1>8, <1>14

(* So following the words is following the chain to its end.                *)
LEMMA NextWord ==
    ASSUME NEW v, WellFormed(v), NEW s \in v.chains, NEW k \in 1..Len(s),
           InPartition(v, FatBlock(v, s[k]))
    PROVE  /\ k < Len(s) => HasNext(v, s[k]) /\ Word(v, s[k]) = s[k + 1]
           /\ k = Len(s) => ~HasNext(v, s[k])
<1>1. ChainsFormed(v)
  BY DEF WellFormed
<1>2. s \in Seq(v.clusters) /\ s # <<>>
  <2>1. \A x \in v.chains : x \in Seq(v.clusters) /\ x # <<>>
    BY ONLY <1>1 DEF ChainsFormed
  <2>2. QED
    BY <2>1
<1>3. \A x \in v.chains : Len(x) \in Nat /\ DOMAIN x = 1..Len(x)
  BY ONLY <1>1 DEF ChainsFormed
<1>4. \A i \in 1..Len(s) : s[i] \in v.clusters /\ s[i] \in Nat /\ 2 <= s[i] /\ s[i] < EndMark
  <2>1. \A x \in v.clusters : x \in Nat /\ 2 <= x /\ x < EndMark
    BY ONLY <1>1 DEF ChainsFormed
  <2>2. \A i \in 1..Len(s) : s[i] \in v.clusters
    BY <1>2
  <2>3. QED
    BY <2>1, <2>2
<1>5. PICK c \in Nat : c = s[k] /\ c < EndMark /\ Len(s) \in Nat
  BY <1>3, <1>4
<1>6. Word(v, c) = WordOf(v, c)
  BY <1>5, FatWord
<1>7. ASSUME k < Len(s) PROVE HasNext(v, c) /\ Word(v, c) = s[k + 1]
  <2>1. k \in 1..(Len(s) - 1) /\ k + 1 \in 1..Len(s)
    BY <1>5, <1>7
  <2>2. s[k + 1] \in Linked(v, c)
    BY <1>4, <1>5, <2>1 DEF Linked
  <2>3. ASSUME NEW n \in Linked(v, c) PROVE n = s[k + 1]
    <3>0. PICK t \in v.chains : \E i \in 1..(Len(t) - 1) : t[i] = c /\ t[i + 1] = n
      BY DEF Linked
    <3>1. PICK i \in 1..(Len(t) - 1) : t[i] = c /\ t[i + 1] = n
      BY <3>0
    <3>2. i \in DOMAIN t /\ k \in DOMAIN s
      BY <1>3
    <3>3. t = s /\ i = k
      BY <1>5, <3>1, <3>2, OnOneChain
    <3>4. QED
      BY <3>1, <3>3
  <2>4. Linked(v, c) = {s[k + 1]}
    BY <2>2, <2>3
  <2>5. Word(v, c) = s[k + 1]
    BY <1>6, <2>4 DEF WordOf
  <2>6. IsLink(s[k + 1])
    <3>1. s[k + 1] \in Nat /\ 2 <= s[k + 1] /\ s[k + 1] < EndMark
      BY <1>4, <2>1
    <3>2. \A n \in EndWords : n >= EndMark
      BY DEF EndWords, EndMark
    <3>3. EndMark \in Nat
      BY DEF EndMark
    <3>4. s[k + 1] \notin EndWords
      BY <3>1, <3>2, <3>3
    <3>5. QED
      BY <3>1, <3>4 DEF IsLink
  <2>7. QED
    BY <2>5, <2>6 DEF HasNext
<1>8. ASSUME k = Len(s) PROVE ~HasNext(v, c)
  <2>1. Linked(v, c) = {}
    <3> SUFFICES ASSUME NEW n \in Linked(v, c) PROVE FALSE
      OBVIOUS
    <3>0. PICK t \in v.chains : \E i \in 1..(Len(t) - 1) : t[i] = c /\ t[i + 1] = n
      BY DEF Linked
    <3>1. PICK i \in 1..(Len(t) - 1) : t[i] = c /\ t[i + 1] = n
      BY <3>0
    <3>2. i \in DOMAIN t /\ k \in DOMAIN s /\ Len(t) \in Nat
      BY <1>3
    <3>3. t = s /\ i = k
      BY <1>5, <3>1, <3>2, OnOneChain
    <3>4. QED
      BY <1>8, <3>1, <3>2, <3>3
  <2>2. IsLast(v, c)
    BY <1>5, <1>8 DEF IsLast
  <2>3. Word(v, c) = 65535
    BY <1>6, <2>1, <2>2 DEF WordOf
  <2>4. 65535 \in EndWords
    BY DEF EndWords, EndMark
  <2>5. QED
    BY <2>3, <2>4 DEF HasNext, IsLink
<1>9. QED
  BY <1>5, <1>7, <1>8

(* The slots of a sector of the root directory.                             *)
LEMMA RootSlot ==
    ASSUME NEW v, WellFormed(v), NEW n \in Nat, n < v.rootSectors,
           InPartition(v, RootStart(v) + n), NEW j
    PROVE  DiskSlot(v, Lba(v, RootStart(v) + n), j) = SlotNo(v, ROOT, n * PerSector + j)
<1>1. PICK b \in Nat, r \in Nat, m \in Nat :
          b = v.begin /\ r = RootStart(v) /\ m = v.rootSectors
  BY Regions
<1>2. RootLba(v) = b + r /\ DataLba(v) = b + r + m
  BY <1>1, Regions
<1>3. r + n \in Nat
  BY <1>1
<1>4. Lba(v, r + n) = b + (r + n)
  BY <1>1, <1>3, LbaFacts
<1>5. /\ b + (r + n) >= b + r /\ b + (r + n) < b + r + m
      /\ (b + (r + n)) - (b + r) = n
  BY <1>1
<1>6. DiskSlot(v, b + (r + n), j) = SlotNo(v, ROOT, ((b + (r + n)) - RootLba(v)) * PerSector + j)
  <2>1. b + (r + n) >= RootLba(v) /\ b + (r + n) < DataLba(v)
    BY <1>2, <1>5
  <2>2. QED
    BY <2>1 DEF DiskSlot
<1>7. ((b + (r + n)) - RootLba(v)) = n
  BY <1>2, <1>5
<1>8. QED
  BY <1>1, <1>4, <1>6, <1>7

(* The directories a cluster belongs to, and what a block of it holds.      *)
Users(v, c) == {d \in DOMAIN v.dirs \ {ROOT} : \E i \in DOMAIN Chain(v, d) : Chain(v, d)[i] = c}
PlaceIn(v, d, c) == CHOOSE i \in DOMAIN Chain(v, d) : Chain(v, d)[i] = c
ClusterSlot(v, c, n, j) ==
    LET d == CHOOSE x \in Users(v, c) : TRUE
    IN SlotNo(v, d, ((PlaceIn(v, d, c) - 1) * v.spc + n) * PerSector + j)

LEMMA DataSlot ==
    ASSUME NEW v, NEW b, NEW j, b >= DataLba(v), ~(b < DataLba(v)),
           NEW c, c = (b - DataLba(v)) \div v.spc + 2, Users(v, c) # {}
    PROVE  DiskSlot(v, b, j) = ClusterSlot(v, c, ((b - DataLba(v)) % v.spc), j)
BY DEF DiskSlot, Users, PlaceIn, ClusterSlot

LEMMA FirstOfCluster ==
    ASSUME NEW v, WellFormed(v), NEW c \in Nat, 2 <= c, c < EndMark
    PROVE  /\ FirstSector(v, c) = DataStart(v) + (c - 2) * v.spc /\ FirstSector(v, c) \in Nat
           /\ SectorCount(v, c) = v.spc /\ c # ROOT
<1>1. c # ROOT /\ ~(c < 2)
  BY DEF ROOT, EndMark
<1>2. FirstSector(v, c) = DataStart(v) + (c - 2) * v.spc /\ SectorCount(v, c) = v.spc
  BY <1>1 DEF FirstSector, SectorCount, Bpb
<1>3. (c - 2) * v.spc \in Nat
  <2>1. c - 2 \in Nat /\ v.spc \in Nat
    BY Regions
  <2>2. QED
    BY <2>1
<1>4. DataStart(v) \in Nat
  BY Regions
<1>5. QED
  BY <1>1, <1>2, <1>3, <1>4

(* The slots of a sector of any other directory.                            *)
LEMMA ChainSlot ==
    ASSUME NEW v, WellFormed(v), NEW d \in DOMAIN v.dirs, d # ROOT,
           NEW k \in 1..Len(Chain(v, d)), NEW n \in Nat, n < v.spc,
           InPartition(v, FirstSector(v, Chain(v, d)[k]) + n), NEW j
    PROVE  DiskSlot(v, Lba(v, FirstSector(v, Chain(v, d)[k]) + n), j)
               = SlotNo(v, d, ((k - 1) * v.spc + n) * PerSector + j)
<1>1. \A x \in DOMAIN v.dirs \ {ROOT} : IsHead(v, x)
  BY DEF WellFormed, DirectoriesFormed, SlotsFit
<1>2. PICK s : s = Chain(v, d)
  OBVIOUS
<1>3. s \in v.chains /\ s[1] = d /\ DOMAIN s = 1..Len(s)
  BY <1>1, <1>2, ChainFacts
<1>4. PICK c \in Nat : c = s[k] /\ 2 <= c /\ c < EndMark
  BY <1>1, <1>2, ChainFacts
<1>5. PICK b \in Nat, r \in Nat, p \in Nat \ {0} : b = v.begin /\ r = DataStart(v) /\ p = v.spc
  BY Regions, SMTT(30)
<1>6. DataLba(v) = b + r
  BY <1>5, Regions
<1>7. PICK q \in Nat : q = (c - 2) * p
  <2>1. c - 2 \in Nat
    BY <1>4
  <2>2. QED
    BY <2>1
<1>8. FirstSector(v, c) = r + q
  BY <1>4, <1>5, <1>7, FirstOfCluster
<1>9. Lba(v, r + q + n) = b + (r + q + n)
  <2>1. r + q + n \in Nat /\ InPartition(v, r + q + n)
    BY <1>2, <1>4, <1>8
  <2>2. QED
    BY <1>5, <2>1, LbaFacts
<1>10. PICK a \in Nat : a = b + (r + q + n)
  OBVIOUS
<1>11. a - DataLba(v) = q + n /\ a >= DataLba(v) /\ ~(a < DataLba(v))
  BY <1>6, <1>10
<1>12. (q + n) \div p = c - 2 /\ ((q + n) % p) = n
  <2>1. n \in 0..(p - 1) /\ c - 2 \in Nat
    BY <1>4, <1>5, SMTT(30)
  <2>2. QED
    BY <1>7, <2>1, DivUnique
<1>13. (a - DataLba(v)) \div v.spc + 2 = c /\ ((a - DataLba(v)) % v.spc) = n
  <2>1. (a - DataLba(v)) \div v.spc = c - 2 /\ ((a - DataLba(v)) % v.spc) = n
    BY ONLY <1>5, <1>11, <1>12, Zenon
  <2>2. QED
    BY <2>1
<1>14. Users(v, c) = {d}
  <2>1. k \in DOMAIN s
    BY <1>2, <1>3
  <2>2. d \in Users(v, c)
    BY <1>2, <1>4, <2>1 DEF Users
  <2>3. ASSUME NEW x \in Users(v, c) PROVE x = d
    <3>1. x \in DOMAIN v.dirs \ {ROOT} /\ \E i \in DOMAIN Chain(v, x) : Chain(v, x)[i] = c
      BY DEF Users
    <3>2. PICK i \in DOMAIN Chain(v, x) : Chain(v, x)[i] = c
      BY <3>1
    <3>3. Chain(v, x) \in v.chains /\ Chain(v, x)[1] = x
      BY <1>1, <3>1, ChainFacts
    <3>4. Chain(v, x) = s
      BY <1>3, <1>4, <2>1, <3>2, <3>3, OnOneChain
    <3>5. QED
      BY <1>3, <3>3, <3>4
  <2>4. QED
    BY <2>2, <2>3
<1>15. PlaceIn(v, d, c) = k
  <2>1. k \in DOMAIN s
    BY <1>2, <1>3
  <2>2. \A i \in DOMAIN s : s[i] = c => i = k
    BY <1>3, <1>4, <2>1, OnOneChain
  <2>3. QED
    BY <1>2, <1>4, <2>1, <2>2 DEF PlaceIn
<1>16. ClusterSlot(v, c, n, j) = SlotNo(v, d, ((k - 1) * v.spc + n) * PerSector + j)
  BY <1>14, <1>15 DEF ClusterSlot
<1>17. DiskSlot(v, a, j) = ClusterSlot(v, c, n, j)
  <2>1. DiskSlot(v, a, j) = ClusterSlot(v, c, ((a - DataLba(v)) % v.spc), j)
    BY <1>11, <1>13, <1>14, DataSlot
  <2>2. QED
    BY <1>13, <2>1
<1>18. Lba(v, FirstSector(v, Chain(v, d)[k]) + n) = a
  BY <1>2, <1>4, <1>8, <1>9, <1>10
<1>19. QED
  BY <1>16, <1>17, <1>18

-----------------------------------------------------------------------------
(* What a scan has read of a directory: the first n slots of d, among them  *)
(* no end mark; in seen are those to be listed, in order.                   *)
Live(v, d, n) == \A k \in 1..n : ~IsEnd(SlotNo(v, d, k))
Among(v, d, n) == {k \in 1..n : IsListed(SlotNo(v, d, k))}

SeenUpto(v, d, n, seen) ==
    /\ n \in Nat /\ Live(v, d, n)
    /\ seen \in Seq(SlotsOf(v)) /\ Len(seen) = Cardinality(Among(v, d, n))
    /\ \A k \in Among(v, d, n) : seen[Rank(Among(v, d, n), k)] = SlotNo(v, d, k)

LEMMA SlotIsThere ==
    ASSUME NEW v, WellFormed(v), NEW d \in DOMAIN v.dirs, NEW n \in Nat, n >= 1,
           ~IsEnd(SlotNo(v, d, n))
    PROVE  /\ n \in DOMAIN v.dirs[d] /\ n \in 1..Len(v.dirs[d])
           /\ SlotNo(v, d, n) = v.dirs[d][n] /\ SlotNo(v, d, n) \in SlotsOf(v)
<1>1. v.dirs[d] \in Seq(SlotsOf(v))
  BY DEF WellFormed, DirectoriesFormed
<1>2. IsEnd(EmptySlot)
  BY DEF IsEnd, EmptySlot
<1>3. n <= Len(v.dirs[d])
  BY <1>2 DEF SlotNo
<1>4. n \in DOMAIN v.dirs[d] /\ n \in 1..Len(v.dirs[d])
  BY <1>1, <1>3
<1>5. SlotNo(v, d, n) = v.dirs[d][n]
  BY <1>3 DEF SlotNo
<1>6. v.dirs[d][n] \in SlotsOf(v)
  BY <1>4 DEF SlotsOf
<1>7. QED
  BY <1>4, <1>5, <1>6

LEMMA SeenNothing ==
    ASSUME NEW v, NEW d
    PROVE  SeenUpto(v, d, 0, <<>>)
<1>1. Among(v, d, 0) = {}
  BY DEF Among
<1>2. Cardinality(Among(v, d, 0)) = 0
  BY <1>1, FS_EmptySet
<1>3. QED
  BY <1>1, <1>2 DEF SeenUpto, Live

(* One slot more.                                                           *)
LEMMA SeenOneMore ==
    ASSUME NEW v, WellFormed(v), NEW d \in DOMAIN v.dirs, NEW n, NEW seen,
           SeenUpto(v, d, n, seen), ~IsEnd(SlotNo(v, d, n + 1))
    PROVE  IF IsListed(SlotNo(v, d, n + 1))
           THEN SeenUpto(v, d, n + 1, Append(seen, SlotNo(v, d, n + 1)))
           ELSE SeenUpto(v, d, n + 1, seen)
<1>1. n \in Nat /\ n + 1 \in Nat /\ n + 1 >= 1 /\ n < n + 1
  BY DEF SeenUpto
<1>2. Live(v, d, n + 1)
  <2>1. \A k \in 1..(n + 1) : k \in 1..n \/ k = n + 1
    BY <1>1
  <2>2. QED
    BY <2>1 DEF SeenUpto, Live
<1>3. PICK x \in SlotsOf(v) : x = SlotNo(v, d, n + 1)
  BY <1>1, SlotIsThere
<1>4. PICK P : P = Among(v, d, n)
  OBVIOUS
<1>5. P \in SUBSET (1..n)
  BY <1>4 DEF Among
<1>6. seen \in Seq(SlotsOf(v)) /\ Len(seen) = Cardinality(P) /\ Len(seen) \in Nat
      /\ \A k \in P : seen[Rank(P, k)] = SlotNo(v, d, k)
  BY <1>4 DEF SeenUpto
<1>7. \A k \in P : Rank(P, k) \in 1..Len(seen)
  BY <1>1, <1>5, <1>6, RankFacts
<1>8. CASE IsListed(x)
  <2>1. Among(v, d, n + 1) = P \cup {n + 1}
    BY <1>1, <1>3, <1>4, <1>8 DEF Among
  <2>2. PICK Q : Q = P \cup {n + 1}
    OBVIOUS
  <2>3. Cardinality(Q) = Cardinality(P) + 1 /\ Rank(Q, n + 1) = Cardinality(P) + 1
        /\ \A j \in P : Rank(Q, j) = Rank(P, j)
    BY <1>1, <1>5, <2>2, RankNew
  <2>4. PICK more : more = Append(seen, x)
    OBVIOUS
  <2>5. /\ more \in Seq(SlotsOf(v)) /\ Len(more) = Len(seen) + 1 /\ more[Len(seen) + 1] = x
        /\ \A i \in 1..Len(seen) : more[i] = seen[i]
    BY <1>6, <2>4
  <2>6. ASSUME NEW k \in Q PROVE more[Rank(Q, k)] = SlotNo(v, d, k)
    <3>1. CASE k \in P
      BY <1>6, <1>7, <2>3, <2>5, <3>1
    <3>2. CASE k = n + 1
      BY <1>3, <1>6, <2>3, <2>5, <3>2
    <3>3. QED
      BY <2>2, <3>1, <3>2
  <2>7. SeenUpto(v, d, n + 1, more)
    BY <1>1, <1>2, <1>6, <2>1, <2>2, <2>3, <2>5, <2>6 DEF SeenUpto
  <2>8. QED
    BY <1>3, <1>8, <2>4, <2>7
<1>9. CASE ~IsListed(x)
  <2>1. Among(v, d, n + 1) = P
    BY <1>1, <1>3, <1>4, <1>9 DEF Among
  <2>2. SeenUpto(v, d, n + 1, seen)
    BY <1>1, <1>2, <1>6, <2>1 DEF SeenUpto
  <2>3. QED
    BY <1>3, <1>9, <2>2
<1>10. QED
  BY <1>8, <1>9

(* The entries of a sector are collected from slot to slot.                 *)
ReadStep(slots, r, n) ==
    IF IsListed(slots[n]) /\ \A j \in 1..n : ~IsEnd(slots[j]) THEN Append(r, slots[n]) ELSE r

ReadsTo(slots, n, f) ==
    f = [i \in 0..n |-> IF i = 0 THEN <<>> ELSE ReadStep(slots, f[i - 1], i)]

LEMMA ReadExists ==
    ASSUME NEW slots
    PROVE  \A n \in Nat : \E f : ReadsTo(slots, n, f)
<1> DEFINE T == {n \in Nat : ~ \E f : ReadsTo(slots, n, f)}
<1> SUFFICES ASSUME T # {} PROVE FALSE
  OBVIOUS
<1>1. PICK n \in T : \A k \in T : n <= k
  BY LeastNumber
<1>2. CASE n = 0
  <2> DEFINE g == [i \in 0..0 |-> <<>>]
  <2>1. g = [i \in 0..0 |-> IF i = 0 THEN <<>> ELSE ReadStep(slots, g[i - 1], i)]
    OBVIOUS
  <2> HIDE DEF g
  <2>2. ReadsTo(slots, 0, g)
    BY <2>1 DEF ReadsTo
  <2>3. QED
    BY <1>1, <1>2, <2>2
<1>3. CASE n # 0
  <2>1. n - 1 \in Nat /\ n - 1 \notin T
    BY <1>1, <1>3
  <2>2. PICK f : ReadsTo(slots, n - 1, f)
    BY <2>1
  <2>3. \A i \in 0..(n - 1) : f[i] = IF i = 0 THEN <<>> ELSE ReadStep(slots, f[i - 1], i)
    BY <2>2 DEF ReadsTo
  <2> DEFINE g == [i \in 0..n |-> IF i = n THEN ReadStep(slots, f[n - 1], n) ELSE f[i]]
  <2>4. \A i \in 0..(n - 1) : g[i] = f[i]
    BY <2>1
  <2>5. g[n] = ReadStep(slots, f[n - 1], n) /\ n - 1 \in 0..(n - 1)
    BY <2>1
  <2>6. g = [i \in 0..n |-> g[i]]
    OBVIOUS
  <2> HIDE DEF g
  <2>7. ASSUME NEW i \in 0..n
        PROVE  g[i] = IF i = 0 THEN <<>> ELSE ReadStep(slots, g[i - 1], i)
    <3>1. CASE i = n
      BY <1>3, <2>4, <2>5, <3>1
    <3>2. CASE i # n
      <4>1. i \in 0..(n - 1) /\ (i # 0 => i - 1 \in 0..(n - 1))
        BY <2>1, <3>2
      <4>2. QED
        BY <2>3, <2>4, <4>1
    <3>3. QED
      BY <3>1, <3>2
  <2>8. ReadsTo(slots, n, g)
    BY <2>6, <2>7 DEF ReadsTo
  <2>9. QED
    BY <1>1, <2>8
<1>4. QED
  BY <1>2, <1>3

LEMMA SectorSteps ==
    ASSUME NEW v, NEW block
    PROVE  \E f : /\ f[0] = <<>> /\ f[PerSector] = SectorEntries(v, block)
                  /\ \A n \in 1..PerSector : f[n] = ReadStep(SectorSlots(v, block), f[n - 1], n)
<1> DEFINE slots == SectorSlots(v, block)
           body(f) == [n \in 0..PerSector |->
                          IF n = 0 THEN <<>>
                          ELSE IF IsListed(slots[n]) /\ \A j \in 1..n : ~IsEnd(slots[j])
                               THEN Append(f[n - 1], slots[n])
                               ELSE f[n - 1]]
<1>1. PICK f : f = CHOOSE g : g = body(g)
  OBVIOUS
<1>2. SectorEntries(v, block) = f[PerSector]
  BY <1>1 DEF SectorEntries
<1>3. f = body(f)
  <2>1. PICK g : ReadsTo(slots, PerSector, g)
    BY ReadExists, Geometry
  <2>2. g = body(g)
    BY <2>1 DEF ReadsTo, ReadStep
  <2> HIDE DEF body
  <2>3. QED
    BY <1>1, <2>2
<1>4. ReadsTo(slots, PerSector, f)
  BY <1>3 DEF ReadsTo, ReadStep
<1> HIDE DEF slots, body
<1>5. \A n \in 0..PerSector : f[n] = IF n = 0 THEN <<>> ELSE ReadStep(slots, f[n - 1], n)
  BY <1>4 DEF ReadsTo
<1>6. 0 \in 0..PerSector /\ \A n \in 1..PerSector : n \in 0..PerSector /\ n # 0
  BY Geometry
<1>7. f[0] = <<>> /\ \A n \in 1..PerSector : f[n] = ReadStep(slots, f[n - 1], n)
  BY <1>5, <1>6
<1>8. QED
  BY <1>2, <1>7 DEF slots

(* A sector read adds its slots, up to the end mark if it has one.          *)
LEMMA SectorRead ==
    ASSUME NEW v, WellFormed(v), NEW d \in DOMAIN v.dirs, NEW n, NEW seen,
           SeenUpto(v, d, n, seen), NEW block,
           \A j \in 1..PerSector : DiskSlot(v, Lba(v, block), j) = SlotNo(v, d, n + j)
    PROVE  /\ ~EndsIn(v, block) =>
                 SeenUpto(v, d, n + PerSector, seen \o SectorEntries(v, block))
           /\ EndsIn(v, block) =>
                 \E m \in Nat : /\ SeenUpto(v, d, m, seen \o SectorEntries(v, block))
                                /\ IsEnd(SlotNo(v, d, m + 1))
<1>1. PICK slots : slots = SectorSlots(v, block)
  OBVIOUS
<1>2. PICK f : /\ f[0] = <<>> /\ f[PerSector] = SectorEntries(v, block)
               /\ \A i \in 1..PerSector : f[i] = ReadStep(slots, f[i - 1], i)
  BY <1>1, SectorSteps
<1>3. \A j \in 1..PerSector : slots[j] = SlotNo(v, d, n + j)
  BY <1>1 DEF SectorSlots
<1>4. n \in Nat /\ PerSector \in Nat /\ seen \in Seq(SlotsOf(v))
  BY Geometry DEF SeenUpto
<1> DEFINE Good(i, m) == /\ m \in Nat /\ f[i] \in Seq(SlotsOf(v))
                         /\ SeenUpto(v, d, m, seen \o f[i])
                         /\ n <= m /\ m <= n + i
                         /\ m = n + i \/ IsEnd(SlotNo(v, d, m + 1))
           T == {i \in Nat : i <= PerSector /\ ~ \E m \in Nat : Good(i, m)}
<1>5. T = {}
  <2> SUFFICES ASSUME T # {} PROVE FALSE
    OBVIOUS
  <2>1. PICK i \in T : \A k \in T : i <= k
    BY LeastNumber
  <2>2. CASE i = 0
    <3>1. seen \o <<>> = seen
      BY <1>4
    <3>2. f[0] \in Seq(SlotsOf(v))
      BY <1>2
    <3>3. Good(0, n)
      BY <1>2, <1>4, <3>1, <3>2
    <3>4. QED
      BY <1>4, <2>1, <2>2, <3>3
  <2>3. CASE i # 0
    <3>1. i - 1 \in Nat /\ i - 1 \notin T /\ i - 1 <= PerSector /\ i \in 1..PerSector
          /\ i \in Nat /\ (i - 1) + 1 = i
      BY <1>4, <2>1, <2>3
    <3>2. PICK m \in Nat : Good(i - 1, m)
      BY <3>1
    <3>3. f[i] = ReadStep(slots, f[i - 1], i)
      BY <1>2, <3>1
    <3>4. PICK e : e = SlotNo(v, d, n + i) /\ e = slots[i]
      BY <1>3, <3>1
    <3>5. CASE m # n + (i - 1)
      <4>1. IsEnd(SlotNo(v, d, m + 1)) /\ n <= m /\ m <= n + (i - 1)
        BY <3>2, <3>5
      <4>2. PICK j \in 1..i : m + 1 = n + j
        <5>1. m + 1 - n \in 1..i /\ m + 1 = n + (m + 1 - n)
          BY <1>4, <3>1, <3>5, <4>1
        <5>2. QED
          BY <5>1
      <4>3. IsEnd(slots[j])
        BY <1>3, <1>4, <3>1, <4>1, <4>2, SMTT(30)
      <4>4. f[i] = f[i - 1]
        BY <3>3, <4>3 DEF ReadStep
      <4>5. m <= n + i
        BY <1>4, <3>1, <4>1
      <4>6. Good(i, m)
        BY <3>2, <4>1, <4>4, <4>5
      <4>7. QED
        BY <2>1, <4>6
    <3>6. CASE m = n + (i - 1) /\ IsEnd(e)
      <4>1. m + 1 = n + i
        BY <1>4, <3>1, <3>6
      <4>2. f[i] = f[i - 1]
        BY <3>1, <3>3, <3>4, <3>6 DEF ReadStep
      <4>3. n <= m /\ m <= n + i
        BY <1>4, <3>1, <3>6
      <4>4. Good(i, m)
        BY <3>2, <3>4, <3>6, <4>1, <4>2, <4>3
      <4>5. QED
        BY <2>1, <4>4
    <3>7. CASE m = n + (i - 1) /\ ~IsEnd(e)
      <4>1. m + 1 = n + i /\ n + i \in Nat /\ n <= n + i /\ n + i >= 1
        BY <1>4, <3>1, <3>7
      <4>2. \A j \in 1..i : ~IsEnd(slots[j])
        <5>1. Live(v, d, m)
          BY <3>2 DEF SeenUpto
        <5>2. ASSUME NEW j \in 1..i, j # i PROVE ~IsEnd(slots[j])
          <6>1. n + j \in 1..m /\ j \in 1..PerSector
            BY <1>4, <3>1, <3>7, <5>2
          <6>2. QED
            BY <1>3, <5>1, <6>1 DEF Live
        <5>3. QED
          BY <3>4, <3>7, <5>2
      <4>3. IF IsListed(e) THEN SeenUpto(v, d, m + 1, Append(seen \o f[i - 1], e))
            ELSE SeenUpto(v, d, m + 1, seen \o f[i - 1])
        BY <3>2, <3>4, <3>7, <4>1, SeenOneMore
      <4>4. e \in SlotsOf(v)
        BY <3>4, <3>7, <4>1, SlotIsThere
      <4>5. CASE IsListed(e)
        <5>1. f[i] = Append(f[i - 1], e)
          BY <3>3, <3>4, <4>2, <4>5 DEF ReadStep
        <5>2. f[i - 1] \in Seq(SlotsOf(v))
          BY <3>2
        <5>3. seen \o Append(f[i - 1], e) = Append(seen \o f[i - 1], e)
          BY <1>4, <4>4, <5>2, SMTT(30)
        <5>4. f[i] \in Seq(SlotsOf(v))
          BY <4>4, <5>1, <5>2
        <5>5. Good(i, n + i)
          BY <4>1, <4>3, <4>5, <5>1, <5>3, <5>4
        <5>6. QED
          BY <2>1, <4>1, <5>5
      <4>6. CASE ~IsListed(e)
        <5>1. f[i] = f[i - 1]
          BY <3>3, <3>4, <4>6 DEF ReadStep
        <5>2. Good(i, n + i)
          BY <3>2, <4>1, <4>3, <4>6, <5>1
        <5>3. QED
          BY <2>1, <4>1, <5>2
      <4>7. QED
        BY <4>5, <4>6
    <3>8. QED
      BY <3>5, <3>6, <3>7
  <2>4. QED
    BY <2>2, <2>3
<1>6. PICK m \in Nat : Good(PerSector, m)
  BY <1>4, <1>5
<1>7. SeenUpto(v, d, m, seen \o SectorEntries(v, block))
  BY <1>2, <1>6
<1>8. ASSUME ~EndsIn(v, block) PROVE m = n + PerSector
  <2> SUFFICES ASSUME m # n + PerSector PROVE FALSE
    OBVIOUS
  <2>1. IsEnd(SlotNo(v, d, m + 1)) /\ n <= m /\ m <= n + PerSector
    BY <1>6
  <2>2. m + 1 - n \in 1..PerSector /\ m + 1 = n + (m + 1 - n)
    BY <1>4, <2>1
  <2>3. IsEnd(slots[m + 1 - n])
    BY <1>3, <2>1, <2>2
  <2>4. QED
    BY <1>1, <1>8, <2>2, <2>3 DEF EndsIn
<1>9. ASSUME EndsIn(v, block) PROVE IsEnd(SlotNo(v, d, m + 1))
  <2> SUFFICES ASSUME m = n + PerSector PROVE FALSE
    BY <1>6
  <2>1. PICK j \in 1..PerSector : IsEnd(slots[j])
    BY <1>1, <1>9 DEF EndsIn
  <2>2. n + j \in 1..m
    BY <1>4
  <2>3. Live(v, d, m)
    BY <1>6 DEF SeenUpto
  <2>4. QED
    BY <1>3, <2>1, <2>2, <2>3 DEF Live
<1>10. QED
  BY <1>7, <1>8, <1>9

(* The end mark, or the end of the chain, ends what a directory shows.      *)
LEMMA ShowsAll ==
    ASSUME NEW v, WellFormed(v), NEW d \in DOMAIN v.dirs, NEW n \in Nat, Live(v, d, n)
    PROVE  /\ Among(v, d, n) \subseteq Shows(v.dirs[d])
           /\ \A k \in Shows(v.dirs[d]) : k \in Nat /\ (k <= n => k \in Among(v, d, n))
           /\ IsEnd(SlotNo(v, d, n + 1)) => Shows(v.dirs[d]) = Among(v, d, n)
<1>1. PICK slots : slots = v.dirs[d]
  OBVIOUS
<1>2. slots \in Seq(SlotsOf(v))
  BY <1>1 DEF WellFormed, DirectoriesFormed
<1>3. Len(slots) \in Nat /\ DOMAIN slots = 1..Len(slots)
  BY <1>2
<1>4. \A k \in 1..n : k \in 1..Len(slots) /\ SlotNo(v, d, k) = slots[k] /\ ~IsEnd(slots[k])
  <2> SUFFICES ASSUME NEW k \in 1..n
               PROVE  k \in 1..Len(slots) /\ SlotNo(v, d, k) = slots[k] /\ ~IsEnd(slots[k])
    OBVIOUS
  <2>1. ~IsEnd(SlotNo(v, d, k)) /\ k \in Nat /\ k >= 1
    BY DEF Live
  <2>2. QED
    BY <1>1, <2>1, SlotIsThere
<1>5. \A k \in 1..Len(slots) : SlotNo(v, d, k) = slots[k]
  BY <1>1, <1>3 DEF SlotNo
<1>6. Among(v, d, n) \subseteq Shows(slots)
  <2> SUFFICES ASSUME NEW k \in Among(v, d, n) PROVE k \in Shows(slots)
    OBVIOUS
  <2>1. k \in 1..n /\ IsListed(SlotNo(v, d, k))
    BY DEF Among
  <2>2. \A j \in 1..k : j \in 1..n
    BY <2>1
  <2>3. QED
    BY <1>3, <1>4, <2>1, <2>2 DEF Shows
<1>7. \A k \in Shows(slots) : k \in Nat /\ k \in 1..Len(slots) /\ IsListed(slots[k])
                              /\ \A j \in 1..k : ~IsEnd(slots[j])
  BY <1>3 DEF Shows
<1>8. \A k \in Shows(slots) : k <= n => k \in Among(v, d, n)
  <2> SUFFICES ASSUME NEW k \in Shows(slots), k <= n PROVE k \in Among(v, d, n)
    OBVIOUS
  <2>1. k \in 1..n /\ IsListed(SlotNo(v, d, k))
    BY <1>4, <1>7
  <2>2. QED
    BY <2>1 DEF Among
<1>9. ASSUME IsEnd(SlotNo(v, d, n + 1)) PROVE \A k \in Shows(slots) : k <= n
  <2> SUFFICES ASSUME NEW k \in Shows(slots), ~(k <= n) PROVE FALSE
    OBVIOUS
  <2>1. n + 1 \in 1..k /\ n + 1 \in 1..Len(slots)
    BY <1>3, <1>7
  <2>2. QED
    BY <1>5, <1>7, <1>9, <2>1
<1>10. QED
  BY <1>1, <1>6, <1>7, <1>8, <1>9

(* The first of the entries read with a name is the first the directory has *)
(* with it; there may be others only if not all has been read.              *)
Hits(seen, part)     == {k \in DOMAIN seen : seen[k].name = Spelling[part].short}
FirstHit(seen, part) == seen[CHOOSE k \in Hits(seen, part) : \A j \in Hits(seen, part) : k <= j]

LEMMA FirstNamed ==
    ASSUME NEW v, WellFormed(v), NEW d \in DOMAIN v.dirs, NEW n, NEW seen,
           SeenUpto(v, d, n, seen), NEW e, Listing(v, e) = v.dirs[d], NEW part
    PROVE  /\ Hits(seen, part) # {} =>
                 /\ FirstHit(seen, part) = Child(v, e, part) /\ FirstHit(seen, part) \in SlotsOf(v)
                 /\ FirstHit(seen, part).name = Spelling[part].short
                 /\ IsListed(FirstHit(seen, part))
           /\ Hits(seen, part) = {} /\ IsEnd(SlotNo(v, d, n + 1)) => Child(v, e, part) = NoEntry
<1>1. PICK slots : slots = v.dirs[d]
  OBVIOUS
<1>2. PICK name : name = Spelling[part].short
  OBVIOUS
<1>3. PICK P : P = Among(v, d, n)
  OBVIOUS
<1> DEFINE hits == {k \in DOMAIN seen : seen[k].name = name}
           theirs == {k \in Shows(slots) : slots[k].name = name}
<1>4. n \in Nat /\ Live(v, d, n) /\ seen \in Seq(SlotsOf(v)) /\ Len(seen) = Cardinality(P)
      /\ \A k \in P : seen[Rank(P, k)] = SlotNo(v, d, k)
  BY <1>3 DEF SeenUpto
<1>5. P \in SUBSET (1..n)
  BY <1>3 DEF Among
<1>6. /\ \A k \in P : Rank(P, k) \in 1..Cardinality(P)
      /\ \A j, k \in P : j < k => Rank(P, j) < Rank(P, k)
      /\ \A m \in 1..Cardinality(P) : \E k \in P : Rank(P, k) = m
  BY <1>4, <1>5, RankFacts
<1>7. Len(seen) \in Nat /\ DOMAIN seen = 1..Len(seen) /\ \A k \in 1..Len(seen) : seen[k] \in SlotsOf(v)
  BY <1>4
<1>8. \A k \in P : SlotNo(v, d, k) = slots[k] /\ IsListed(slots[k])
  <2> SUFFICES ASSUME NEW k \in P PROVE SlotNo(v, d, k) = slots[k] /\ IsListed(slots[k])
    OBVIOUS
  <2>1. k \in 1..n /\ IsListed(SlotNo(v, d, k))
    BY <1>3 DEF Among
  <2>2. ~IsEnd(SlotNo(v, d, k)) /\ k \in Nat /\ k >= 1
    BY <1>4, <2>1 DEF Live
  <2>3. SlotNo(v, d, k) = slots[k]
    BY <1>1, <2>2, SlotIsThere
  <2>4. QED
    BY <2>1, <2>3
<1>9. /\ P \subseteq Shows(slots)
      /\ \A k \in Shows(slots) : k \in Nat /\ (k <= n => k \in P)
      /\ IsEnd(SlotNo(v, d, n + 1)) => Shows(slots) = P
  BY <1>1, <1>3, <1>4, ShowsAll
<1>10. Child(v, e, part) =
          IF theirs = {} THEN NoEntry ELSE slots[CHOOSE k \in theirs : \A j \in theirs : k <= j]
  BY <1>1, <1>2 DEF Child
<1>11. ASSUME hits # {}
       PROVE  LET found == seen[CHOOSE k \in hits : \A j \in hits : k <= j]
              IN  /\ found = Child(v, e, part) /\ found \in SlotsOf(v)
                  /\ found.name = name /\ IsListed(found)
  <2>1. hits \in SUBSET Nat
    BY <1>7
  <2>2. PICK m \in hits : \A j \in hits : m <= j
    BY <1>11, <2>1, LeastNumber
  <2>3. \A k \in hits : (\A j \in hits : k <= j) => k = m
    <3> SUFFICES ASSUME NEW k \in hits, \A j \in hits : k <= j PROVE k = m
      OBVIOUS
    <3>1. k <= m /\ m <= k /\ k \in Nat /\ m \in Nat
      BY <2>1, <2>2
    <3>2. QED
      BY <3>1
  <2> HIDE DEF hits
  <2>4. (CHOOSE k \in hits : \A j \in hits : k <= j) = m
    BY <2>2, <2>3
  <2> USE DEF hits
  <2>5. m \in 1..Cardinality(P) /\ seen[m].name = name /\ seen[m] \in SlotsOf(v)
    BY <1>4, <1>7, <2>2
  <2>6. PICK k \in P : Rank(P, k) = m
    BY <1>6, <2>5
  <2>7. seen[m] = slots[k] /\ IsListed(slots[k])
    BY <1>4, <1>8, <2>6
  <2>8. k \in theirs
    BY <1>9, <2>5, <2>6, <2>7
  <2>9. \A j \in theirs : k <= j
    <3> SUFFICES ASSUME NEW j \in theirs, ~(k <= j) PROVE FALSE
      OBVIOUS
    <3>1. j \in Nat /\ k \in Nat /\ k <= n
      <4>1. j \in Shows(slots) /\ k \in 1..n
        BY <1>5
      <4>2. j \in Nat
        BY <1>9, <4>1, Zenon
      <4>3. QED
        BY <1>4, <4>1, <4>2
    <3>2. j < k /\ j <= n
      BY <1>4, <3>1
    <3>3. j \in P
      BY <1>9, <3>2
    <3>4. Rank(P, j) < m /\ Rank(P, j) \in 1..Cardinality(P)
      BY <1>6, <2>6, <3>2, <3>3
    <3>5. seen[Rank(P, j)] = slots[j]
      BY <1>4, <1>8, <3>3
    <3>6. Rank(P, j) \in hits
      BY <1>4, <1>7, <3>4, <3>5
    <3>7. m <= Rank(P, j) /\ m \in Nat /\ Rank(P, j) \in Nat
      BY <2>1, <2>2, <3>6
    <3>8. QED
      BY <3>4, <3>7
  <2>10. \A x \in theirs : (\A j \in theirs : x <= j) => x = k
    <3> SUFFICES ASSUME NEW x \in theirs, \A j \in theirs : x <= j PROVE x = k
      OBVIOUS
    <3>1. x <= k /\ k <= x /\ k \in Nat /\ x \in Nat
      BY <1>9, <2>8, <2>9
    <3>2. QED
      BY <3>1
  <2> HIDE DEF theirs
  <2>11. (CHOOSE x \in theirs : \A j \in theirs : x <= j) = k /\ theirs # {}
    BY <2>8, <2>9, <2>10
  <2>12. Child(v, e, part) = slots[k]
    BY <1>10, <2>11
  <2>13. QED
    BY <2>4, <2>5, <2>7, <2>12
<1>12. ASSUME hits = {}, IsEnd(SlotNo(v, d, n + 1)) PROVE theirs = {}
  <2> SUFFICES ASSUME NEW k \in theirs PROVE FALSE
    OBVIOUS
  <2>1. k \in P /\ slots[k].name = name
    BY <1>9, <1>12
  <2>2. Rank(P, k) \in DOMAIN seen /\ seen[Rank(P, k)] = slots[k]
    BY <1>4, <1>6, <1>7, <1>8, <2>1
  <2>3. QED
    BY <1>12, <2>1, <2>2
<1>13. ASSUME hits = {}, IsEnd(SlotNo(v, d, n + 1)) PROVE Child(v, e, part) = NoEntry
  BY <1>10, <1>12, <1>13
<1>14. Hits(seen, part) = hits
  BY <1>2 DEF Hits
<1>15. FirstHit(seen, part) = seen[CHOOSE x \in hits : \A j \in hits : x <= j]
  BY <1>14 DEF FirstHit
<1>16. QED
  BY <1>2, <1>11, <1>13, <1>14, <1>15

(* All that has been read is all a listing is to name.                      *)
LEMMA NamesRead ==
    ASSUME NEW v, WellFormed(v), NEW d \in DOMAIN v.dirs, NEW n, NEW seen,
           SeenUpto(v, d, n, seen), IsEnd(SlotNo(v, d, n + 1)),
           NEW e, Listing(v, e) = v.dirs[d]
    PROVE  [k \in DOMAIN seen |-> seen[k].name] = NamesIn(v, e)
<1>1. PICK slots : slots = v.dirs[d]
  OBVIOUS
<1>2. PICK P : P = Among(v, d, n)
  OBVIOUS
<1>3. n \in Nat /\ Live(v, d, n) /\ seen \in Seq(SlotsOf(v)) /\ Len(seen) = Cardinality(P)
      /\ \A k \in P : seen[Rank(P, k)] = SlotNo(v, d, k)
  BY <1>2 DEF SeenUpto
<1>4. P \in SUBSET (1..n)
  BY <1>2 DEF Among
<1>5. Shows(slots) = P
  BY <1>1, <1>2, <1>3, ShowsAll
<1>6. \A k \in P : SlotNo(v, d, k) = slots[k]
  <2> SUFFICES ASSUME NEW k \in P PROVE SlotNo(v, d, k) = slots[k]
    OBVIOUS
  <2>1. k \in 1..n
    BY <1>4
  <2>2. ~IsEnd(SlotNo(v, d, k)) /\ k \in Nat /\ k >= 1
    BY <1>3, <2>1 DEF Live
  <2>3. QED
    BY <1>1, <2>2, SlotIsThere
<1>7. DOMAIN seen = 1..Cardinality(P)
  BY <1>3
<1>8. ASSUME NEW m \in 1..Cardinality(P)
      PROVE  seen[m].name = slots[CHOOSE k \in P : Rank(P, k) = m].name
  <2>1. PICK k \in P : Rank(P, k) = m
    BY <1>3, <1>4, RankFacts
  <2>2. \A j \in P : Rank(P, j) = m => j = k
    <3>1. \A i, j \in P : Rank(P, i) = Rank(P, j) => i = j
      BY <1>3, <1>4, RankFacts
    <3>2. QED
      BY <2>1, <3>1
  <2>3. (CHOOSE j \in P : Rank(P, j) = m) = k
    BY <2>1, <2>2
  <2>4. QED
    BY <1>3, <1>6, <2>1, <2>3
<1>9. NamesIn(v, e) = [m \in 1..Cardinality(P) |-> slots[CHOOSE k \in P : Rank(P, k) = m].name]
  BY <1>1, <1>5 DEF NamesIn
<1>10. QED
  BY <1>7, <1>8, <1>9

-----------------------------------------------------------------------------
(* The walk along a path, step by step.                                     *)
WalkStep(v, path, e, i) ==
    IF IsEmpty(path[i]) THEN e
    ELSE IF IsDirectory(e) THEN Child(v, e, path[i])
    ELSE NoEntry

WalksTo(v, path, n, f) ==
    f = [i \in 0..n |-> IF i = 0 THEN RootEntry ELSE WalkStep(v, path, f[i - 1], i)]

LEMMA WalkExists ==
    ASSUME NEW v, NEW path
    PROVE  \A n \in Nat : \E f : WalksTo(v, path, n, f)
<1> DEFINE T == {n \in Nat : ~ \E f : WalksTo(v, path, n, f)}
<1> SUFFICES ASSUME T # {} PROVE FALSE
  OBVIOUS
<1>1. PICK n \in T : \A k \in T : n <= k
  BY LeastNumber
<1>2. CASE n = 0
  <2> DEFINE g == [i \in 0..0 |-> RootEntry]
  <2>1. g = [i \in 0..0 |-> IF i = 0 THEN RootEntry ELSE WalkStep(v, path, g[i - 1], i)]
    OBVIOUS
  <2> HIDE DEF g
  <2>2. WalksTo(v, path, 0, g)
    BY <2>1 DEF WalksTo
  <2>3. QED
    BY <1>1, <1>2, <2>2
<1>3. CASE n # 0
  <2>1. n - 1 \in Nat /\ n - 1 \notin T
    BY <1>1, <1>3
  <2>2. PICK f : WalksTo(v, path, n - 1, f)
    BY <2>1
  <2>3. \A i \in 0..(n - 1) : f[i] = IF i = 0 THEN RootEntry ELSE WalkStep(v, path, f[i - 1], i)
    BY <2>2 DEF WalksTo
  <2> DEFINE g == [i \in 0..n |-> IF i = n THEN WalkStep(v, path, f[n - 1], n) ELSE f[i]]
  <2>4. \A i \in 0..(n - 1) : g[i] = f[i]
    BY <2>1
  <2>5. g[n] = WalkStep(v, path, f[n - 1], n) /\ n - 1 \in 0..(n - 1)
    BY <2>1
  <2>6. g = [i \in 0..n |-> g[i]]
    OBVIOUS
  <2> HIDE DEF g
  <2>7. ASSUME NEW i \in 0..n
        PROVE  g[i] = IF i = 0 THEN RootEntry ELSE WalkStep(v, path, g[i - 1], i)
    <3>1. CASE i = n
      BY <1>3, <2>4, <2>5, <3>1
    <3>2. CASE i # n
      <4>1. i \in 0..(n - 1) /\ (i # 0 => i - 1 \in 0..(n - 1))
        BY <2>1, <3>2
      <4>2. QED
        BY <2>3, <2>4, <4>1
    <3>3. QED
      BY <3>1, <3>2
  <2>8. WalksTo(v, path, n, g)
    BY <2>6, <2>7 DEF WalksTo
  <2>9. QED
    BY <1>1, <2>8
<1>4. QED
  BY <1>2, <1>3

LEMMA WalkSteps ==
    ASSUME NEW v, NEW path, Len(path) \in Nat
    PROVE  /\ Walk(v, path)[0] = RootEntry
           /\ \A i \in 1..Len(path) : Walk(v, path)[i] = WalkStep(v, path, Walk(v, path)[i - 1], i)
<1> DEFINE body(f) == [i \in 0..Len(path) |->
                          IF i = 0 THEN RootEntry
                          ELSE IF IsEmpty(path[i]) THEN f[i - 1]
                          ELSE IF IsDirectory(f[i - 1]) THEN Child(v, f[i - 1], path[i])
                          ELSE NoEntry]
<1>1. PICK f : f = CHOOSE g : g = body(g)
  OBVIOUS
<1>2. Walk(v, path) = f
  BY <1>1 DEF Walk
<1>3. f = body(f)
  <2>1. PICK g : WalksTo(v, path, Len(path), g)
    BY WalkExists
  <2>2. g = body(g)
    BY <2>1 DEF WalksTo, WalkStep
  <2> HIDE DEF body
  <2>3. QED
    BY <1>1, <2>2
<1>4. WalksTo(v, path, Len(path), f)
  BY <1>3 DEF WalksTo, WalkStep
<1>5. \A i \in 0..Len(path) : f[i] = IF i = 0 THEN RootEntry ELSE WalkStep(v, path, f[i - 1], i)
  BY <1>4 DEF WalksTo
<1>6. 0 \in 0..Len(path) /\ \A i \in 1..Len(path) : i \in 0..Len(path) /\ i # 0
  OBVIOUS
<1>7. QED
  BY <1>2, <1>5, <1>6

-----------------------------------------------------------------------------
(* The inductive invariant.                                                 *)

(* The descriptors below n are open or recycled, and no other is.           *)
Recycled == {recycled[i] : i \in DOMAIN recycled}
FdsInv ==
    /\ recycled \in Seq(0..(FdCount - 1))
    /\ \E n \in 0..FdCount : DOMAIN handles \cup Recycled = 0..(n - 1)
    /\ DOMAIN handles \cap Recycled = {}
    /\ \A i, j \in DOMAIN recycled : recycled[i] = recycled[j] => i = j

(* These are bytes of the file that begins with cluster c, from the n-th.   *)
Right(v, c, n, bytes) ==
    \A i \in DOMAIN bytes : n + i <= Stored(v, c) /\ bytes[i] = FileByte(v, c, n + i - 1)

FileRecords == [kind : {"file"}, first : Nat, size : Nat, offset : Nat,
                path : Paths, got : Seq(Nat), broken : BOOLEAN]

Names(v, h) ==
    LET e == Resolve(v, h.path)
    IN IsFile(e) /\ EntryCluster(e) = h.first /\ e.size = h.size

Standing(v, h) ==
    /\ h \in FileRecords /\ h.offset <= h.size
    /\ h.size > 0 => IsHead(v, h.first)
    /\ Names(v, h) /\ Right(v, h.first, 0, h.got)

HandlesInv == \A fd \in DOMAIN handles : handles[fd] = Console \/ Standing(V, handles[fd])

(* The offset is that of the bytes delivered, but for those still in the    *)
(* buffer of the read going on.                                             *)
Pending(fd) == IF op.at = "copy" /\ op.fd = fd THEN op.done ELSE 0
OffsetInv ==
    \A fd \in DOMAIN handles :
        IsOpenFile(fd) => handles[fd].broken \/ handles[fd].offset = Len(handles[fd].got) + Pending(fd)

(* A scan has followed the path up to a part, and read the directory there  *)
(* up to a sector.                                                          *)
ScanRecords(v) == [at : {"scan", "follow", "match"}, call : {"open", "list"},
                   path : Paths \cup ListPaths, i : Nat, dir : Nat, sector : Nat,
                   seen : Seq(SlotsOf(v)), faulted : BOOLEAN]

Home(e) == IF e = RootEntry THEN ROOT ELSE e.lo

InSector(v, d, o) ==
    IF d = ROOT
    THEN o.dir = ROOT /\ o.sector < v.rootSectors /\ SeenUpto(v, d, o.sector * PerSector, o.seen)
    ELSE \E k \in 1..Len(Chain(v, d)) :
            /\ o.dir = Chain(v, d)[k] /\ o.sector < v.spc
            /\ SeenUpto(v, d, ((k - 1) * v.spc + o.sector) * PerSector, o.seen)

AfterCluster(v, d, o) ==
    /\ d # ROOT
    /\ \E k \in 1..Len(Chain(v, d)) :
          /\ o.dir = Chain(v, d)[k]
          /\ SeenUpto(v, d, (k * v.spc) * PerSector, o.seen)

HasRead(v, d, o) ==
    \E n \in Nat : SeenUpto(v, d, n, o.seen) /\ (~o.faulted => IsEnd(SlotNo(v, d, n + 1)))

PassedParts(path, n) == n \in 0..Len(path) /\ \A j \in 1..n : ~IsEmpty(path[j])

AtDirectory(v, e) == IsDirectory(e) /\ Home(e) \in DOMAIN v.dirs

ScanInv(v, o) ==
    /\ o \in ScanRecords(v)
    /\ IF o.call = "open" THEN o.path \in Paths /\ o.i <= PartCount(o.path)
                          ELSE o.path \in ListPaths
    /\ o.i >= 1 /\ PassedParts(o.path, o.i - 1)
    /\ LET e == Walk(v, o.path)[o.i - 1] IN
       /\ AtDirectory(v, e)
       /\ o.at = "scan"   => InSector(v, Home(e), o)
       /\ o.at = "follow" => AfterCluster(v, Home(e), o)
       /\ o.at = "match"  => HasRead(v, Home(e), o)

(* A read has followed the chain of its file up to the k-th cluster.        *)
SeekRecords == [at : {"seek"}, fd : Nat, want : Nat, hops : Nat, cluster : Nat]
SeekInv(v, h, o) ==
    /\ o \in SeekRecords /\ h.kind = "file"
    /\ h.offset < h.size /\ o.want <= h.size - h.offset
    /\ \E k \in 1..Len(Chain(v, h.first)) :
          /\ o.cluster = Chain(v, h.first)[k]
          /\ (k - 1) + o.hops = h.offset \div ClusterSize(v)

(* It is within a chunk of a cluster, and what it has read so far is right. *)
CopyRecords == [at : {"copy"}, fd : Nat, want : Nat, cluster : Nat,
                buf : Seq(Nat), done : Nat, chunk : Nat]
ChunkOf(v, want, done, offset) ==
    Smaller(want - done, ClusterSize(v) - (offset % ClusterSize(v)))
CopyInv(v, h, o) ==
    /\ o \in CopyRecords /\ h.kind = "file" /\ h.size > 0
    /\ o.done <= Len(o.buf) /\ Len(o.buf) <= o.done + o.chunk
    /\ o.done <= o.want /\ o.chunk = ChunkOf(v, o.want, o.done, h.offset)
    /\ h.offset + (o.want - o.done) <= h.size
    /\ \E k \in 1..Len(Chain(v, h.first)) :
          o.cluster = Chain(v, h.first)[k] /\ h.offset \div ClusterSize(v) = k - 1
    /\ ~h.broken => Right(v, h.first, Len(h.got), o.buf)

OpInv ==
    \/ op = Idle \/ op.at = "panic"
    \/ ScanInv(V, op)
    \/ /\ op.at \in {"seek", "copy"} /\ op.fd \in DOMAIN handles
       /\ SeekInv(V, handles[op.fd], op) \/ CopyInv(V, handles[op.fd], op)

(* What a call that has ended reported was true.                            *)
LastInv(v, l) ==
    /\ (l.call = "open" /\ l.ret = "NotFound" /\ ~l.faulted) =>
          Resolve(v, l.path) \in {NoEntry, RootEntry}
    /\ (l.call = "list" /\ ~l.faulted) =>
          LET e == Resolve(v, l.path) IN
          /\ l.ret = "Ok" => IsDirectory(e) /\ l.shown = NamesIn(v, e)
          /\ l.ret = "NotADirectory" => ~IsDirectory(e) \/ OnlySlashes(l.path)

IInv ==
    /\ vol \in DOMAIN Volumes
    /\ FdsInv /\ HandlesInv /\ OffsetInv /\ OpInv /\ LastInv(V, last)

-----------------------------------------------------------------------------
(* Paths.                                                                   *)

LEMMA PathFacts ==
    ASSUME NEW path \in Paths \cup ListPaths
    PROVE  /\ path \in Seq(DOMAIN Spelling) /\ Len(path) \in Nat
           /\ DOMAIN path = 1..Len(path)
           /\ IsFiniteSet({i \in DOMAIN path : ~IsEmpty(path[i])})
           /\ PartCount(path) \in 0..Len(path)
<1>1. path \in Seq(DOMAIN Spelling)
  BY PathAssumption
<1>2. Len(path) \in Nat /\ DOMAIN path = 1..Len(path)
  BY <1>1
<1>3. IsFiniteSet(1..Len(path)) /\ Cardinality(1..Len(path)) = Len(path)
  <2>1. \A n \in Nat : IsFiniteSet(1..n) /\ Cardinality(1..n) = n
    BY FS_Interval
  <2>2. QED
    BY <1>2, <2>1
<1>4. {i \in DOMAIN path : ~IsEmpty(path[i])} \subseteq 1..Len(path)
  BY <1>2
<1>5. /\ IsFiniteSet({i \in DOMAIN path : ~IsEmpty(path[i])})
      /\ Cardinality({i \in DOMAIN path : ~IsEmpty(path[i])}) <= Len(path)
  BY <1>3, <1>4, FS_Subset
<1>6. Cardinality({i \in DOMAIN path : ~IsEmpty(path[i])}) \in Nat
  BY <1>5, FS_CardinalityType
<1>7. QED
  BY <1>1, <1>2, <1>5, <1>6 DEF PartCount

(* Parts that have been passed count; when all are, the rest are empty.     *)
LEMMA PartsPassed ==
    ASSUME NEW path \in Paths \cup ListPaths, NEW n, PassedParts(path, n)
    PROVE  /\ n <= PartCount(path)
           /\ PartCount(path) = n => \A j \in (n + 1)..Len(path) : IsEmpty(path[j])
<1> DEFINE Full == {i \in DOMAIN path : ~IsEmpty(path[i])}
<1>1. n \in 0..Len(path) /\ Len(path) \in Nat /\ DOMAIN path = 1..Len(path)
  BY PathFacts DEF PassedParts
<1>2. 1..n \subseteq Full
  BY <1>1 DEF PassedParts
<1>3. IsFiniteSet(Full) /\ Cardinality(Full) = PartCount(path)
  BY PathFacts DEF PartCount
<1>4. IsFiniteSet(1..n) /\ Cardinality(1..n) = n
  BY <1>1, FS_Interval
<1>5. n <= PartCount(path)
  BY <1>2, <1>3, <1>4, FS_Subset
<1>6. ASSUME PartCount(path) = n, NEW j \in (n + 1)..Len(path), ~IsEmpty(path[j])
      PROVE  FALSE
  <2>1. 1..n = Full
    BY <1>2, <1>3, <1>4, <1>6, FS_Subset
  <2>2. j \in Full /\ j \notin 1..n
    BY <1>1, <1>6
  <2>3. QED
    BY <2>1, <2>2
<1>7. QED
  BY <1>5, <1>6

(* A path that leads to no directory stays where it is, or is lost.         *)
LEMMA WalkEnds ==
    ASSUME NEW v, NEW path \in Paths \cup ListPaths, NEW n \in 0..Len(path),
           \/ ~IsDirectory(Walk(v, path)[n])
           \/ \A j \in (n + 1)..Len(path) : IsEmpty(path[j])
    PROVE  /\ (\A j \in (n + 1)..Len(path) : IsEmpty(path[j])) =>
                  Resolve(v, path) = Walk(v, path)[n]
           /\ ~IsDirectory(Walk(v, path)[n]) =>
                  Resolve(v, path) \in {Walk(v, path)[n], NoEntry}
<1> DEFINE e == Walk(v, path)[n]
           Only(i) == Walk(v, path)[i] = e \/ (Walk(v, path)[i] = NoEntry /\ ~IsDirectory(e)
                         /\ ~\A j \in (n + 1)..Len(path) : IsEmpty(path[j]))
           Bad == {i \in Nat : i \in n..Len(path) /\ ~Only(i)}
<1>1. Len(path) \in Nat /\ n \in Nat /\ n <= Len(path)
  BY PathFacts
<1>2. ~IsDirectory(NoEntry)
  BY DEF IsDirectory, NoEntry, EmptySlot
<1>3. ASSUME Bad # {} PROVE FALSE
  <2>1. PICK m \in Bad : \A k \in Bad : m <= k
    <3>1. Bad \in SUBSET Nat
      OBVIOUS
    <3>2. QED
      BY <1>3, <3>1, LeastNumber
  <2>2. m \in Nat /\ m > n /\ m <= Len(path)
    BY <1>1, <2>1
  <2>3. Only(m - 1)
    BY <1>1, <2>1, <2>2
  <2>4. Walk(v, path)[m] = WalkStep(v, path, Walk(v, path)[m - 1], m)
    BY <1>1, <2>2, WalkSteps
  <2>5. m \in (n + 1)..Len(path)
    BY <1>1, <2>2
  <2>6. Only(m)
    <3> HIDE DEF e
    <3>1. CASE IsEmpty(path[m])
      BY <2>3, <2>4, <3>1 DEF WalkStep
    <3>2. CASE ~IsEmpty(path[m])
      <4>1. ~IsDirectory(e) /\ ~\A j \in (n + 1)..Len(path) : IsEmpty(path[j])
        BY <2>5, <3>2 DEF e
      <4>2. ~IsDirectory(Walk(v, path)[m - 1])
        BY <1>2, <2>3, <4>1
      <4>3. QED
        BY <2>4, <3>2, <4>1, <4>2 DEF WalkStep
    <3>3. QED
      BY <3>1, <3>2
  <2>7. QED
    BY <2>1, <2>6
<1>4. Only(Len(path))
  BY <1>1, <1>3
<1>5. Resolve(v, path) = Walk(v, path)[Len(path)]
  BY DEF Resolve
<1>6. QED
  BY <1>4, <1>5

(* Where a walk is after one more part.                                     *)
LEMMA WalkOn ==
    ASSUME NEW v, NEW path \in Paths \cup ListPaths, NEW n \in 1..Len(path),
           ~IsEmpty(path[n]), IsDirectory(Walk(v, path)[n - 1])
    PROVE  Walk(v, path)[n] = Child(v, Walk(v, path)[n - 1], path[n])
<1>1. Len(path) \in Nat
  BY PathFacts
<1>2. Walk(v, path)[n] = WalkStep(v, path, Walk(v, path)[n - 1], n)
  BY <1>1, WalkSteps
<1>3. QED
  BY <1>2 DEF WalkStep

-----------------------------------------------------------------------------
(* The scan of a directory.                                                 *)

LEMMA DirectoryHead ==
    ASSUME NEW v, WellFormed(v), NEW d \in DOMAIN v.dirs, d # ROOT
    PROVE  IsHead(v, d) /\ d \in Nat /\ 2 <= d
<1>1. IsHead(v, d)
  BY DEF WellFormed, DirectoriesFormed, SlotsFit
<1>2. QED
  BY <1>1, ChainFacts

LEMMA ListingOf ==
    ASSUME NEW v, NEW e
    PROVE  Listing(v, e) = v.dirs[Home(e)]
BY DEF Listing, Home

(* An entry found leads to a directory of the volume, which is not the root *)
(* again.                                                                   *)
LEMMA NamedEntry ==
    ASSUME NEW v, WellFormed(v), NEW e \in SlotsOf(v), IsListed(e),
           NEW part \in DOMAIN Spelling, e.name = Spelling[part].short, IsDirectory(e)
    PROVE  AtDirectory(v, e) /\ Home(e) = EntryCluster(e)
<1>1. EntryFormed(v, e)
  BY DEF WellFormed
<1>2. IsNamed(e)
  BY DEF IsNamed
<1>3. e.lo \in DOMAIN v.dirs /\ e.lo # ROOT /\ e.lo \in Nat /\ e.hi = 0
  BY <1>1, <1>2 DEF EntryFormed
<1>4. 2 <= e.lo
  BY <1>3, DirectoryHead
<1>5. e # RootEntry
  <2>1. RootEntry.lo = 0
    BY DEF RootEntry, EmptySlot
  <2>2. QED
    BY <1>3, <1>4, <2>1
<1>6. QED
  BY <1>3, <1>5 DEF AtDirectory, Home, EntryCluster

LEMMA ScanBegins ==
    ASSUME NEW v, WellFormed(v), NEW call \in {"open", "list"}, NEW path, NEW i \in Nat, i >= 1,
           NEW faulted \in BOOLEAN, PassedParts(path, i - 1),
           IF call = "open" THEN path \in Paths /\ i <= PartCount(path) ELSE path \in ListPaths,
           NEW e, e = Walk(v, path)[i - 1], AtDirectory(v, e)
    PROVE  ScanInv(v, ScanOf(call, path, i, Home(e), faulted))
<1> DEFINE o == ScanOf(call, path, i, Home(e), faulted)
<1>1. Home(e) \in DOMAIN v.dirs /\ Home(e) \in Nat
  BY DirectoryHead DEF AtDirectory, ROOT
<1>2. o \in ScanRecords(v)
  <2>1. <<>> \in Seq(SlotsOf(v))
    OBVIOUS
  <2>2. QED
    BY <1>1, <2>1 DEF ScanOf, ScanRecords
<1>3. v.spc \in Nat /\ 0 < v.spc /\ v.rootSectors \in Nat /\ 0 < v.rootSectors /\ PerSector \in Nat
  BY Regions, Geometry
<1>4. SeenUpto(v, Home(e), 0, <<>>)
  BY SeenNothing
<1>5. o.dir = Home(e) /\ o.sector = 0 /\ o.seen = <<>> /\ o.at = "scan" /\ o.path = path
      /\ o.i = i /\ o.call = call
  BY DEF ScanOf
<1>6. InSector(v, Home(e), o)
  <2> HIDE DEF o
  <2>1. CASE Home(e) = ROOT
    <3>1. 0 * PerSector = 0
      BY <1>3
    <3>2. QED
      BY <1>3, <1>4, <1>5, <2>1, <3>1 DEF InSector
  <2>2. CASE Home(e) # ROOT
    <3>1. IsHead(v, Home(e))
      BY <1>1, <2>2, DirectoryHead
    <3>2. 1 \in 1..Len(Chain(v, Home(e))) /\ Chain(v, Home(e))[1] = Home(e)
      BY <3>1, ChainFacts
    <3>3. ((1 - 1) * v.spc + 0) * PerSector = 0
      BY <1>3
    <3>4. QED
      BY <1>3, <1>4, <1>5, <2>2, <3>2, <3>3 DEF InSector
  <2>3. QED
    BY <2>1, <2>2
<1>7. QED
  <2> HIDE DEF o
  <2>1. ScanInv(v, o)
    BY <1>2, <1>5, <1>6 DEF ScanInv
  <2>2. QED
    BY <2>1 DEF o

LEMMA ScanGoesOn ==
    ASSUME NEW v, NEW o, ScanInv(v, o), NEW p \in ScanRecords(v),
           p.call = o.call, p.path = o.path, p.i = o.i,
           NEW d, d = Home(Walk(v, o.path)[o.i - 1]),
           p.at = "scan"   => InSector(v, d, p),
           p.at = "follow" => AfterCluster(v, d, p),
           p.at = "match"  => HasRead(v, d, p)
    PROVE  ScanInv(v, p)
BY DEF ScanInv

(* The slots behind the last of a directory are empty.                      *)
LEMMA BehindTheLast ==
    ASSUME NEW v, WellFormed(v), NEW d \in DOMAIN v.dirs, NEW n \in Nat,
           IF d = ROOT THEN n = v.rootSectors * PerSector
                       ELSE n = (Len(Chain(v, d)) * v.spc) * PerSector
    PROVE  IsEnd(SlotNo(v, d, n + 1))
<1>1. v.dirs[d] \in Seq(SlotsOf(v)) /\ SlotsFit(v, d)
  BY DEF WellFormed, DirectoriesFormed
<1>2. Len(v.dirs[d]) \in Nat
  BY <1>1
<1>3. Len(v.dirs[d]) <= n
  BY <1>1 DEF SlotsFit
<1>4. ~(n + 1 <= Len(v.dirs[d]))
  BY <1>2, <1>3
<1>5. QED
  BY <1>4 DEF SlotNo, IsEnd, EmptySlot

LEMMA OneMoreRow ==
    ASSUME NEW a \in Nat, NEW p \in Nat
    PROVE  a * p \in Nat /\ a * p + p = (a + 1) * p
OBVIOUS

(* One sector of the root directory.                                        *)
LEMMA RootScanned ==
    ASSUME NEW v, WellFormed(v), NEW o, o \in ScanRecords(v), InSector(v, ROOT, o), NEW b,
           b = FirstSector(v, o.dir) + o.sector, InPartition(v, b), NEW seen,
           seen = o.seen \o SectorEntries(v, b)
    PROVE  /\ ~EndsIn(v, b) => SeenUpto(v, ROOT, (o.sector + 1) * PerSector, seen)
           /\ EndsIn(v, b) => \E m \in Nat : SeenUpto(v, ROOT, m, seen) /\ IsEnd(SlotNo(v, ROOT, m + 1))
<1>1. /\ o.dir = ROOT /\ o.sector \in Nat /\ o.sector < v.rootSectors
      /\ SeenUpto(v, ROOT, o.sector * PerSector, o.seen)
  BY DEF InSector, ScanRecords
<1>2. ROOT \in DOMAIN v.dirs
  BY DEF WellFormed, DirectoriesFormed
<1>3. b = RootStart(v) + o.sector
  BY <1>1 DEF FirstSector
<1>4. \A j \in 1..PerSector : DiskSlot(v, Lba(v, b), j) = SlotNo(v, ROOT, o.sector * PerSector + j)
  BY <1>1, <1>3, RootSlot
<1>5. o.sector * PerSector + PerSector = (o.sector + 1) * PerSector
  BY <1>1, Geometry, OneMoreRow
<1>6. QED
  BY <1>1, <1>2, <1>4, <1>5, SectorRead

(* One sector of another.                                                   *)
LEMMA ClusterScanned ==
    ASSUME NEW v, WellFormed(v), NEW d \in DOMAIN v.dirs, d # ROOT,
           NEW o, o \in ScanRecords(v), o.sector < v.spc,
           NEW k \in 1..Len(Chain(v, d)), o.dir = Chain(v, d)[k],
           SeenUpto(v, d, ((k - 1) * v.spc + o.sector) * PerSector, o.seen), NEW b,
           b = FirstSector(v, o.dir) + o.sector, InPartition(v, b), NEW seen,
           seen = o.seen \o SectorEntries(v, b)
    PROVE  /\ ~EndsIn(v, b) => SeenUpto(v, d, ((k - 1) * v.spc + (o.sector + 1)) * PerSector, seen)
           /\ EndsIn(v, b) => \E m \in Nat : SeenUpto(v, d, m, seen) /\ IsEnd(SlotNo(v, d, m + 1))
<1>1. o.sector \in Nat /\ v.spc \in Nat /\ PerSector \in Nat
  BY Regions, Geometry DEF ScanRecords
<1>2. k \in Nat /\ k >= 1
  BY DirectoryHead, ChainFacts
<1>3. PICK a \in Nat : a = (k - 1) * v.spc
  BY <1>1, <1>2, OneMoreRow
<1>4. \A j \in 1..PerSector :
          DiskSlot(v, Lba(v, b), j) = SlotNo(v, d, ((k - 1) * v.spc + o.sector) * PerSector + j)
  <2>1. PICK n \in Nat : n = o.sector /\ n < v.spc
    BY <1>1
  <2>2. b = FirstSector(v, Chain(v, d)[k]) + n
    BY <2>1
  <2>3. InPartition(v, FirstSector(v, Chain(v, d)[k]) + n)
    BY <2>2
  <2>4. \A j : DiskSlot(v, Lba(v, FirstSector(v, Chain(v, d)[k]) + n), j)
                  = SlotNo(v, d, ((k - 1) * v.spc + n) * PerSector + j)
    BY <2>1, <2>3, ChainSlot
  <2>5. QED
    BY <2>1, <2>2, <2>4, Zenon
<1>5. ((k - 1) * v.spc + o.sector) * PerSector + PerSector
          = ((k - 1) * v.spc + (o.sector + 1)) * PerSector
  <2>1. (a + o.sector) * PerSector + PerSector = ((a + o.sector) + 1) * PerSector
    BY <1>1, <1>3, OneMoreRow
  <2>2. (a + o.sector) + 1 = a + (o.sector + 1)
    BY <1>1
  <2>3. QED
    BY <1>3, <2>1, <2>2
<1>6. QED
  BY <1>4, <1>5, SectorRead

LEMMA ScansOn ==
    ASSUME IInv, WellFormed(V), op.at = "scan", ScanInv(V, op), BlockReads(ScanBlock)
    PROVE  ScanInv(V, [AfterSector EXCEPT !.seen = op.seen \o SectorEntries(V, ScanBlock)])
<1> DEFINE v == V
           o == op
           d == Home(Walk(v, o.path)[o.i - 1])
           b == ScanBlock
           seen == o.seen \o SectorEntries(v, b)
           p == [AfterSector EXCEPT !.seen = seen]
<1>1. o \in ScanRecords(v) /\ d \in DOMAIN v.dirs /\ InSector(v, d, o) /\ o.at = "scan"
  BY DEF ScanInv, AtDirectory
<1>2. b = FirstSector(v, o.dir) + o.sector /\ InPartition(v, b) /\ o.sector \in Nat
  BY <1>1 DEF ScanBlock, BlockReads, ScanRecords
<1>3. v.spc \in Nat \ {0} /\ v.rootSectors \in Nat \ {0} /\ PerSector \in Nat \ {0}
  BY Regions, Geometry
<1>4. CASE EndsIn(v, b)
  <2>1. seen \in Seq(SlotsOf(v)) /\ HasRead(v, d, [o EXCEPT !.at = "match", !.seen = seen])
    <3>1. \E m \in Nat : SeenUpto(v, d, m, seen) /\ IsEnd(SlotNo(v, d, m + 1))
      <4> HIDE DEF d, b, v, o
      <4>1. CASE d = ROOT
        BY <1>1, <1>2, <1>4, <4>1, RootScanned DEF v
      <4>2. CASE d # ROOT
        <5>1. PICK k \in 1..Len(Chain(v, d)) :
                 /\ o.dir = Chain(v, d)[k] /\ o.sector < v.spc
                 /\ SeenUpto(v, d, ((k - 1) * v.spc + o.sector) * PerSector, o.seen)
          BY <1>1, <4>2 DEF InSector
        <5>2. QED
          BY <1>1, <1>2, <1>4, <4>2, <5>1, ClusterScanned DEF v
      <4>3. QED
        BY <4>1, <4>2
    <3> HIDE DEF d, b, v, o, seen
    <3>2. seen \in Seq(SlotsOf(v))
      BY <3>1 DEF SeenUpto
    <3>3. [o EXCEPT !.at = "match", !.seen = seen].seen = seen
      BY <1>1 DEF ScanRecords
    <3>4. QED
      BY <3>1, <3>2, <3>3 DEF HasRead
  <2>2. p = [o EXCEPT !.at = "match", !.seen = seen]
    BY <1>1, <1>4 DEF AfterSector, ScanRecords
  <2>3. /\ p \in ScanRecords(v) /\ p.call = o.call /\ p.path = o.path /\ p.i = o.i
        /\ p.at = "match"
    <3> HIDE DEF d, b, v, o, seen, p
    <3>1. QED
      BY <1>1, <2>1, <2>2 DEF ScanRecords
  <2>4. QED
    <3> HIDE DEF p
    <3>1. HasRead(v, d, p)
      BY <2>1, <2>2
    <3>2. ScanInv(v, p)
      BY <2>3, <3>1, ScanGoesOn
    <3>3. QED
      BY <3>2 DEF p
<1>5. CASE ~EndsIn(v, b) /\ o.sector + 1 < SectorCount(v, o.dir)
  <2>1. p = [o EXCEPT !.sector = o.sector + 1, !.seen = seen]
    BY <1>1, <1>5 DEF AfterSector, ScanRecords
  <2> HIDE DEF d, b, v, o, seen, p
  <2>2. p.dir = o.dir /\ p.sector = o.sector + 1 /\ p.seen = seen
    BY <1>1, <2>1 DEF ScanRecords
  <2>3. seen \in Seq(SlotsOf(v)) /\ InSector(v, d, p)
    <3>1. CASE d = ROOT
      <4>1. o.dir = ROOT
        BY <1>1, <3>1 DEF InSector
      <4>2. p.sector < v.rootSectors
        BY <1>5, <2>2, <4>1, Regions DEF SectorCount, v
      <4>3. SeenUpto(v, ROOT, (o.sector + 1) * PerSector, seen)
        BY <1>1, <1>2, <1>5, <3>1, RootScanned DEF v, seen
      <4>4. QED
        BY <2>2, <3>1, <4>1, <4>2, <4>3 DEF InSector, SeenUpto
    <3>2. CASE d # ROOT
      <4>1. PICK k \in 1..Len(Chain(v, d)) :
               /\ o.dir = Chain(v, d)[k] /\ o.sector < v.spc
               /\ SeenUpto(v, d, ((k - 1) * v.spc + o.sector) * PerSector, o.seen)
        BY <1>1, <3>2 DEF InSector
      <4>2. o.dir \in Nat /\ 2 <= o.dir /\ o.dir < EndMark
        BY <1>1, <3>2, <4>1, DirectoryHead, ChainFacts DEF v
      <4>3. p.sector < v.spc
        BY <1>5, <2>2, <4>2, FirstOfCluster DEF v
      <4>4. SeenUpto(v, d, ((k - 1) * v.spc + (o.sector + 1)) * PerSector, seen)
        BY <1>1, <1>2, <1>5, <3>2, <4>1, ClusterScanned DEF v, seen
      <4>5. QED
        BY <2>2, <3>2, <4>1, <4>3, <4>4 DEF InSector, SeenUpto
    <3>3. QED
      BY <3>1, <3>2
  <2>4. /\ p \in ScanRecords(v) /\ p.call = o.call /\ p.path = o.path /\ p.i = o.i
        /\ p.at = "scan"
    <3>1. o.sector + 1 \in Nat
      BY <1>2
    <3> DEFINE q == [o EXCEPT !.sector = o.sector + 1]
    <3>2. q \in ScanRecords(v) /\ q.call = o.call /\ q.path = o.path /\ q.i = o.i /\ q.at = o.at
      BY <1>1, <3>1 DEF ScanRecords
    <3>3. p = [q EXCEPT !.seen = seen]
      BY <2>1
    <3> HIDE DEF q
    <3>4. QED
      BY <1>1, <2>3, <3>2, <3>3 DEF ScanRecords
  <2>5. ScanInv(v, p)
    BY <2>3, <2>4, ScanGoesOn DEF d, v, o
  <2>6. QED
    BY <2>5 DEF p, v, o, seen, b
<1>6. CASE ~EndsIn(v, b) /\ ~(o.sector + 1 < SectorCount(v, o.dir))
  <2>1. p = [o EXCEPT !.at = IF o.dir = ROOT THEN "match" ELSE "follow", !.seen = seen]
    BY <1>1, <1>6 DEF AfterSector, ScanRecords
  <2> HIDE DEF d, b, v, o, seen, p
  <2>2. p.dir = o.dir /\ p.seen = seen /\ p.faulted = o.faulted
        /\ p.at = IF o.dir = ROOT THEN "match" ELSE "follow"
    BY <1>1, <2>1 DEF ScanRecords
  <2>3. CASE d = ROOT
    <3>1. o.dir = ROOT /\ o.sector < v.rootSectors
      BY <1>1, <2>3 DEF InSector
    <3>2. o.sector + 1 = v.rootSectors
      BY <1>2, <1>3, <1>6, <3>1, Regions DEF SectorCount, v
    <3>3. SeenUpto(v, ROOT, v.rootSectors * PerSector, seen)
      BY <1>1, <1>2, <1>6, <2>3, <3>2, RootScanned DEF v, seen
    <3>4. v.rootSectors * PerSector \in Nat
      BY <1>3
    <3>5. IsEnd(SlotNo(v, ROOT, v.rootSectors * PerSector + 1))
      BY <1>1, <2>3, <3>4, BehindTheLast DEF v
    <3>6. HasRead(v, d, p) /\ seen \in Seq(SlotsOf(v))
      BY <2>2, <2>3, <3>3, <3>4, <3>5 DEF HasRead, SeenUpto
    <3>7. /\ p \in ScanRecords(v) /\ p.call = o.call /\ p.path = o.path /\ p.i = o.i
          /\ p.at = "match"
      BY <1>1, <2>1, <3>1, <3>6 DEF ScanRecords
    <3>8. ScanInv(v, p)
      BY <3>6, <3>7, ScanGoesOn DEF d, v, o
    <3>9. QED
      BY <3>8 DEF p, v, o, seen, b
  <2>4. CASE d # ROOT
    <3>1. PICK k \in 1..Len(Chain(v, d)) :
             /\ o.dir = Chain(v, d)[k] /\ o.sector < v.spc
             /\ SeenUpto(v, d, ((k - 1) * v.spc + o.sector) * PerSector, o.seen)
      BY <1>1, <2>4 DEF InSector
    <3>2. o.dir \in Nat /\ 2 <= o.dir /\ o.dir < EndMark /\ k \in Nat /\ k >= 1
      BY <1>1, <2>4, <3>1, DirectoryHead, ChainFacts DEF v
    <3>3. o.sector + 1 = v.spc /\ o.dir # ROOT
      <4>1. SectorCount(v, o.dir) = v.spc /\ o.dir # ROOT
        BY <3>2, FirstOfCluster DEF v
      <4>2. QED
        BY <1>2, <1>3, <1>6, <3>1, <4>1, SMTT(30)
    <3>4. SeenUpto(v, d, ((k - 1) * v.spc + (o.sector + 1)) * PerSector, seen)
      BY <1>1, <1>2, <1>6, <2>4, <3>1, ClusterScanned DEF v, seen
    <3>5. (k - 1) * v.spc + (o.sector + 1) = k * v.spc
      <4>1. PICK a \in Nat : a = k - 1
        BY <3>2
      <4>2. a * v.spc + v.spc = (a + 1) * v.spc /\ a + 1 = k
        BY <1>3, <3>2, <4>1, OneMoreRow
      <4>3. QED
        BY <3>3, <4>1, <4>2
    <3>6. AfterCluster(v, d, p) /\ seen \in Seq(SlotsOf(v))
      BY <2>2, <2>4, <3>1, <3>4, <3>5 DEF AfterCluster, SeenUpto
    <3>7. /\ p \in ScanRecords(v) /\ p.call = o.call /\ p.path = o.path /\ p.i = o.i
          /\ p.at = "follow"
      BY <1>1, <2>1, <3>3, <3>6 DEF ScanRecords
    <3>8. ScanInv(v, p)
      BY <3>6, <3>7, ScanGoesOn DEF d, v, o
    <3>9. QED
      BY <3>8 DEF p, v, o, seen, b
  <2>5. QED
    BY <2>3, <2>4
<1>7. QED
  BY <1>4, <1>5, <1>6

LEMMA Follows ==
    ASSUME NEW v, WellFormed(v), NEW o, ScanInv(v, o), o.at = "follow"
    PROVE  /\ InPartition(v, FatBlock(v, o.dir)) =>
                 ScanInv(v, IF HasNext(v, o.dir)
                            THEN [o EXCEPT !.at = "scan", !.sector = 0, !.dir = Word(v, o.dir)]
                            ELSE [o EXCEPT !.at = "match"])
           /\ ScanInv(v, [o EXCEPT !.at = "match", !.faulted = TRUE])
<1> DEFINE d == Home(Walk(v, o.path)[o.i - 1])
<1>1. o \in ScanRecords(v) /\ d \in DOMAIN v.dirs /\ AfterCluster(v, d, o)
  BY DEF ScanInv, AtDirectory
<1> HIDE DEF d
<1>2. PICK k \in 1..Len(Chain(v, d)) :
         o.dir = Chain(v, d)[k] /\ SeenUpto(v, d, (k * v.spc) * PerSector, o.seen)
  BY <1>1 DEF AfterCluster
<1>3. d # ROOT /\ IsHead(v, d)
  BY <1>1, DirectoryHead DEF AfterCluster
<1>4. /\ Chain(v, d) \in v.chains /\ Len(Chain(v, d)) \in Nat /\ k \in Nat /\ k >= 1
      /\ \A i \in 1..Len(Chain(v, d)) : Chain(v, d)[i] \in Nat
  BY <1>3, ChainFacts
<1>5. v.spc \in Nat /\ 0 < v.spc /\ PerSector \in Nat
  BY Regions, Geometry
<1>6. k * v.spc \in Nat /\ (k * v.spc) * PerSector \in Nat
  <2>1. PICK a \in Nat : a = k * v.spc
    BY <1>4, <1>5, OneMoreRow
  <2>2. a * PerSector \in Nat
    BY <1>5, OneMoreRow
  <2>3. QED
    BY <2>1, <2>2
<1>7. ASSUME InPartition(v, FatBlock(v, o.dir)), HasNext(v, o.dir)
      PROVE  ScanInv(v, [o EXCEPT !.at = "scan", !.sector = 0, !.dir = Word(v, o.dir)])
  <2> DEFINE p == [o EXCEPT !.at = "scan", !.sector = 0, !.dir = Word(v, o.dir)]
  <2>1. InPartition(v, FatBlock(v, Chain(v, d)[k])) /\ HasNext(v, Chain(v, d)[k])
    BY <1>2, <1>7
  <2>2. k < Len(Chain(v, d)) /\ Word(v, o.dir) = Chain(v, d)[k + 1]
    BY <1>2, <1>4, <2>1, NextWord
  <2>3. k + 1 \in 1..Len(Chain(v, d)) /\ Word(v, o.dir) \in Nat
    BY <1>4, <2>2
  <2>4. ((k + 1) - 1) * v.spc + 0 = k * v.spc
    BY <1>4, <1>5, <1>6
  <2>5. p \in ScanRecords(v) /\ p.call = o.call /\ p.path = o.path /\ p.i = o.i /\ p.at = "scan"
        /\ p.dir = Chain(v, d)[k + 1] /\ p.sector = 0 /\ p.seen = o.seen
    BY <1>1, <2>2, <2>3 DEF ScanRecords
  <2> HIDE DEF p
  <2>6. SeenUpto(v, d, (((k + 1) - 1) * v.spc + p.sector) * PerSector, p.seen)
    BY <1>2, <2>4, <2>5
  <2>7. InSector(v, d, p)
    BY <1>3, <1>5, <2>3, <2>5, <2>6 DEF InSector
  <2>8. ScanInv(v, p)
    BY <2>5, <2>7, ScanGoesOn DEF d
  <2>9. QED
    BY <2>8 DEF p
<1>8. ASSUME InPartition(v, FatBlock(v, o.dir)), ~HasNext(v, o.dir)
      PROVE  ScanInv(v, [o EXCEPT !.at = "match"])
  <2> DEFINE p == [o EXCEPT !.at = "match"]
  <2>1. InPartition(v, FatBlock(v, Chain(v, d)[k])) /\ ~HasNext(v, Chain(v, d)[k])
    BY <1>2, <1>8
  <2>2. k = Len(Chain(v, d))
    <3>1. k < Len(Chain(v, d)) => HasNext(v, Chain(v, d)[k])
      BY <1>4, <2>1, NextWord
    <3>2. QED
      BY <1>4, <2>1, <3>1
  <2>3. IsEnd(SlotNo(v, d, (k * v.spc) * PerSector + 1))
    BY <1>1, <1>3, <1>6, <2>2, BehindTheLast
  <2>4. p \in ScanRecords(v) /\ p.call = o.call /\ p.path = o.path /\ p.i = o.i /\ p.at = "match"
        /\ p.seen = o.seen
    BY <1>1 DEF ScanRecords
  <2> HIDE DEF p
  <2>5. HasRead(v, d, p)
    BY <1>2, <1>6, <2>3, <2>4 DEF HasRead
  <2>6. ScanInv(v, p)
    BY <2>4, <2>5, ScanGoesOn DEF d
  <2>7. QED
    BY <2>6 DEF p
<1>9. ScanInv(v, [o EXCEPT !.at = "match", !.faulted = TRUE])
  <2> DEFINE p == [o EXCEPT !.at = "match", !.faulted = TRUE]
  <2>1. p \in ScanRecords(v) /\ p.call = o.call /\ p.path = o.path /\ p.i = o.i /\ p.at = "match"
        /\ p.seen = o.seen /\ p.faulted
    BY <1>1 DEF ScanRecords
  <2> HIDE DEF p
  <2>2. HasRead(v, d, p)
    BY <1>2, <1>6, <2>1 DEF HasRead
  <2>3. ScanInv(v, p)
    BY <2>1, <2>2, ScanGoesOn DEF d
  <2>4. QED
    BY <2>3 DEF p
<1>10. QED
  BY <1>7, <1>8, <1>9

-----------------------------------------------------------------------------
(* The steps of the calls.                                                  *)

(* What the kernel is executing.                                            *)
LEMMA OpIs ==
    ASSUME IInv
    PROVE  /\ WellFormed(V) /\ vol \in DOMAIN Volumes
           /\ op.at \in {"idle", "panic", "scan", "follow", "match", "seek", "copy"}
           /\ op.at = "idle" => op = Idle
           /\ op.at \in {"scan", "follow", "match"} => ScanInv(V, op)
           /\ op.at \in {"seek", "copy"} => op.fd \in DOMAIN handles
           /\ op.at = "seek" => SeekInv(V, handles[op.fd], op)
           /\ op.at = "copy" => CopyInv(V, handles[op.fd], op)
<1>1. vol \in DOMAIN Volumes /\ OpInv
  BY DEF IInv
<1>2. WellFormed(V)
  BY <1>1, VolumeAssumption DEF V
<1>3. CASE op = Idle \/ op.at = "panic"
  BY <1>1, <1>2, <1>3 DEF Idle
<1>4. CASE ScanInv(V, op)
  <2>1. op.at \in {"scan", "follow", "match"}
    BY <1>4 DEF ScanInv, ScanRecords
  <2>2. QED
    BY <1>1, <1>2, <1>4, <2>1
<1>5. CASE op.fd \in DOMAIN handles /\ SeekInv(V, handles[op.fd], op)
  <2>1. op.at = "seek"
    BY <1>5 DEF SeekInv, SeekRecords
  <2>2. QED
    BY <1>1, <1>2, <1>5, <2>1
<1>6. CASE op.fd \in DOMAIN handles /\ CopyInv(V, handles[op.fd], op)
  <2>1. op.at = "copy"
    BY <1>6 DEF CopyInv, CopyRecords
  <2>2. QED
    BY <1>1, <1>2, <1>6, <2>1
<1>7. QED
  BY <1>1, <1>3, <1>4, <1>5, <1>6 DEF OpInv

(* A step of a call that moves no offset leaves the files as they are.      *)
LEMMA FilesKept ==
    ASSUME IInv, UNCHANGED <<vol, handles, recycled>>, op.at # "copy", op'.at # "copy",
           OpInv', LastInv(V, last')
    PROVE  IInv'
<1>1. V' = V
  BY DEF V
<1>2. FdsInv'
  BY DEF IInv, FdsInv, Recycled
<1>3. HandlesInv'
  BY <1>1 DEF IInv, HandlesInv
<1>4. OffsetInv'
  BY DEF IInv, OffsetInv, Pending, IsOpenFile
<1>5. LastInv(V, last)'
  BY <1>1
<1>6. QED
  BY <1>2, <1>3, <1>4, <1>5 DEF IInv

(* A call ends without an open descriptor.                                  *)
LEMMA CallFails ==
    ASSUME IInv, UNCHANGED <<vol, handles, recycled>>, op.at # "copy",
           op' = Idle \/ op'.at = "panic", LastInv(V, last')
    PROVE  IInv'
<1>1. op'.at # "copy"
  BY DEF Idle
<1>2. OpInv'
  BY DEF OpInv
<1>3. QED
  BY <1>1, <1>2, FilesKept

LEMMA ScanKept ==
    ASSUME IInv, UNCHANGED <<vol, handles, recycled>>, op.at # "copy",
           ScanInv(V, op'), LastInv(V, last')
    PROVE  IInv'
<1>1. op'.at # "copy"
  BY DEF ScanInv, ScanRecords
<1>2. V' = V
  BY DEF V
<1>3. OpInv'
  BY <1>2 DEF OpInv
<1>4. QED
  BY <1>1, <1>3, FilesKept

LEMMA AtRoot ==
    ASSUME NEW v, WellFormed(v), NEW path \in Paths \cup ListPaths
    PROVE  /\ Walk(v, path)[0] = RootEntry /\ Home(RootEntry) = ROOT
           /\ AtDirectory(v, RootEntry) /\ PassedParts(path, 0)
           /\ path \in Paths => 1 <= PartCount(path)
<1>1. Len(path) \in Nat
  BY PathFacts
<1>2. IsDirectory(RootEntry)
  BY DEF IsDirectory, RootEntry, EmptySlot
<1>3. ROOT \in DOMAIN v.dirs
  BY DEF WellFormed, DirectoriesFormed
<1>4. ASSUME path \in Paths PROVE 1 <= PartCount(path)
  <2>1. path # <<>> /\ ~IsEmpty(path[1]) /\ path \in Seq(DOMAIN Spelling)
    BY <1>4, PathAssumption
  <2>2. Len(path) # 0
    BY <2>1, EmptySeq
  <2>3. PassedParts(path, 1)
    BY <1>1, <2>1, <2>2 DEF PassedParts
  <2>4. QED
    BY <2>3, PartsPassed
<1>5. QED
  BY <1>1, <1>2, <1>3, <1>4, WalkSteps DEF AtDirectory, Home, PassedParts

LEMMA RootScan ==
    ASSUME NEW v, WellFormed(v), NEW call \in {"open", "list"}, NEW path,
           IF call = "open" THEN path \in Paths ELSE path \in ListPaths
    PROVE  ScanInv(v, ScanOf(call, path, 1, ROOT, FALSE))
<1>1. path \in Paths \cup ListPaths
  OBVIOUS
<1>2. /\ Walk(v, path)[0] = RootEntry /\ Home(RootEntry) = ROOT /\ AtDirectory(v, RootEntry)
      /\ PassedParts(path, 0) /\ (path \in Paths => 1 <= PartCount(path))
  BY <1>1, AtRoot
<1>3. RootEntry = Walk(v, path)[1 - 1] /\ PassedParts(path, 1 - 1)
  BY <1>2
<1>4. ScanInv(v, ScanOf(call, path, 1, Home(RootEntry), FALSE))
  <2>1. 1 \in Nat /\ 1 >= 1 /\ FALSE \in BOOLEAN
    OBVIOUS
  <2>2. IF call = "open" THEN path \in Paths /\ 1 <= PartCount(path) ELSE path \in ListPaths
    BY <1>2
  <2>3. QED
    BY <1>2, <1>3, <2>1, <2>2, ScanBegins, Zenon
<1>5. QED
  BY <1>2, <1>4

LEMMA CallBegins ==
    ASSUME IInv, OpenCall \/ ListCall \/ ListSlashes \/ OpenRoot
    PROVE  IInv'
<1>1. WellFormed(V)
  BY OpIs
<1>2. op = Idle /\ UNCHANGED <<vol, handles, recycled>> /\ op.at # "copy"
  <2>1. op = Idle /\ UNCHANGED <<vol, handles, recycled>>
    BY DEF OpenCall, ListCall, ListSlashes, OpenRoot
  <2>2. Idle.at # "copy"
    BY DEF Idle
  <2>3. QED
    BY <2>1, <2>2
<1>3. CASE OpenCall
  <2>1. PICK path \in Paths : op' = ScanOf("open", path, 1, ROOT, FALSE)
    BY <1>3 DEF OpenCall
  <2>2. ScanInv(V, op')
    BY <1>1, <2>1, RootScan
  <2>3. LastInv(V, last')
    BY <1>3 DEF OpenCall, LastInv, Nothing
  <2>4. QED
    BY <1>2, <2>2, <2>3, ScanKept
<1>4. CASE ListCall
  <2>1. PICK path \in ListPaths : op' = ScanOf("list", path, 1, ROOT, FALSE)
    BY <1>4 DEF ListCall
  <2>2. ScanInv(V, op')
    BY <1>1, <2>1, RootScan
  <2>3. LastInv(V, last')
    BY <1>4 DEF ListCall, LastInv, Nothing
  <2>4. QED
    BY <1>2, <2>2, <2>3, ScanKept
<1>5. CASE OpenRoot
  <2>1. op' = Idle
    BY <1>5 DEF OpenRoot, Return
  <2>2. last' = [call |-> "open", path |-> <<>>, ret |-> "NotFound", faulted |-> FALSE]
    BY <1>5 DEF OpenRoot, Return
  <2>3. Resolve(V, <<>>) = RootEntry
    <3>1. Len(<<>>) = 0
      OBVIOUS
    <3>2. Walk(V, <<>>)[0] = RootEntry
      BY <3>1, WalkSteps
    <3>3. QED
      BY <3>1, <3>2 DEF Resolve
  <2>4. LastInv(V, last')
    BY <2>2, <2>3 DEF LastInv
  <2>5. QED
    BY <1>2, <2>1, <2>4, CallFails
<1>6. CASE ListSlashes
  <2>1. PICK path \in ListPaths :
           /\ OnlySlashes(path) /\ op' = Idle
           /\ last' = [call |-> "list", path |-> path, ret |-> "NotADirectory", faulted |-> FALSE]
    BY <1>6 DEF ListSlashes, Return
  <2>2. last'.call = "list" /\ last'.ret = "NotADirectory" /\ last'.path = path
    BY <2>1
  <2>3. LastInv(V, last')
    BY <2>1, <2>2 DEF LastInv
  <2>4. QED
    BY <1>2, <2>1, <2>3, CallFails
<1>7. QED
  BY <1>3, <1>4, <1>5, <1>6

LEMMA ScanStep ==
    ASSUME IInv, ScanSector \/ ScanFails \/ FollowDir
    PROVE  IInv'
<1>1. WellFormed(V) /\ UNCHANGED <<vol, handles, recycled>> /\ op.at \in {"scan", "follow"}
  BY OpIs DEF ScanSector, ScanFails, FollowDir
<1>2. ScanInv(V, op) /\ op.at # "copy"
  BY <1>1, OpIs
<1>3. op \in ScanRecords(V)
  BY <1>2 DEF ScanInv
<1>4. CASE ScanSector
  <2>1. last' = last /\ op' = [AfterSector EXCEPT !.seen = op.seen \o SectorEntries(V, ScanBlock)]
    BY <1>4 DEF ScanSector
  <2>2. ScanInv(V, op')
    BY <1>1, <1>2, <1>4, <2>1, ScansOn DEF ScanSector
  <2>3. op'.call = op.call
    BY <1>3, <2>1 DEF AfterSector, ScanRecords
  <2>4. QED
    BY <1>1, <1>2, <2>1, <2>2, <2>3, ScanKept DEF IInv
<1>5. CASE ScanFails
  <2>1. op' = Idle /\ last' = [call |-> op.call, path |-> op.path, ret |-> "Io", faulted |-> TRUE]
    BY <1>5 DEF ScanFails, PathReturns, Return
  <2>2. LastInv(V, last')
    BY <2>1 DEF LastInv
  <2>3. QED
    BY <1>1, <1>2, <2>1, <2>2, CallFails
<1>6. CASE FollowDir
  <2>1. op.at = "follow" /\ last' = last
    BY <1>6 DEF FollowDir
  <2>2. ScanInv(V, op')
    <3>1. /\ BlockReads(FatBlock(V, op.dir)) =>
                ScanInv(V, IF HasNext(V, op.dir)
                           THEN [op EXCEPT !.at = "scan", !.sector = 0, !.dir = Word(V, op.dir)]
                           ELSE [op EXCEPT !.at = "match"])
          /\ ScanInv(V, [op EXCEPT !.at = "match", !.faulted = TRUE])
      BY <1>1, <1>2, <2>1, Follows, Zenon DEF BlockReads
    <3>2. QED
      BY <1>6, <3>1, Zenon DEF FollowDir
  <2>3. op'.call = op.call
    BY <1>3, <1>6 DEF FollowDir, ScanRecords
  <2>4. QED
    BY <1>1, <1>2, <2>1, <2>2, <2>3, ScanKept DEF IInv
<1>7. QED
  BY <1>4, <1>5, <1>6

(* What the look-up of a part in a directory read finds.                    *)
LEMMA LookFinds ==
    ASSUME IInv, Looks
    PROVE  /\ op \in ScanRecords(V) /\ op.path \in Paths \cup ListPaths
           /\ op.i \in 1..Len(op.path) /\ op.i \in Nat /\ PassedParts(op.path, op.i)
           /\ Matches # {} => /\ Found = Walk(V, op.path)[op.i] /\ Found \in SlotsOf(V)
                              /\ IsListed(Found) /\ Part \in DOMAIN Spelling
                              /\ Found.name = Spelling[Part].short
           /\ Matches = {} /\ ~op.faulted => Walk(V, op.path)[op.i] = NoEntry
<1>1. WellFormed(V) /\ ScanInv(V, op) /\ op.at = "match"
  BY OpIs DEF Looks
<1>2. op \in ScanRecords(V)
  BY <1>1 DEF ScanInv
<1>3. /\ op.path \in Paths \cup ListPaths /\ op.i \in Nat /\ op.i >= 1
      /\ PassedParts(op.path, op.i - 1)
  BY <1>1, <1>2 DEF ScanInv, ScanRecords
<1>4. /\ op.path \in Seq(DOMAIN Spelling) /\ Len(op.path) \in Nat
      /\ DOMAIN op.path = 1..Len(op.path) /\ PartCount(op.path) \in 0..Len(op.path)
  BY <1>3, PathFacts
<1>5. op.i \in 1..Len(op.path)
  BY <1>3, <1>4 DEF Looks, Passed
<1>6. ~IsEmpty(op.path[op.i]) /\ Part = op.path[op.i] /\ Part \in DOMAIN Spelling
  BY <1>4, <1>5 DEF Looks, NameRefused, Part
<1>7. PassedParts(op.path, op.i)
  BY <1>3, <1>4, <1>5, <1>6, SMTT(30) DEF PassedParts
<1> DEFINE e == Walk(V, op.path)[op.i - 1]
           d == Home(e)
<1>8. AtDirectory(V, e) /\ HasRead(V, d, op) /\ IsDirectory(e) /\ d \in DOMAIN V.dirs
  BY <1>1 DEF ScanInv, AtDirectory
<1>9. Walk(V, op.path)[op.i] = Child(V, e, Part)
  BY <1>3, <1>5, <1>6, <1>8, WalkOn
<1>10. Listing(V, e) = V.dirs[d]
  BY ListingOf
<1> HIDE DEF e, d
<1>11. PICK n \in Nat : SeenUpto(V, d, n, op.seen) /\ (~op.faulted => IsEnd(SlotNo(V, d, n + 1)))
  BY <1>8 DEF HasRead
<1>12. /\ Matches # {} => /\ Found = Child(V, e, Part) /\ Found \in SlotsOf(V)
                          /\ Found.name = Spelling[Part].short /\ IsListed(Found)
       /\ Matches = {} /\ IsEnd(SlotNo(V, d, n + 1)) => Child(V, e, Part) = NoEntry
  <2>1. Matches = Hits(op.seen, Part)
    BY DEF Matches, Hits
  <2>2. Found = FirstHit(op.seen, Part)
    BY <2>1 DEF Found, FirstHit
  <2>3. WellFormed(V) /\ d \in DOMAIN V.dirs /\ SeenUpto(V, d, n, op.seen) /\ Listing(V, e) = V.dirs[d]
    BY <1>1, <1>8, <1>10, <1>11
  <2>4. /\ Hits(op.seen, Part) # {} =>
              /\ FirstHit(op.seen, Part) = Child(V, e, Part) /\ FirstHit(op.seen, Part) \in SlotsOf(V)
              /\ FirstHit(op.seen, Part).name = Spelling[Part].short
              /\ IsListed(FirstHit(op.seen, Part))
        /\ Hits(op.seen, Part) = {} /\ IsEnd(SlotNo(V, d, n + 1)) => Child(V, e, Part) = NoEntry
    BY <2>3, FirstNamed
  <2>5. QED
    BY <2>1, <2>2, <2>4
<1>13. QED
  BY <1>2, <1>3, <1>5, <1>6, <1>7, <1>9, <1>11, <1>12

LEMMA NameStep ==
    ASSUME IInv, NameFails
    PROVE  IInv'
<1>1. op.at = "match" /\ UNCHANGED <<vol, handles, recycled>> /\ op.at # "copy"
  BY DEF NameFails
<1>2. CASE op' = [op EXCEPT !.at = "panic"] /\ last' = last
  <2>1. LastInv(V, last')
    BY <1>2 DEF IInv
  <2>2. op'.at = "panic"
    BY <1>1, <1>2, OpIs DEF ScanInv, ScanRecords
  <2>3. QED
    BY <1>1, <2>1, <2>2, CallFails
<1>3. CASE PathReturns("BadName", op.faulted)
  <2>1. op' = Idle /\ last' = [call |-> op.call, path |-> op.path, ret |-> "BadName", faulted |-> op.faulted]
    BY <1>3 DEF PathReturns, Return
  <2>2. last'.ret = "BadName"
    BY <2>1
  <2>3. LastInv(V, last')
    BY <2>2 DEF LastInv
  <2>4. QED
    BY <1>1, <2>1, <2>3, CallFails
<1>4. QED
  BY <1>2, <1>3 DEF NameFails

LEMMA MatchStep ==
    ASSUME IInv, MatchFails
    PROVE  IInv'
<1>1. Looks /\ op.at # "copy" /\ UNCHANGED <<vol, handles, recycled>>
  BY DEF MatchFails, Looks
<1>2. /\ op.path \in Paths \cup ListPaths /\ op.i \in 1..Len(op.path) /\ Len(op.path) \in Nat
      /\ Matches # {} => Found = Walk(V, op.path)[op.i]
      /\ Matches = {} /\ ~op.faulted => Walk(V, op.path)[op.i] = NoEntry
  BY <1>1, LookFinds, PathFacts
<1>3. op.i \in 0..Len(op.path)
  BY <1>2
<1>4. ~IsDirectory(NoEntry)
  BY DEF IsDirectory, NoEntry, EmptySlot
<1>5. ~IsDirectory(Walk(V, op.path)[op.i]) =>
          Resolve(V, op.path) \in {Walk(V, op.path)[op.i], NoEntry}
  BY <1>2, <1>3, WalkEnds
<1>6. \E ret \in {"NotFound", "NotADirectory", "NotAFile"} :
          /\ PathReturns(ret, op.faulted)
          /\ ret = "NotFound" => Matches = {}
          /\ ret = "NotADirectory" => Matches = {} \/ ~IsDirectory(Found)
  BY DEF MatchFails
<1>7. PICK ret \in {"NotFound", "NotADirectory", "NotAFile"} :
          /\ PathReturns(ret, op.faulted)
          /\ ret = "NotFound" => Matches = {}
          /\ ret = "NotADirectory" => Matches = {} \/ ~IsDirectory(Found)
  BY <1>6
<1>8. op' = Idle /\ last' = [call |-> op.call, path |-> op.path, ret |-> ret, faulted |-> op.faulted]
  BY <1>7 DEF PathReturns, Return
<1>9. last'.ret = ret /\ last'.path = op.path /\ last'.faulted = op.faulted
  BY <1>8
<1>10. ASSUME ret = "NotFound", ~op.faulted PROVE Resolve(V, op.path) = NoEntry
  <2>1. Walk(V, op.path)[op.i] = NoEntry
    BY <1>2, <1>7, <1>10
  <2>2. QED
    BY <1>4, <1>5, <2>1
<1>11. ASSUME ret = "NotADirectory", ~op.faulted PROVE ~IsDirectory(Resolve(V, op.path))
  <2>1. ~IsDirectory(Walk(V, op.path)[op.i])
    <3>1. CASE Matches = {}
      BY <1>2, <1>4, <1>11, <3>1
    <3>2. CASE Matches # {} /\ ~IsDirectory(Found)
      BY <1>2, <3>2
    <3>3. QED
      BY <1>7, <1>11, <3>1, <3>2
  <2>2. QED
    BY <1>4, <1>5, <2>1
<1>12. LastInv(V, last')
  <2>1. ret # "Ok"
    BY <1>7
  <2>2. QED
    BY <1>9, <1>10, <1>11, <2>1 DEF LastInv
<1>13. QED
  BY <1>1, <1>8, <1>12, CallFails

LEMMA DescendStep ==
    ASSUME IInv, Descend
    PROVE  IInv'
<1>1. Looks /\ op.at = "match" /\ op.at # "copy" /\ UNCHANGED <<vol, handles, recycled, last>>
      /\ Matches # {} /\ IsDirectory(Found)
  BY DEF Descend, Looks
<1>2. WellFormed(V) /\ ScanInv(V, op)
  BY <1>1, OpIs
<1>3. /\ op \in ScanRecords(V) /\ op.path \in Paths \cup ListPaths
      /\ op.i \in 1..Len(op.path) /\ op.i \in Nat /\ PassedParts(op.path, op.i)
      /\ Found = Walk(V, op.path)[op.i] /\ Found \in SlotsOf(V)
      /\ IsListed(Found) /\ Part \in DOMAIN Spelling
      /\ Found.name = Spelling[Part].short
  BY <1>1, LookFinds
<1>4. AtDirectory(V, Found) /\ Home(Found) = EntryCluster(Found)
  BY <1>1, <1>2, <1>3, NamedEntry
<1>5. /\ op.call \in {"open", "list"} /\ op.faulted \in BOOLEAN
      /\ op.i + 1 \in Nat /\ op.i + 1 >= 1 /\ (op.i + 1) - 1 = op.i
  BY <1>3 DEF ScanRecords
<1>6. IF op.call = "open" THEN op.path \in Paths /\ op.i + 1 <= PartCount(op.path)
                          ELSE op.path \in ListPaths
  <2>1. CASE op.call = "open"
    <3>1. op.path \in Paths /\ op.i <= PartCount(op.path)
      BY <1>2, <2>1 DEF ScanInv
    <3>2. op.i # PartCount(op.path)
      BY <2>1 DEF Descend, IsLastPart
    <3>3. PartCount(op.path) \in Nat
      <4>1. PartCount(op.path) \in 0..Len(op.path) /\ Len(op.path) \in Nat
        BY <1>3, PathFacts
      <4>2. QED
        BY <4>1
    <3>4. QED
      BY <1>3, <2>1, <3>1, <3>2, <3>3
  <2>2. CASE op.call # "open"
    BY <1>2, <2>2 DEF ScanInv
  <2>3. QED
    BY <2>1, <2>2
<1>7. Found = Walk(V, op.path)[(op.i + 1) - 1] /\ PassedParts(op.path, (op.i + 1) - 1)
  BY <1>3, <1>5
<1>8. ScanInv(V, ScanOf(op.call, op.path, op.i + 1, Home(Found), op.faulted))
  BY <1>2, <1>4, <1>5, <1>6, <1>7, ScanBegins, Zenon
<1>9. op' = ScanOf(op.call, op.path, op.i + 1, Home(Found), op.faulted)
  BY <1>4 DEF Descend
<1>10. op'.call = op.call
  BY <1>9 DEF ScanOf
<1>11. QED
  BY <1>1, <1>2, <1>8, <1>9, <1>10, ScanKept DEF IInv

LEMMA ListStep ==
    ASSUME IInv, ListEnds
    PROVE  IInv'
<1>1. op.at = "match" /\ op.at # "copy" /\ UNCHANGED <<vol, handles, recycled>>
      /\ op.i > PartCount(op.path)
  BY DEF ListEnds, Passed
<1>2. WellFormed(V) /\ ScanInv(V, op) /\ op \in ScanRecords(V)
  BY <1>1, OpIs DEF ScanInv
<1>3. op.path \in Paths \cup ListPaths /\ op.i \in Nat /\ PassedParts(op.path, op.i - 1)
  BY <1>2 DEF ScanInv, ScanRecords
<1>4. PartCount(op.path) \in Nat /\ Len(op.path) \in Nat /\ op.i - 1 \in 0..Len(op.path)
  <2>1. PartCount(op.path) \in 0..Len(op.path) /\ Len(op.path) \in Nat
    BY <1>3, PathFacts
  <2>2. QED
    BY <1>3, <2>1 DEF PassedParts
<1>5. op.i - 1 = PartCount(op.path)
  BY <1>1, <1>3, <1>4, PartsPassed
<1>6. PICK k \in 0..Len(op.path) : k = op.i - 1
  BY <1>4
<1>7. \A j \in (k + 1)..Len(op.path) : IsEmpty(op.path[j])
  BY <1>3, <1>5, <1>6, PartsPassed
<1>8. Resolve(V, op.path) = Walk(V, op.path)[op.i - 1]
  BY <1>3, <1>6, <1>7, WalkEnds
<1>9. PICK e : e = Walk(V, op.path)[op.i - 1]
  OBVIOUS
<1>10. AtDirectory(V, e) /\ HasRead(V, Home(e), op) /\ Listing(V, e) = V.dirs[Home(e)]
  BY <1>1, <1>2, <1>9, ListingOf DEF ScanInv
<1>11. ASSUME ~op.faulted PROVE Shown = NamesIn(V, e)
  <2>1. PICK n \in Nat : SeenUpto(V, Home(e), n, op.seen) /\ IsEnd(SlotNo(V, Home(e), n + 1))
    BY <1>10, <1>11 DEF HasRead
  <2>2. [x \in DOMAIN op.seen |-> op.seen[x].name] = NamesIn(V, e)
    BY <1>2, <1>10, <2>1, NamesRead DEF AtDirectory
  <2>3. QED
    BY <2>2 DEF Shown
<1>12. /\ op' = Idle
       /\ last' = [call |-> "list", path |-> op.path, ret |-> "Ok",
                   faulted |-> op.faulted, shown |-> Shown]
  BY DEF ListEnds, Return
<1>13. last'.call = "list" /\ last'.path = op.path /\ last'.ret = "Ok"
       /\ last'.faulted = op.faulted /\ last'.shown = Shown
  BY <1>12
<1>14. LastInv(V, last')
  BY <1>8, <1>9, <1>10, <1>11, <1>13 DEF LastInv, AtDirectory
<1>15. QED
  BY <1>1, <1>12, <1>14, CallFails

(* The descriptor an open returns was free: the one closed last, or, when   *)
(* none is left, the number of those open, which are all below it; when     *)
(* every number is in use it is 0.                                          *)
LEMMA FreeFdIsFree ==
    ASSUME FdsInv
    PROVE  /\ FreeFd \in 0..(FdCount - 1)
           /\ FreeFd \notin DOMAIN handles \/ (FreeFd = 0 /\ AllInUse)
           /\ recycled = <<>> =>
                 DOMAIN handles = 0..(FreeFd - 1) \/ (FreeFd = 0 /\ AllInUse)
<1>1. /\ recycled \in Seq(0..(FdCount - 1)) /\ DOMAIN handles \cap Recycled = {}
      /\ FdCount \in Nat /\ FdCount > 2
  BY DescriptorAssumption DEF FdsInv
<1>2. CASE recycled # <<>>
  <2>1. Len(recycled) \in DOMAIN recycled
    BY <1>1, <1>2
  <2>2. FreeFd = recycled[Len(recycled)]
    BY <1>2 DEF FreeFd
  <2>3. FreeFd \in Recycled /\ FreeFd \in 0..(FdCount - 1)
    BY <1>1, <2>1, <2>2 DEF Recycled
  <2>4. QED
    BY <1>1, <1>2, <2>3
<1>3. CASE recycled = <<>>
  <2>1. PICK n \in 0..FdCount : DOMAIN handles \cup Recycled = 0..(n - 1)
    BY DEF FdsInv
  <2>2. Recycled = {}
    BY <1>3 DEF Recycled
  <2>3. DOMAIN handles = 0..(n - 1)
    BY <2>1, <2>2
  <2>4. n \in Nat
    BY <1>1, <2>1
  <2>5. Cardinality(0..(n - 1)) = n
    <3>1. \A m \in Nat : Cardinality(0..(m - 1)) = m
      BY FS_Interval
    <3>2. QED
      BY <2>4, <3>1
  <2>6. FreeFd = (n % FdCount)
    BY <1>3, <2>3, <2>5 DEF FreeFd
  <2>7. CASE n < FdCount
    <3>1. n \in 0..(FdCount - 1) /\ 0 * FdCount + n = n /\ FdCount \in Nat \ {0}
      BY <1>1, <2>4, <2>7
    <3>2. ((0 * FdCount + n) % FdCount) = n
      BY <3>1, DivUnique
    <3>3. FreeFd = n
      BY <2>6, <3>1, <3>2
    <3>4. QED
      BY <1>1, <2>3, <2>4, <2>7, <3>3
  <2>8. CASE n = FdCount
    <3>1. 0 \in 0..(FdCount - 1) /\ 1 * FdCount + 0 = n /\ FdCount \in Nat \ {0}
      BY <1>1, <2>8
    <3>2. ((1 * FdCount + 0) % FdCount) = 0
      BY <3>1, DivUnique
    <3>3. FreeFd = 0
      BY <2>6, <3>1, <3>2
    <3>4. QED
      BY <1>1, <2>3, <2>8, <3>1, <3>3 DEF AllInUse
  <2>9. QED
    BY <1>1, <2>1, <2>4, <2>7, <2>8
<1>4. QED
  BY <1>2, <1>3

LEMMA FdOpened ==
    ASSUME FdsInv, DOMAIN handles' = DOMAIN handles \cup {FreeFd},
           recycled' = SubSeq(recycled, 1, Len(recycled) - 1)
    PROVE  FdsInv'
<1>1. /\ recycled \in Seq(0..(FdCount - 1)) /\ DOMAIN handles \cap Recycled = {}
      /\ FdCount \in Nat /\ FdCount > 2
      /\ \A i, j \in DOMAIN recycled : recycled[i] = recycled[j] => i = j
  BY DescriptorAssumption DEF FdsInv
<1>2. FreeFd \in 0..(FdCount - 1)
  BY FreeFdIsFree
<1>3. PICK n \in 0..FdCount : DOMAIN handles \cup Recycled = 0..(n - 1)
  BY DEF FdsInv
<1>4. CASE recycled # <<>>
  <2>1. Len(recycled) \in Nat /\ Len(recycled) >= 1 /\ DOMAIN recycled = 1..Len(recycled)
    BY <1>1, <1>4
  <2>2. PICK m \in Nat : m = Len(recycled) - 1
    <3>1. Len(recycled) - 1 \in Nat
      BY <2>1
    <3>2. QED
      BY <3>1
  <2>3. recycled' \in Seq(0..(FdCount - 1))
    BY <1>1, <2>1, <2>2
  <2>4. DOMAIN recycled' = 1..m /\ \A i \in 1..m : recycled'[i] = recycled[i]
    BY <1>1, <2>1, <2>2
  <2>5. FreeFd = recycled[Len(recycled)] /\ Len(recycled) \in DOMAIN recycled
    BY <1>4, <2>1 DEF FreeFd
  <2>6. Recycled = Recycled' \cup {FreeFd}
    <3>1. \A i \in DOMAIN recycled : i \in 1..m \/ i = Len(recycled)
      BY <2>1, <2>2
    <3>2. \A i \in 1..m : i \in DOMAIN recycled
      BY <2>1, <2>2
    <3>3. QED
      BY <2>4, <2>5, <3>1, <3>2, ZenonT(60) DEF Recycled
  <2>7. FreeFd \notin Recycled'
    <3>1. \A i \in 1..m : i \in DOMAIN recycled /\ i # Len(recycled)
      <4>1. PICK k \in Nat : k = Len(recycled) /\ m = k - 1 /\ DOMAIN recycled = 1..k
        BY <2>1, <2>2
      <4>2. \A i \in 1..m : i \in 1..k /\ i # k
        BY <4>1
      <4>3. QED
        BY <4>1, <4>2, Zenon
    <3>2. QED
      BY <1>1, <2>4, <2>5, <3>1 DEF Recycled
  <2>8. DOMAIN handles' \cup Recycled' = 0..(n - 1)
    BY <1>3, <2>6
  <2>9. DOMAIN handles' \cap Recycled' = {}
    BY <1>1, <2>6, <2>7
  <2>10. \A i, j \in DOMAIN recycled' : recycled'[i] = recycled'[j] => i = j
    BY <1>1, <2>1, <2>2, <2>4, SMTT(30)
  <2>11. QED
    BY <1>3, <2>3, <2>8, <2>9, <2>10 DEF FdsInv
<1>5. CASE recycled = <<>>
  <2>1. recycled' = <<>>
    BY <1>5
  <2>2. Recycled = {} /\ Recycled' = {}
    BY <1>5, <2>1 DEF Recycled
  <2>3. PICK m \in 0..(FdCount - 1) :
           m = FreeFd /\ (DOMAIN handles = 0..(m - 1) \/ (m = 0 /\ AllInUse))
    BY <1>2, <1>5, FreeFdIsFree
  <2>4. m \in Nat /\ m + 1 \in 0..FdCount /\ FdCount \in 0..FdCount
    BY <1>1, <2>3
  <2>5. \E k \in 0..FdCount : DOMAIN handles' = 0..(k - 1)
    <3>1. CASE DOMAIN handles = 0..(m - 1)
      <4>1. DOMAIN handles' = 0..((m + 1) - 1)
        BY <2>3, <2>4, <3>1
      <4>2. QED
        BY <2>4, <4>1
    <3>2. CASE m = 0 /\ AllInUse
      <4>1. DOMAIN handles' = 0..(FdCount - 1)
        BY <1>1, <2>3, <3>2 DEF AllInUse
      <4>2. QED
        BY <2>4, <4>1
    <3>3. QED
      BY <2>3, <3>1, <3>2
  <2>6. \E k \in 0..FdCount : DOMAIN handles' \cup Recycled' = 0..(k - 1)
    BY <2>2, <2>5
  <2>7. <<>> \in Seq(0..(FdCount - 1)) /\ DOMAIN <<>> = {}
    OBVIOUS
  <2>8. recycled' \in Seq(0..(FdCount - 1)) /\ DOMAIN recycled' = {}
    BY <2>1, <2>7
  <2>9. QED
    BY <2>2, <2>6, <2>8 DEF FdsInv
<1>6. QED
  BY <1>4, <1>5

LEMMA FdClosed ==
    ASSUME FdsInv, NEW fd \in DOMAIN handles, DOMAIN handles' = DOMAIN handles \ {fd},
           recycled' = Append(recycled, fd)
    PROVE  FdsInv'
<1>1. /\ recycled \in Seq(0..(FdCount - 1)) /\ DOMAIN handles \cap Recycled = {}
      /\ FdCount \in Nat /\ \A i, j \in DOMAIN recycled : recycled[i] = recycled[j] => i = j
  BY DescriptorAssumption DEF FdsInv
<1>2. PICK n \in 0..FdCount : DOMAIN handles \cup Recycled = 0..(n - 1)
  BY DEF FdsInv
<1>3. fd \in 0..(FdCount - 1) /\ fd \notin Recycled
  BY <1>1, <1>2
<1>4. Len(recycled) \in Nat /\ DOMAIN recycled = 1..Len(recycled)
  BY <1>1
<1>5. recycled' \in Seq(0..(FdCount - 1))
  BY <1>1, <1>3
<1>6. /\ DOMAIN recycled' = 1..(Len(recycled) + 1) /\ recycled'[Len(recycled) + 1] = fd
      /\ \A i \in 1..Len(recycled) : recycled'[i] = recycled[i]
  BY <1>1, <1>3
<1>7. \A i \in DOMAIN recycled' : i \in DOMAIN recycled \/ i = Len(recycled) + 1
  BY <1>4, <1>6
<1>8. Recycled' = Recycled \cup {fd}
  <2>1. Len(recycled) + 1 \in DOMAIN recycled' /\ \A i \in DOMAIN recycled : i \in DOMAIN recycled'
    BY <1>4, <1>6
  <2>2. QED
    BY <1>4, <1>6, <1>7, <2>1 DEF Recycled
<1>9. DOMAIN handles' \cup Recycled' = 0..(n - 1) /\ DOMAIN handles' \cap Recycled' = {}
  BY <1>1, <1>2, <1>3, <1>8
<1>10. \A i \in DOMAIN recycled : recycled'[i] # fd
  BY <1>3, <1>4, <1>6 DEF Recycled
<1>11. \A i, j \in DOMAIN recycled' : recycled'[i] = recycled'[j] => i = j
  BY <1>1, <1>4, <1>6, <1>7, <1>10
<1>12. QED
  BY <1>2, <1>5, <1>9, <1>11 DEF FdsInv

LEMMA OpenStep ==
    ASSUME IInv, OpenFile
    PROVE  IInv'
<1>1. /\ Looks /\ op.at = "match" /\ Matches # {} /\ IsLastPart /\ op.call = "open"
      /\ IsFile(Found) /\ vol' = vol
      /\ handles' = [fd \in DOMAIN handles \cup {FreeFd} |->
                        IF fd = FreeFd THEN NewFile(Found, op.path) ELSE handles[fd]]
      /\ recycled' = SubSeq(recycled, 1, Len(recycled) - 1)
      /\ PathReturns("Ok", op.faulted)
  BY DEF OpenFile, Looks
<1>2. WellFormed(V) /\ ScanInv(V, op) /\ V' = V
  BY <1>1, OpIs DEF V
<1>3. /\ op.path \in Paths \cup ListPaths /\ op.i \in 1..Len(op.path) /\ Len(op.path) \in Nat
      /\ PassedParts(op.path, op.i)
      /\ Found = Walk(V, op.path)[op.i] /\ Found \in SlotsOf(V) /\ IsListed(Found)
  BY <1>1, LookFinds, PathFacts
<1>4. op.path \in Paths
  BY <1>1, <1>2 DEF ScanInv
<1>5. Resolve(V, op.path) = Found
  <2>1. op.i \in 0..Len(op.path)
    BY <1>3
  <2>2. PartCount(op.path) = op.i
    BY <1>1 DEF IsLastPart
  <2>3. \A j \in (op.i + 1)..Len(op.path) : IsEmpty(op.path[j])
    BY <1>3, <2>2, PartsPassed
  <2>4. QED
    BY <1>3, <2>1, <2>3, WalkEnds
<1>6. EntryFormed(V, Found)
  BY <1>2, <1>3 DEF WellFormed
<1>7. Found.size \in Nat /\ EntryCluster(Found) \in Nat /\ EntryCluster(Found) = Found.lo
      /\ (Found.size > 0 => IsHead(V, EntryCluster(Found)))
  BY <1>1, <1>6 DEF EntryFormed, EntryCluster
<1> DEFINE h == NewFile(Found, op.path)
<1>8. /\ h.kind = "file" /\ h.first = EntryCluster(Found) /\ h.size = Found.size /\ h.offset = 0
      /\ h.path = op.path /\ h.got = <<>> /\ h.broken = FALSE
  BY DEF NewFile
<1>9. h \in FileRecords
  BY <1>4, <1>7 DEF NewFile, FileRecords
<1> HIDE DEF h
<1>10. Standing(V, h)
  <2>1. h.offset <= h.size
    BY <1>7, <1>8
  <2>2. Names(V, h)
    BY <1>1, <1>5, <1>8 DEF Names
  <2>3. Right(V, h.first, 0, h.got)
    BY <1>8 DEF Right
  <2>4. QED
    BY <1>7, <1>8, <1>9, <2>1, <2>2, <2>3 DEF Standing
<1>12. DOMAIN handles' = DOMAIN handles \cup {FreeFd} /\ handles'[FreeFd] = h
       /\ \A fd \in DOMAIN handles : fd # FreeFd => handles'[fd] = handles[fd]
  BY <1>1 DEF h
<1>13. FdsInv'
  BY <1>1, <1>2, <1>12, FdOpened DEF IInv
<1>14. \A fd \in DOMAIN handles' : fd \in DOMAIN handles \/ fd = FreeFd
  BY <1>12
<1>15. HandlesInv'
  BY <1>2, <1>10, <1>12, <1>14 DEF IInv, HandlesInv
<1>16. op' = Idle /\ last' = [call |-> op.call, path |-> op.path, ret |-> "Ok", faulted |-> op.faulted]
  BY <1>1 DEF PathReturns, Return
<1>17. op'.at # "copy" /\ op.at # "copy"
  BY <1>1, <1>16 DEF Idle
<1>18. OffsetInv'
  <2> SUFFICES ASSUME NEW fd \in DOMAIN handles', handles'[fd].kind = "file"
               PROVE  handles'[fd].broken \/ handles'[fd].offset = Len(handles'[fd].got) + 0
    BY <1>17 DEF OffsetInv, Pending, IsOpenFile
  <2>1. CASE fd = FreeFd
    BY <1>8, <1>12, <2>1
  <2>2. CASE fd \in DOMAIN handles /\ fd # FreeFd
    BY <1>12, <1>17, <2>2 DEF IInv, OffsetInv, Pending, IsOpenFile
  <2>3. QED
    BY <1>14, <2>1, <2>2
<1>19. OpInv' /\ LastInv(V, last)'
  <2>1. last'.ret = "Ok" /\ last'.call = "open"
    BY <1>1, <1>16
  <2>2. QED
    BY <1>16, <2>1 DEF OpInv, LastInv
<1>20. QED
  BY <1>1, <1>2, <1>13, <1>15, <1>18, <1>19 DEF IInv

LEMMA CloseStep ==
    ASSUME IInv, CloseCall
    PROVE  IInv'
<1>1. PICK fd \in DOMAIN handles :
         /\ handles' = [f \in DOMAIN handles \ {fd} |-> handles[f]]
         /\ recycled' = Append(recycled, fd)
         /\ Return([call |-> "close", fd |-> fd])
  BY DEF CloseCall
<1>2. op = Idle /\ op' = Idle /\ last' = [call |-> "close", fd |-> fd] /\ vol' = vol /\ V' = V
  BY <1>1 DEF CloseCall, Return, V
<1>3. Idle.at # "copy"
  BY DEF Idle
<1>4. DOMAIN handles' = DOMAIN handles \ {fd} /\ \A f \in DOMAIN handles' : handles'[f] = handles[f]
  BY <1>1
<1>5. FdsInv'
  BY <1>1, <1>4, FdClosed DEF IInv
<1>6. HandlesInv'
  BY <1>2, <1>4 DEF IInv, HandlesInv
<1>7. OffsetInv'
  BY <1>2, <1>3, <1>4 DEF IInv, OffsetInv, Pending, IsOpenFile
<1>8. OpInv' /\ LastInv(V, last)'
  <2>1. last'.call = "close"
    BY <1>2
  <2>2. QED
    BY <1>2, <2>1 DEF OpInv, LastInv
<1>9. QED
  BY <1>2, <1>5, <1>6, <1>7, <1>8 DEF IInv

-----------------------------------------------------------------------------
(* The read of a file.                                                      *)

LEMMA SmallerFacts ==
    ASSUME NEW a \in Nat, NEW b \in Nat
    PROVE  /\ Smaller(a, b) \in Nat /\ Smaller(a, b) <= a /\ Smaller(a, b) <= b
           /\ Smaller(a, b) \in {a, b}
BY DEF Smaller

LEMMA ClusterFacts ==
    ASSUME NEW v, WellFormed(v)
    PROVE  ClusterSize(v) \in Nat \ {0} /\ SectorSize \in Nat \ {0} /\ v.spc \in Nat \ {0}
<1>1. v.spc \in Nat \ {0} /\ SectorSize \in Nat \ {0}
  BY Regions, Geometry
<1>2. v.spc * SectorSize \in Nat \ {0}
  <2>1. PICK a \in Nat \ {0}, b \in Nat \ {0} : a = v.spc /\ b = SectorSize
    BY <1>1
  <2>2. a * b \in Nat /\ a * b # 0
    BY SMT
  <2>3. QED
    BY <2>1, <2>2
<1>3. QED
  BY <1>1, <1>2 DEF ClusterSize

(* Byte q + m of the k-th cluster of a file, read at its place on the disk. *)
LEMMA ByteAt ==
    ASSUME NEW v, WellFormed(v), NEW c, IsHead(v, c), NEW k \in 1..Len(Chain(v, c)),
           NEW q \in Nat, NEW m \in Nat, q + m < ClusterSize(v), NEW b,
           b = FirstSector(v, Chain(v, c)[k]) + (q \div SectorSize), InPartition(v, b),
           NEW i \in Nat, i = (k - 1) * ClusterSize(v) + (q + m)
    PROVE  /\ Lba(v, b) * SectorSize + (q % SectorSize) + m = FileByte(v, c, i)
           /\ i + 1 <= Stored(v, c) /\ Lba(v, b) * SectorSize + (q % SectorSize) + m \in Nat
<1>1. PICK size \in Nat \ {0} : size = ClusterSize(v)
  BY ClusterFacts
<1>2. PICK w \in Nat \ {0} : w = SectorSize
  BY ClusterFacts
<1>3. PICK x \in Nat : x = Chain(v, c)[k] /\ 2 <= x /\ x < EndMark
  BY ChainFacts
<1>4. k \in Nat /\ k >= 1 /\ Len(Chain(v, c)) \in Nat
  BY ChainFacts
<1>5. PICK r \in Nat : r = q \div w
  BY <1>2, DivFacts
<1>6. PICK s \in Nat : s = (q % w) /\ q = r * w + s
  <2>1. (q % w) \in 0..(w - 1) /\ q = (q \div w) * w + (q % w)
    BY <1>2, DivFacts
  <2>2. (q % w) \in Nat
    BY <2>1
  <2>3. QED
    BY <1>5, <2>1, <2>2
<1>7. PICK begin \in Nat, data \in Nat :
         begin = v.begin /\ data = DataStart(v) /\ DataLba(v) = begin + data
  <2>1. v.begin \in Nat /\ DataLba(v) = v.begin + DataStart(v)
    BY Regions
  <2>2. DataStart(v) \in Nat
    BY Regions
  <2>3. QED
    BY <2>1, <2>2
<1>8. PICK off \in Nat : off = (x - 2) * v.spc
  <2>1. x - 2 \in Nat /\ v.spc \in Nat
    BY <1>3, ClusterFacts, SMTT(30)
  <2>2. QED
    BY <2>1, OneMoreRow
<1>9. b = (data + off) + r
  <2>1. FirstSector(v, x) = DataStart(v) + (x - 2) * v.spc
    BY <1>3, FirstOfCluster
  <2>2. QED
    BY <1>2, <1>3, <1>5, <1>7, <1>8, <2>1
<1>10. Lba(v, b) = begin + b
  <2>1. b \in Nat
    BY <1>9
  <2>2. QED
    BY <1>7, <2>1, LbaFacts
<1>11. PICK sector \in Nat : sector = begin + data + off
  OBVIOUS
<1>12. Lba(v, b) = sector + r
  BY <1>9, <1>10, <1>11, SMTT(30)
<1>13. (sector + r) * w = sector * w + r * w /\ sector * w \in Nat /\ r * w \in Nat
  OBVIOUS
<1>14. Lba(v, b) * SectorSize + (q % SectorSize) + m = sector * w + (q + m)
  <2>1. PICK y \in Nat, t \in Nat : y = sector * w /\ t = r * w
    BY <1>13
  <2>2. Lba(v, b) * w = y + t /\ q = t + s
    BY <1>6, <1>12, <1>13, <2>1
  <2>3. (y + t) + s + m = y + ((t + s) + m)
    OBVIOUS
  <2>4. QED
    BY <1>2, <1>6, <2>1, <2>2, <2>3
<1>15. (i \div size) = k - 1 /\ (i % size) = q + m
  <2>1. PICK a \in Nat : a = k - 1
    BY <1>4
  <2>2. PICK e \in 0..(size - 1) : e = q + m
    BY <1>1
  <2>3. i = a * size + e
    BY <1>1, <2>1, <2>2
  <2>4. ((a * size + e) \div size) = a /\ ((a * size + e) % size) = e
    BY DivUnique
  <2>5. QED
    BY <2>1, <2>2, <2>3, <2>4
<1>16. FileByte(v, c, i) = sector * w + (q + m)
  <2>1. (i \div ClusterSize(v)) + 1 = k
    BY <1>1, <1>4, <1>15
  <2>2. FileByte(v, c, i) = (DataLba(v) + (x - 2) * v.spc) * w + (i % ClusterSize(v))
    BY <1>2, <1>3, <2>1 DEF FileByte
  <2>3. QED
    BY <1>1, <1>7, <1>8, <1>11, <1>15, <2>2
<1>17. i + 1 <= Stored(v, c)
  <2>1. (k - 1) * size + (q + m) + 1 <= k * size
    <3>1. PICK a \in Nat : a = k - 1
      BY <1>4
    <3>2. a * size \in Nat /\ a * size + size = (a + 1) * size /\ a + 1 = k
      BY <1>4, <3>1, OneMoreRow
    <3>3. QED
      BY <1>1, <3>1, <3>2, SMTT(30)
  <2>2. k * size \in Nat /\ Len(Chain(v, c)) * size \in Nat /\ k * size <= Len(Chain(v, c)) * size
    BY <1>4, ProductGrows, SMTT(30)
  <2>3. Stored(v, c) = Len(Chain(v, c)) * size
    BY <1>1 DEF Stored
  <2>4. i = (k - 1) * size + (q + m)
    BY <1>1
  <2>5. QED
    BY <2>1, <2>2, <2>3, <2>4, SMTT(30)
<1>18. QED
  BY <1>13, <1>14, <1>16, <1>17

(* The file of a descriptor changes with a read, and no other.              *)
LEMMA FileChanges ==
    ASSUME IInv, op.at \in {"seek", "copy"}, vol' = vol, recycled' = recycled,
           NEW h, Standing(V, h), DOMAIN handles' = DOMAIN handles,
           \A fd \in DOMAIN handles : handles'[fd] = IF fd = op.fd THEN h ELSE handles[fd],
           op'.at # "copy" \/ op'.fd = op.fd,
           h.broken \/ h.offset = Len(h.got) + (IF op'.at = "copy" THEN op'.done ELSE 0),
           OpInv', LastInv(V, last')
    PROVE  IInv'
<1>1. op.fd \in DOMAIN handles /\ V' = V
  BY OpIs DEF V
<1>2. DOMAIN handles' = DOMAIN handles /\ handles'[op.fd] = h
      /\ \A fd \in DOMAIN handles : fd # op.fd => handles'[fd] = handles[fd]
  BY <1>1
<1>3. FdsInv'
  BY <1>2 DEF IInv, FdsInv, Recycled
<1>4. HandlesInv'
  BY <1>1, <1>2 DEF IInv, HandlesInv
<1>5. OffsetInv'
  <2> SUFFICES ASSUME NEW fd \in DOMAIN handles', handles'[fd].kind = "file"
               PROVE  handles'[fd].broken
                        \/ handles'[fd].offset = Len(handles'[fd].got) + Pending(fd)'
    BY DEF OffsetInv, IsOpenFile
  <2>1. CASE fd = op.fd
    BY <1>2, <2>1 DEF Pending
  <2>2. CASE fd # op.fd
    BY <1>2, <2>2 DEF IInv, OffsetInv, Pending, IsOpenFile
  <2>3. QED
    BY <2>1, <2>2
<1>6. LastInv(V, last)'
  BY <1>1
<1>7. QED
  BY <1>1, <1>3, <1>4, <1>5, <1>6 DEF IInv

LEMMA ReadFailed ==
    ASSUME IInv, op.at \in {"seek", "copy"}, vol' = vol, recycled' = recycled,
           NEW h, Standing(V, h), ReadFails(h)
    PROVE  IInv'
<1> DEFINE g == [h EXCEPT !.broken = TRUE, !.got = <<>>]
<1>1. h \in FileRecords
  BY DEF Standing
<1>2. <<>> \in Seq(Nat)
  OBVIOUS
<1>3. /\ g \in FileRecords /\ g.broken /\ g.got = <<>> /\ g.first = h.first /\ g.size = h.size
      /\ g.offset = h.offset /\ g.path = h.path
  BY <1>1, <1>2 DEF FileRecords
<1>4. /\ DOMAIN handles' = DOMAIN handles /\ op' = Idle
      /\ \A fd \in DOMAIN handles : handles'[fd] = IF fd = op.fd THEN g ELSE handles[fd]
      /\ last' = [call |-> "failed read", fd |-> op.fd]
  BY DEF ReadFails, Return
<1> HIDE DEF g
<1>5. Standing(V, g)
  BY <1>3 DEF Standing, Names, Right
<1>6. Idle.at # "copy"
  BY DEF Idle
<1>7. OpInv'
  BY <1>4 DEF OpInv
<1>8. LastInv(V, last')
  <2>1. last'.call = "failed read"
    BY <1>4
  <2>2. QED
    BY <2>1 DEF LastInv
<1>9. QED
  BY <1>3, <1>4, <1>5, <1>6, <1>7, <1>8, FileChanges

LEMMA FileRead ==
    ASSUME IInv, op.at \in {"seek", "copy"}
    PROVE  /\ op.fd \in DOMAIN handles /\ File = handles[op.fd] /\ Standing(V, File)
           /\ File \in FileRecords /\ File.kind = "file" /\ File.size > 0
           /\ IsHead(V, File.first) /\ WellFormed(V)
           /\ File.broken \/ File.offset = Len(File.got) + (IF op.at = "copy" THEN op.done ELSE 0)
<1>1. op.fd \in DOMAIN handles /\ File = handles[op.fd] /\ WellFormed(V)
  BY OpIs DEF File
<1>2. SeekInv(V, File, op) \/ CopyInv(V, File, op)
  BY <1>1, OpIs
<1>3. File.kind = "file"
  BY <1>2 DEF SeekInv, CopyInv
<1>4. Standing(V, File)
  <2>1. File # Console
    BY <1>3 DEF Console
  <2>2. QED
    BY <1>1, <2>1 DEF IInv, HandlesInv
<1>5. File \in FileRecords
  BY <1>4 DEF Standing
<1>6. File.size > 0
  <2>1. CASE SeekInv(V, File, op)
    BY <1>5, <2>1 DEF SeekInv, FileRecords
  <2>2. CASE CopyInv(V, File, op)
    BY <2>2 DEF CopyInv
  <2>3. QED
    BY <1>2, <2>1, <2>2
<1>7. File.broken \/ File.offset = Len(File.got) + (IF op.at = "copy" THEN op.done ELSE 0)
  BY <1>1, <1>3 DEF IInv, OffsetInv, Pending, IsOpenFile
<1>8. QED
  BY <1>1, <1>3, <1>4, <1>5, <1>6, <1>7 DEF Standing

LEMMA ReadStarts ==
    ASSUME IInv, ReadCall
    PROVE  IInv'
<1>1. op = Idle /\ UNCHANGED <<vol, handles, recycled>> /\ V' = V
  BY DEF ReadCall, V
<1>2. Idle.at # "copy"
  BY DEF Idle
<1>3. PICK fd \in DOMAIN handles, n \in ReadSizes :
         /\ IsOpenFile(fd)
         /\ IF handles[fd].offset >= handles[fd].size \/ n = 0
            THEN Return([call |-> "read", fd |-> fd, n |-> 0])
            ELSE /\ op' = [at |-> "seek", fd |-> fd,
                           want |-> Wanted(handles[fd], n),
                           hops |-> handles[fd].offset \div ClusterSize(V),
                           cluster |-> handles[fd].first]
                 /\ last' = Nothing
  BY DEF ReadCall
<1>4. PICK h : h = handles[fd]
  OBVIOUS
<1>5. CASE h.offset >= h.size \/ n = 0
  <2>1. op' = Idle /\ last' = [call |-> "read", fd |-> fd, n |-> 0]
    BY <1>3, <1>4, <1>5 DEF Return
  <2>2. last'.call = "read"
    BY <2>1
  <2>3. LastInv(V, last')
    BY <2>2 DEF LastInv
  <2>4. QED
    BY <1>1, <1>2, <2>1, <2>3, CallFails
<1>6. CASE ~(h.offset >= h.size \/ n = 0)
  <2>1. /\ op' = [at |-> "seek", fd |-> fd, want |-> Wanted(h, n),
                  hops |-> h.offset \div ClusterSize(V), cluster |-> h.first]
        /\ last' = Nothing
    BY <1>3, <1>4, <1>6
  <2>2. h.kind = "file"
    BY <1>3, <1>4 DEF IsOpenFile
  <2>3. Standing(V, h)
    <3>1. h # Console
      BY <2>2, <1>6 DEF Console
    <3>2. QED
      BY <1>4, <3>1 DEF IInv, HandlesInv
  <2>4. h.offset \in Nat /\ h.size \in Nat /\ h.first \in Nat /\ h.offset < h.size
        /\ IsHead(V, h.first) /\ WellFormed(V)
    BY <1>6, <2>3, OpIs DEF Standing, FileRecords
  <2>5. fd \in Nat /\ n \in Nat
    BY <1>3, DescriptorAssumption DEF IInv, FdsInv
  <2>6. Wanted(h, n) \in Nat /\ Wanted(h, n) <= h.size - h.offset
    <3>1. h.size - h.offset \in Nat
      BY <2>4
    <3>2. QED
      BY <2>5, <3>1, SmallerFacts DEF Wanted
  <2>7. h.offset \div ClusterSize(V) \in Nat
    BY <2>4, ClusterFacts, DivFacts
  <2>8. op'.at = "seek" /\ op'.fd = fd /\ op'.want = Wanted(h, n)
        /\ op'.hops = h.offset \div ClusterSize(V) /\ op'.cluster = h.first
    BY <2>1
  <2>9. op' \in SeekRecords
    BY <2>1, <2>4, <2>5, <2>6, <2>7 DEF SeekRecords
  <2>10. 1 \in 1..Len(Chain(V, h.first)) /\ Chain(V, h.first)[1] = h.first
    BY <2>4, ChainFacts
  <2>11. (1 - 1) + op'.hops = h.offset \div ClusterSize(V)
    BY <2>7, <2>8
  <2>12. SeekInv(V, h, op')
    BY <2>2, <2>4, <2>6, <2>8, <2>9, <2>10, <2>11 DEF SeekInv
  <2>13. OpInv'
    BY <1>1, <1>4, <2>8, <2>12 DEF OpInv
  <2>14. LastInv(V, last')
    BY <2>1 DEF LastInv, Nothing
  <2>15. QED
    BY <1>1, <1>2, <2>8, <2>13, <2>14, FilesKept
<1>7. QED
  BY <1>5, <1>6

LEMMA SeekStep ==
    ASSUME IInv, Seek
    PROVE  IInv'
<1>1. /\ op.at = "seek" /\ op.hops > 0 /\ InPartition(V, FatBlock(V, op.cluster))
      /\ HasNext(V, op.cluster) /\ UNCHANGED <<vol, handles, recycled, last>> /\ V' = V
      /\ op' = [op EXCEPT !.hops = @ - 1, !.cluster = Word(V, op.cluster)]
  BY DEF Seek, BlockReads, V
<1>2. SeekInv(V, File, op) /\ op.fd \in DOMAIN handles /\ File = handles[op.fd] /\ WellFormed(V)
      /\ IsHead(V, File.first) /\ File \in FileRecords
  BY <1>1, OpIs, FileRead
<1>3. op \in SeekRecords /\ File.kind = "file" /\ File.offset < File.size
      /\ op.want <= File.size - File.offset
  BY <1>2 DEF SeekInv
<1>4. PICK k \in 1..Len(Chain(V, File.first)) :
         /\ op.cluster = Chain(V, File.first)[k]
         /\ (k - 1) + op.hops = File.offset \div ClusterSize(V)
  BY <1>2 DEF SeekInv
<1>5. Chain(V, File.first) \in V.chains /\ Len(Chain(V, File.first)) \in Nat /\ k \in Nat
      /\ \A i \in 1..Len(Chain(V, File.first)) : Chain(V, File.first)[i] \in Nat
  BY <1>2, ChainFacts
<1>6. k < Len(Chain(V, File.first)) /\ Word(V, op.cluster) = Chain(V, File.first)[k + 1]
  <2>1. InPartition(V, FatBlock(V, Chain(V, File.first)[k])) /\ HasNext(V, Chain(V, File.first)[k])
    BY <1>1, <1>4
  <2>2. k = Len(Chain(V, File.first)) => ~HasNext(V, Chain(V, File.first)[k])
    BY <1>2, <1>5, <2>1, NextWord
  <2>3. k < Len(Chain(V, File.first))
    BY <1>5, <2>1, <2>2
  <2>4. QED
    BY <1>2, <1>4, <1>5, <2>1, <2>3, NextWord
<1>7. k + 1 \in 1..Len(Chain(V, File.first)) /\ Word(V, op.cluster) \in Nat
  BY <1>5, <1>6
<1>8. /\ op.hops \in Nat /\ op.hops - 1 \in Nat
  BY <1>1, <1>3 DEF SeekRecords
<1>9. /\ op' \in SeekRecords /\ op'.at = "seek" /\ op'.fd = op.fd /\ op'.want = op.want
      /\ op'.hops = op.hops - 1 /\ op'.cluster = Word(V, op.cluster)
  BY <1>1, <1>3, <1>7, <1>8 DEF SeekRecords
<1>10. ((k + 1) - 1) + op'.hops = File.offset \div ClusterSize(V)
  BY <1>4, <1>5, <1>8, <1>9
<1>11. SeekInv(V, File, op')
  BY <1>3, <1>6, <1>7, <1>9, <1>10 DEF SeekInv
<1>12. OpInv'
  BY <1>1, <1>2, <1>9, <1>11 DEF OpInv
<1>13. QED
  BY <1>1, <1>9, <1>12, FilesKept DEF IInv

LEMMA ChunkFacts ==
    ASSUME NEW v, WellFormed(v), NEW want \in Nat, NEW done \in Nat, done <= want, NEW offset \in Nat
    PROVE  /\ ChunkOf(v, want, done, offset) \in Nat /\ ChunkOf(v, want, done, offset) <= want - done
           /\ (offset % ClusterSize(v)) \in 0..(ClusterSize(v) - 1)
           /\ ChunkOf(v, want, done, offset) + (offset % ClusterSize(v)) <= ClusterSize(v)
           /\ \/ ChunkOf(v, want, done, offset) = want - done
              \/ ChunkOf(v, want, done, offset) = ClusterSize(v) - (offset % ClusterSize(v))
<1>1. PICK size \in Nat \ {0} : size = ClusterSize(v)
  BY ClusterFacts
<1>2. PICK a \in Nat : a = want - done
  <2>1. want - done \in Nat
    OBVIOUS
  <2>2. QED
    BY <2>1
<1>3. PICK r \in 0..(size - 1) : r = (offset % size)
  BY DivFacts
<1>4. PICK b \in Nat : b = size - r
  <2>1. size - r \in Nat
    BY <1>3
  <2>2. QED
    BY <2>1
<1>5. PICK c \in Nat : c = Smaller(a, b) /\ c <= a /\ c <= b /\ c \in {a, b}
  BY SmallerFacts
<1>6. ChunkOf(v, want, done, offset) = c
  BY <1>1, <1>2, <1>3, <1>4, <1>5 DEF ChunkOf
<1>7. c + r <= size
  BY <1>3, <1>4, <1>5
<1>8. QED
  BY <1>1, <1>2, <1>3, <1>4, <1>5, <1>6, <1>7

LEMMA SeekFailStep ==
    ASSUME IInv, SeekFails
    PROVE  IInv'
<1>1. op.at = "seek" /\ vol' = vol /\ recycled' = recycled /\ ReadFails(File)
  BY DEF SeekFails
<1>2. QED
  BY <1>1, FileRead, ReadFailed

LEMMA CopyFailStep ==
    ASSUME IInv, CopyFails
    PROVE  IInv'
<1>1. op.at = "copy" /\ vol' = vol /\ recycled' = recycled /\ ReadFails(File)
  BY DEF CopyFails
<1>2. QED
  BY <1>1, FileRead, ReadFailed

LEMMA SeekedStep ==
    ASSUME IInv, Seeked
    PROVE  IInv'
<1>1. /\ op.at = "seek" /\ op.hops = 0 /\ UNCHANGED <<vol, handles, recycled, last>> /\ V' = V
      /\ op' = CopyOf(op.cluster, op.want, <<>>, File.offset)
  BY DEF Seeked, V
<1>2. /\ SeekInv(V, File, op) /\ op.fd \in DOMAIN handles /\ File = handles[op.fd] /\ WellFormed(V)
      /\ IsHead(V, File.first) /\ File \in FileRecords /\ File.size > 0 /\ Standing(V, File)
      /\ File.broken \/ File.offset = Len(File.got)
  <2>1. File.broken \/ File.offset = Len(File.got) + 0
    BY <1>1, FileRead
  <2>2. File \in FileRecords
    BY <1>1, FileRead
  <2>3. Len(File.got) + 0 = Len(File.got)
    BY <2>2 DEF FileRecords
  <2>4. QED
    BY <1>1, <2>1, <2>3, OpIs, FileRead
<1>3. op \in SeekRecords /\ File.kind = "file" /\ File.offset < File.size
      /\ op.want <= File.size - File.offset
  BY <1>2 DEF SeekInv
<1>4. PICK k \in 1..Len(Chain(V, File.first)) :
         /\ op.cluster = Chain(V, File.first)[k]
         /\ (k - 1) + op.hops = File.offset \div ClusterSize(V)
  BY <1>2 DEF SeekInv
<1>5. k \in Nat /\ op.want \in Nat /\ op.fd \in Nat /\ op.cluster \in Nat
      /\ File.offset \in Nat /\ File.size \in Nat
  BY <1>2, <1>3, ChainFacts DEF SeekRecords, FileRecords
<1>6. k - 1 = File.offset \div ClusterSize(V)
  BY <1>1, <1>4, <1>5
<1>7. ChunkOf(V, op.want, 0, File.offset) \in Nat
  <2>1. 0 \in Nat /\ 0 <= op.want
    BY <1>5
  <2>2. QED
    BY <1>2, <1>5, <2>1, ChunkFacts
<1>8. Len(<<>>) = 0 /\ <<>> \in Seq(Nat) /\ DOMAIN <<>> = {}
  OBVIOUS
<1>9. op' = [at |-> "copy", fd |-> op.fd, want |-> op.want, cluster |-> op.cluster, buf |-> <<>>,
             done |-> 0, chunk |-> ChunkOf(V, op.want, 0, File.offset)]
  BY <1>1, <1>8 DEF CopyOf, Chunk, ChunkOf
<1>10. /\ op'.at = "copy" /\ op'.fd = op.fd /\ op'.want = op.want /\ op'.cluster = op.cluster
       /\ op'.buf = <<>> /\ op'.done = 0 /\ op'.chunk = ChunkOf(V, op.want, 0, File.offset)
  BY <1>9
<1>11. op' \in CopyRecords
  BY <1>5, <1>7, <1>8, <1>9 DEF CopyRecords
<1>12. op'.done <= Len(op'.buf) /\ Len(op'.buf) <= op'.done + op'.chunk /\ op'.done <= op'.want
       /\ File.offset + (op'.want - op'.done) <= File.size
  BY <1>3, <1>5, <1>7, <1>8, <1>10
<1>13. Right(V, File.first, Len(File.got), op'.buf)
  BY <1>8, <1>10 DEF Right
<1>14. CopyInv(V, File, op')
  BY <1>2, <1>3, <1>4, <1>6, <1>10, <1>11, <1>12, <1>13 DEF CopyInv
<1>15. OpInv'
  BY <1>1, <1>2, <1>10, <1>14 DEF OpInv
<1>16. DOMAIN handles' = DOMAIN handles
       /\ \A fd \in DOMAIN handles : handles'[fd] = IF fd = op.fd THEN File ELSE handles[fd]
  BY <1>1, <1>2
<1>17. QED
  <2>1. File.broken \/ File.offset = Len(File.got) + (IF op'.at = "copy" THEN op'.done ELSE 0)
    <3>1. File.broken \/ File.offset = Len(File.got) + 0
      BY <1>1, FileRead
    <3>2. QED
      BY <1>10, <3>1
  <2>2. vol' = vol /\ recycled' = recycled /\ LastInv(V, last')
    BY <1>1 DEF IInv
  <2>3. QED
    BY <1>1, <1>2, <1>10, <1>15, <1>16, <2>1, <2>2, FileChanges

(* Where a copy going on is.                                                *)
LEMMA CopyFacts ==
    ASSUME IInv, op.at = "copy"
    PROVE  /\ op \in CopyRecords /\ File \in FileRecords /\ CopyInv(V, File, op)
           /\ op.fd \in Nat /\ op.want \in Nat /\ op.cluster \in Nat /\ op.done \in Nat /\ op.chunk \in Nat
           /\ op.buf \in Seq(Nat) /\ Len(op.buf) \in Nat /\ DOMAIN op.buf = 1..Len(op.buf)
           /\ File.offset \in Nat /\ File.size \in Nat
           /\ File.got \in Seq(Nat) /\ Len(File.got) \in Nat /\ DOMAIN File.got = 1..Len(File.got)
           /\ op.done <= Len(op.buf) /\ Len(op.buf) <= op.done + op.chunk /\ op.done <= op.want
           /\ op.chunk <= op.want - op.done
           /\ op.chunk + (File.offset % ClusterSize(V)) <= ClusterSize(V)
           /\ (File.offset % ClusterSize(V)) \in 0..(ClusterSize(V) - 1)
           /\ \/ op.chunk = op.want - op.done
              \/ op.chunk = ClusterSize(V) - (File.offset % ClusterSize(V))
           /\ File.offset + (op.want - op.done) <= File.size
           /\ ~File.broken => Right(V, File.first, Len(File.got), op.buf)
           /\ \E k \in 1..Len(Chain(V, File.first)) :
                 /\ op.cluster = Chain(V, File.first)[k] /\ k \in Nat /\ k >= 1
                 /\ File.offset \div ClusterSize(V) = k - 1
<1>1. File \in FileRecords /\ WellFormed(V) /\ IsHead(V, File.first) /\ File = handles[op.fd]
  BY FileRead
<1>2. CopyInv(V, File, op)
  BY <1>1, OpIs
<1>3. /\ op \in CopyRecords /\ op.done <= Len(op.buf) /\ Len(op.buf) <= op.done + op.chunk
      /\ op.done <= op.want /\ op.chunk = ChunkOf(V, op.want, op.done, File.offset)
      /\ File.offset + (op.want - op.done) <= File.size
      /\ ~File.broken => Right(V, File.first, Len(File.got), op.buf)
      /\ \E k \in 1..Len(Chain(V, File.first)) :
            op.cluster = Chain(V, File.first)[k] /\ File.offset \div ClusterSize(V) = k - 1
  BY <1>2 DEF CopyInv
<1>4. /\ op.fd \in Nat /\ op.want \in Nat /\ op.cluster \in Nat /\ op.done \in Nat /\ op.chunk \in Nat
      /\ op.buf \in Seq(Nat)
  BY <1>3 DEF CopyRecords
<1>5. File.offset \in Nat /\ File.size \in Nat /\ File.got \in Seq(Nat)
  BY <1>1 DEF FileRecords
<1>6. /\ Len(op.buf) \in Nat /\ DOMAIN op.buf = 1..Len(op.buf)
      /\ Len(File.got) \in Nat /\ DOMAIN File.got = 1..Len(File.got)
  BY <1>4, <1>5
<1>7. /\ op.chunk <= op.want - op.done
      /\ op.chunk + (File.offset % ClusterSize(V)) <= ClusterSize(V)
      /\ (File.offset % ClusterSize(V)) \in 0..(ClusterSize(V) - 1)
      /\ \/ op.chunk = op.want - op.done
         \/ op.chunk = ClusterSize(V) - (File.offset % ClusterSize(V))
  <2>1. PICK want \in Nat, done \in Nat, offset \in Nat :
           want = op.want /\ done = op.done /\ offset = File.offset
    BY <1>4, <1>5
  <2>2. done <= want /\ op.chunk = ChunkOf(V, want, done, offset)
    BY <1>3, <2>1
  <2>3. /\ ChunkOf(V, want, done, offset) <= want - done
        /\ (offset % ClusterSize(V)) \in 0..(ClusterSize(V) - 1)
        /\ ChunkOf(V, want, done, offset) + (offset % ClusterSize(V)) <= ClusterSize(V)
        /\ \/ ChunkOf(V, want, done, offset) = want - done
           \/ ChunkOf(V, want, done, offset) = ClusterSize(V) - (offset % ClusterSize(V))
    BY <1>1, <2>2, ChunkFacts
  <2>4. QED
    BY <2>1, <2>2, <2>3, Zenon
<1>8. Len(Chain(V, File.first)) \in Nat
  BY <1>1, ChainFacts
<1>9. \A k \in 1..Len(Chain(V, File.first)) : k \in Nat /\ k >= 1
  BY <1>8
<1>10. QED
  BY <1>1, <1>2, <1>3, <1>4, <1>5, <1>6, <1>7, <1>9

(* What a sector adds to the buffer is right.                               *)
LEMMA CopiedRight ==
    ASSUME IInv, op.at = "copy", InChunk < op.chunk, InPartition(V, CopyBlock)
    PROVE  /\ Copied \in Seq(Nat) /\ DOMAIN Copied = 1..Len(Copied) /\ Len(Copied) \in Nat
           /\ Len(op.buf) + Len(Copied) <= op.done + op.chunk
           /\ ~File.broken =>
                 \A j \in 1..Len(Copied) :
                    /\ Len(File.got) + (Len(op.buf) + j) <= Stored(V, File.first)
                    /\ Copied[j] = FileByte(V, File.first, Len(File.got) + (Len(op.buf) + j) - 1)
<1>1. WellFormed(V) /\ IsHead(V, File.first) /\ (File.broken \/ File.offset = Len(File.got) + op.done)
  BY FileRead
<1>2. PICK k \in 1..Len(Chain(V, File.first)) :
         /\ op.cluster = Chain(V, File.first)[k] /\ k \in Nat /\ k >= 1
         /\ File.offset \div ClusterSize(V) = k - 1
  BY CopyFacts
<1>3. PICK size \in Nat \ {0} : size = ClusterSize(V)
  BY <1>1, ClusterFacts
<1>4. PICK w \in Nat \ {0} : w = SectorSize
  BY <1>1, ClusterFacts
<1>5. PICK r \in 0..(size - 1) : r = (File.offset % size) /\ op.chunk + r <= size
  BY <1>3, CopyFacts
<1>6. PICK offset \in Nat, done \in Nat, chunk \in Nat, len \in Nat :
         /\ offset = File.offset /\ done = op.done /\ chunk = op.chunk /\ len = Len(op.buf)
         /\ done <= len /\ len <= done + chunk
  BY CopyFacts
<1>7. PICK gap \in Nat : gap = len - done /\ gap = InChunk
  <2>1. len - done \in Nat
    BY <1>6
  <2>2. InChunk = len - done
    BY <1>6 DEF InChunk
  <2>3. QED
    BY <2>1, <2>2
<1>8. PICK q \in Nat : q = r + gap /\ q = InCluster
  <2>1. InCluster = r + gap
    BY <1>3, <1>5, <1>7 DEF InCluster
  <2>2. QED
    BY <2>1
<1>9. gap < chunk /\ q < size
  BY <1>5, <1>6, <1>7, <1>8, SMTT(30)
<1>10. PICK start \in 0..(w - 1) : start = (q % w)
  BY <1>4, DivFacts
<1>11. PICK n \in Nat : n = Smaller(chunk - gap, w - start) /\ n <= chunk - gap /\ n <= w - start
  <2>1. chunk - gap \in Nat /\ w - start \in Nat
    BY <1>9, <1>10
  <2>2. QED
    BY <2>1, SmallerFacts
<1>12. Copied = [j \in 1..n |-> Lba(V, CopyBlock) * SectorSize + start + j - 1]
  BY <1>4, <1>6, <1>7, <1>8, <1>10, <1>11 DEF Copied
<1>13. offset = (k - 1) * size + r
  <2>1. offset = (offset \div size) * size + (offset % size)
    BY DivFacts
  <2>2. QED
    BY <1>2, <1>3, <1>5, <1>6, <2>1
<1>14. ASSUME NEW j \in 1..n
       PROVE  /\ Copied[j] \in Nat
              /\ offset + gap + j <= Stored(V, File.first)
              /\ Copied[j] = FileByte(V, File.first, offset + gap + j - 1)
  <2>1. PICK m \in Nat : m = j - 1
    <3>1. j - 1 \in Nat
      OBVIOUS
    <3>2. QED
      BY <3>1
  <2>2. q + m < size
    <3>1. chunk + r <= size
      BY <1>5, <1>6
    <3>2. m + 1 <= n /\ n <= chunk - gap /\ q = r + gap
      BY <1>8, <1>11, <2>1
    <3>3. QED
      BY <3>1, <3>2
  <2>3. PICK i \in Nat : i = (k - 1) * ClusterSize(V) + (q + m)
    <3>1. PICK a \in Nat : a = k - 1
      BY <1>2
    <3>2. a * size \in Nat
      OBVIOUS
    <3>3. QED
      BY <1>3, <3>1, <3>2
  <2>4. CopyBlock = FirstSector(V, Chain(V, File.first)[k]) + (q \div SectorSize)
    BY <1>2, <1>8 DEF CopyBlock
  <2>5. /\ Lba(V, CopyBlock) * SectorSize + (q % SectorSize) + m = FileByte(V, File.first, i)
        /\ i + 1 <= Stored(V, File.first)
        /\ Lba(V, CopyBlock) * SectorSize + (q % SectorSize) + m \in Nat
    <3>1. q + m < ClusterSize(V) /\ InPartition(V, CopyBlock)
      BY <1>3, <2>2
    <3>2. QED
      BY <1>1, <2>3, <2>4, <3>1, ByteAt
  <2>6. i = offset + gap + m
    <3>1. PICK p \in Int : p = (k - 1) * size
      BY <1>2
    <3>2. offset = p + r /\ i = p + (q + m)
      BY <1>3, <1>13, <2>3, <3>1
    <3>3. QED
      BY <1>8, <3>2
  <2>7. Copied[j] = Lba(V, CopyBlock) * SectorSize + (q % SectorSize) + m
    <3>1. Copied[j] = Lba(V, CopyBlock) * SectorSize + start + j - 1
      BY <1>12
    <3>2. PICK x \in Int : x = Lba(V, CopyBlock) * SectorSize + start
      <4>1. Lba(V, CopyBlock) * SectorSize + start + m \in Nat
        BY <1>4, <1>10, <2>5
      <4>2. Lba(V, CopyBlock) \in Int
        <5>1. CopyBlock \in Nat
          <6>1. PICK c \in Nat : c = Chain(V, File.first)[k] /\ 2 <= c /\ c < EndMark
            BY <1>1, ChainFacts
          <6>2. FirstSector(V, c) \in Nat
            BY <1>1, <6>1, FirstOfCluster
          <6>3. (q \div w) \in Nat
            BY DivFacts
          <6>4. QED
            BY <1>4, <2>4, <6>1, <6>2, <6>3
        <5>2. Lba(V, CopyBlock) = V.begin + CopyBlock
          BY <1>1, <5>1, LbaFacts
        <5>3. QED
          BY <1>1, <5>1, <5>2, PartitionFacts
      <4>3. Lba(V, CopyBlock) * SectorSize \in Int
        BY <1>4, <4>2
      <4>4. QED
        BY <4>3
    <3>3. QED
      BY <1>4, <1>10, <2>1, <3>1, <3>2
  <2>8. offset + gap + j - 1 = i /\ offset + gap + j = i + 1
    BY <2>1, <2>6
  <2>9. QED
    BY <2>5, <2>7, <2>8
<1>15. Copied \in Seq(Nat) /\ Len(Copied) = n
  <2>1. \A j \in 1..n : Copied[j] \in Nat
    BY <1>14
  <2>2. DOMAIN Copied = 1..n /\ Copied = [j \in 1..n |-> Copied[j]]
    BY <1>12
  <2>3. Copied \in [1..n -> Nat]
    BY <2>1, <2>2
  <2>4. QED
    BY <2>2, <2>3
<1>16. ASSUME ~File.broken, NEW j \in 1..n
       PROVE  offset + gap + j = Len(File.got) + (Len(op.buf) + j)
  <2>1. PICK g \in Nat : g = Len(File.got) /\ offset = g + done
    BY <1>1, <1>6, <1>16, CopyFacts
  <2>2. gap = len - done
    BY <1>7
  <2>3. j \in Nat
    OBVIOUS
  <2>4. offset + gap = g + len
    BY <2>1, <2>2
  <2>5. offset + gap + j = (offset + gap) + j /\ g + (len + j) = (g + len) + j
    BY <2>3
  <2>6. QED
    BY <1>6, <2>1, <2>4, <2>5
<1>17. len + n <= done + chunk
  BY <1>7, <1>11
<1>18. ASSUME ~File.broken, NEW j \in 1..n
       PROVE  /\ Len(File.got) + (Len(op.buf) + j) <= Stored(V, File.first)
              /\ Copied[j] = FileByte(V, File.first, Len(File.got) + (Len(op.buf) + j) - 1)
  <2>1. offset + gap + j = Len(File.got) + (Len(op.buf) + j)
    BY <1>16, <1>18
  <2>2. PICK g \in Nat : g = Len(File.got)
    BY CopyFacts
  <2>3. j \in Nat
    OBVIOUS
  <2>4. offset + gap + j - 1 = (offset + gap + j) - 1 /\ g + (len + j) - 1 = (g + (len + j)) - 1
    BY <2>3
  <2>5. offset + gap + j - 1 = Len(File.got) + (Len(op.buf) + j) - 1
    BY <1>6, <2>1, <2>2, <2>4
  <2>6. QED
    BY <1>14, <2>1, <2>5, Zenon
<1>19. DOMAIN Copied = 1..Len(Copied) /\ Len(op.buf) + Len(Copied) <= op.done + op.chunk
  BY <1>6, <1>12, <1>15, <1>17
<1>20. QED
  BY <1>15, <1>18, <1>19

LEMMA CopyStep ==
    ASSUME IInv, CopySector
    PROVE  IInv'
<1>1. /\ op.at = "copy" /\ InChunk < op.chunk /\ InPartition(V, CopyBlock)
      /\ UNCHANGED <<vol, handles, recycled, last>> /\ V' = V
      /\ op' = [op EXCEPT !.buf = op.buf \o Copied]
  BY DEF CopySector, BlockReads, V
<1>2. /\ op \in CopyRecords /\ File \in FileRecords /\ CopyInv(V, File, op)
      /\ op.buf \in Seq(Nat) /\ Len(op.buf) \in Nat /\ DOMAIN op.buf = 1..Len(op.buf)
      /\ op.done \in Nat /\ op.chunk \in Nat /\ op.done <= Len(op.buf)
      /\ ~File.broken => Right(V, File.first, Len(File.got), op.buf)
  BY <1>1, CopyFacts
<1>3. /\ op.fd \in DOMAIN handles /\ File = handles[op.fd] /\ Standing(V, File)
      /\ File.broken \/ File.offset = Len(File.got) + op.done
  BY <1>1, FileRead
<1>4. /\ Copied \in Seq(Nat) /\ DOMAIN Copied = 1..Len(Copied) /\ Len(Copied) \in Nat
      /\ Len(op.buf) + Len(Copied) <= op.done + op.chunk
      /\ ~File.broken =>
            \A j \in 1..Len(Copied) :
               /\ Len(File.got) + (Len(op.buf) + j) <= Stored(V, File.first)
               /\ Copied[j] = FileByte(V, File.first, Len(File.got) + (Len(op.buf) + j) - 1)
  BY <1>1, CopiedRight
<1>5. PICK joined : joined = op.buf \o Copied
  OBVIOUS
<1>6. /\ joined \in Seq(Nat) /\ Len(joined) = Len(op.buf) + Len(Copied) /\ DOMAIN joined = 1..Len(joined)
      /\ \A i \in 1..Len(op.buf) : joined[i] = op.buf[i]
      /\ \A j \in 1..Len(Copied) : joined[Len(op.buf) + j] = Copied[j]
  BY <1>2, <1>4, <1>5
<1>7. /\ op' \in CopyRecords /\ op'.at = "copy" /\ op'.fd = op.fd /\ op'.want = op.want
      /\ op'.cluster = op.cluster /\ op'.buf = joined /\ op'.done = op.done /\ op'.chunk = op.chunk
  BY <1>1, <1>2, <1>5, <1>6 DEF CopyRecords
<1>8. ASSUME ~File.broken PROVE Right(V, File.first, Len(File.got), joined)
  <2> SUFFICES ASSUME NEW i \in 1..Len(joined)
               PROVE  /\ Len(File.got) + i <= Stored(V, File.first)
                      /\ joined[i] = FileByte(V, File.first, Len(File.got) + i - 1)
    BY <1>6 DEF Right
  <2>1. CASE i \in 1..Len(op.buf)
    BY <1>2, <1>6, <1>8, <2>1 DEF Right
  <2>2. CASE i \notin 1..Len(op.buf)
    <3>1. PICK a \in Nat, b \in Nat : a = Len(op.buf) /\ b = Len(Copied)
      BY <1>2, <1>4
    <3>2. i \in Nat /\ i <= a + b /\ a < i
      BY <1>6, <2>2, <3>1
    <3>3. PICK j \in 1..b : a + j = i
      <4>1. i - a \in 1..b /\ a + (i - a) = i
        BY <3>2
      <4>2. QED
        BY <4>1
    <3>4. /\ Len(File.got) + (a + j) <= Stored(V, File.first)
          /\ Copied[j] = FileByte(V, File.first, Len(File.got) + (a + j) - 1)
          /\ joined[a + j] = Copied[j]
      BY <1>4, <1>6, <1>8, <3>1
    <3>5. QED
      BY <3>3, <3>4
  <2>3. QED
    BY <2>1, <2>2
<1>9. op.done <= Len(joined) /\ Len(joined) <= op.done + op.chunk
  BY <1>2, <1>4, <1>6
<1>10. CopyInv(V, File, op')
  BY <1>2, <1>7, <1>8, <1>9 DEF CopyInv
<1>11. OpInv'
  BY <1>1, <1>3, <1>7, <1>10 DEF OpInv
<1>12. DOMAIN handles' = DOMAIN handles
       /\ \A fd \in DOMAIN handles : handles'[fd] = IF fd = op.fd THEN File ELSE handles[fd]
  BY <1>1, <1>3
<1>13. File.broken \/ File.offset = Len(File.got) + (IF op'.at = "copy" THEN op'.done ELSE 0)
  BY <1>3, <1>7
<1>14. vol' = vol /\ recycled' = recycled /\ LastInv(V, last')
  BY <1>1 DEF IInv
<1>15. QED
  BY <1>1, <1>3, <1>7, <1>11, <1>12, <1>13, <1>14, FileChanges

(* The file after a chunk.                                                  *)
LEMMA MovedStands ==
    ASSUME IInv, ChunkEnds
    PROVE  /\ Standing(V, Moved) /\ Moved \in FileRecords /\ Moved.offset = File.offset + op.chunk
           /\ Moved.got = File.got /\ Moved.broken = File.broken /\ Moved.size = File.size
           /\ Moved.first = File.first /\ Moved.kind = "file" /\ Moved.path = File.path
           /\ op.at = "copy" /\ Len(op.buf) = op.done + op.chunk
           /\ Moved.offset + (op.want - (op.done + op.chunk)) <= Moved.size
<1>1. op.at = "copy" /\ InChunk = op.chunk
  BY DEF ChunkEnds
<1>2. /\ File \in FileRecords /\ op.done \in Nat /\ op.chunk \in Nat /\ op.want \in Nat
      /\ Len(op.buf) \in Nat /\ File.offset \in Nat /\ File.size \in Nat
      /\ op.chunk <= op.want - op.done /\ File.offset + (op.want - op.done) <= File.size
      /\ op.done <= op.want
  BY <1>1, CopyFacts
<1>3. Standing(V, File)
  BY <1>1, FileRead
<1>4. File.offset + op.chunk \in Nat
  BY <1>2
<1>5. Moved = [File EXCEPT !.offset = File.offset + op.chunk]
  BY DEF Moved
<1>6. /\ Moved \in FileRecords /\ Moved.offset = File.offset + op.chunk
      /\ Moved.got = File.got /\ Moved.broken = File.broken /\ Moved.size = File.size
      /\ Moved.first = File.first /\ Moved.kind = "file" /\ Moved.path = File.path
  BY <1>2, <1>4, <1>5 DEF FileRecords
<1>7. Moved.offset <= Moved.size /\ Moved.offset + (op.want - (op.done + op.chunk)) <= Moved.size
  BY <1>2, <1>6
<1>8. Len(op.buf) = op.done + op.chunk
  BY <1>1, <1>2 DEF InChunk
<1>9. Standing(V, Moved)
  BY <1>3, <1>6, <1>7 DEF Standing, Names
<1>10. QED
  BY <1>1, <1>6, <1>7, <1>8, <1>9

LEMMA Joined ==
    ASSUME NEW s \in Seq(Nat), NEW t \in Seq(Nat)
    PROVE  /\ s \o t \in Seq(Nat) /\ DOMAIN (s \o t) = 1..(Len(s) + Len(t))
           /\ Len(s) \in Nat /\ Len(t) \in Nat /\ Len(s \o t) = Len(s) + Len(t)
           /\ \A i \in 1..Len(s) : (s \o t)[i] = s[i]
           /\ \A j \in 1..Len(t) : (s \o t)[Len(s) + j] = t[j]
OBVIOUS

LEMMA ReadEndStep ==
    ASSUME IInv, ReadEnds
    PROVE  IInv'
<1>1. /\ ChunkEnds /\ vol' = vol /\ recycled' = recycled /\ ReadReturns(Delivered, Len(op.buf))
  BY DEF ReadEnds
<1>2. /\ Standing(V, Moved) /\ Moved \in FileRecords /\ Moved.offset = File.offset + op.chunk
      /\ Moved.got = File.got /\ Moved.broken = File.broken /\ Moved.size = File.size
      /\ Moved.first = File.first /\ Moved.kind = "file" /\ Moved.path = File.path
      /\ op.at = "copy" /\ Len(op.buf) = op.done + op.chunk
  BY <1>1, MovedStands
<1>3. /\ op.buf \in Seq(Nat) /\ Len(op.buf) \in Nat /\ op.done \in Nat /\ op.chunk \in Nat
      /\ DOMAIN op.buf = 1..Len(op.buf) /\ File.got \in Seq(Nat) /\ Len(File.got) \in Nat
      /\ DOMAIN File.got = 1..Len(File.got)
      /\ ~File.broken => Right(V, File.first, Len(File.got), op.buf)
  BY <1>2, CopyFacts
<1>4. Standing(V, File) /\ (File.broken \/ File.offset = Len(File.got) + op.done)
  BY <1>2, FileRead
<1>5. Standing(V, Delivered) /\ (Delivered.broken \/ Delivered.offset = Len(Delivered.got) + 0)
  <2>1. CASE File.broken
    BY <1>2, <2>1 DEF Delivered
  <2>2. CASE ~File.broken
    <3> DEFINE got == File.got \o op.buf
               h == [Moved EXCEPT !.got = got]
    <3>1. /\ got \in Seq(Nat) /\ Len(got) = Len(File.got) + Len(op.buf)
          /\ DOMAIN got = 1..(Len(File.got) + Len(op.buf))
          /\ \A i \in 1..Len(File.got) : got[i] = File.got[i]
          /\ \A j \in 1..Len(op.buf) : got[Len(File.got) + j] = op.buf[j]
      BY <1>3, Joined
    <3>2. Delivered = h
      BY <1>2, <2>2 DEF Delivered
    <3> HIDE DEF got
    <3>3. /\ h \in FileRecords /\ h.offset = Moved.offset /\ h.size = Moved.size /\ h.first = Moved.first
          /\ h.path = Moved.path /\ h.got = got /\ h.kind = "file"
      BY <1>2, <3>1 DEF FileRecords
    <3> HIDE DEF h
    <3>4. Right(V, File.first, 0, got)
      <4> SUFFICES ASSUME NEW i \in 1..(Len(File.got) + Len(op.buf))
                   PROVE  0 + i <= Stored(V, File.first) /\ got[i] = FileByte(V, File.first, 0 + i - 1)
        BY <3>1 DEF Right
      <4>1. PICK a \in Nat, b \in Nat : a = Len(File.got) /\ b = Len(op.buf)
        BY <1>3
      <4>2. i \in Nat /\ i <= a + b /\ 1 <= i
        <5>1. i \in 1..(a + b)
          BY <4>1, Zenon
        <5>2. QED
          BY <5>1
      <4>3. CASE i <= a
        <5>1. i \in DOMAIN File.got
          BY <1>3, <4>1, <4>2, <4>3
        <5>2. 0 + i <= Stored(V, File.first) /\ File.got[i] = FileByte(V, File.first, 0 + i - 1)
          BY <1>4, <5>1 DEF Standing, Right
        <5>3. i \in 1..Len(File.got)
          BY <4>1, <4>2, <4>3
        <5>4. got[i] = File.got[i]
          BY <3>1, <5>3
        <5>5. QED
          BY <5>2, <5>4
      <4>4. CASE ~(i <= a)
        <5>1. PICK j \in 1..b : a + j = i
          <6>1. i - a \in 1..b /\ a + (i - a) = i
            BY <4>2, <4>4
          <6>2. QED
            BY <6>1
        <5>2. a + j <= Stored(V, File.first) /\ op.buf[j] = FileByte(V, File.first, a + j - 1)
          BY <1>3, <2>2, <4>1, <5>1 DEF Right
        <5>3. got[a + j] = op.buf[j]
          BY <3>1, <4>1
        <5>4. a + j - 1 = 0 + i - 1 /\ 0 + i = a + j
          BY <4>2, <5>1
        <5>5. got[i] = op.buf[j]
          BY <5>1, <5>3
        <5>6. QED
          BY <5>2, <5>4, <5>5
      <4>5. QED
        BY <4>3, <4>4
    <3>5. Standing(V, h)
      BY <1>2, <3>3, <3>4 DEF Standing, Names
    <3>6. h.offset = Len(h.got) + 0
      <4>1. PICK a \in Nat, b \in Nat, d \in Nat, c \in Nat :
               a = Len(File.got) /\ b = Len(op.buf) /\ d = op.done /\ c = op.chunk
        BY <1>3
      <4>2. h.offset = (a + d) + c /\ Len(h.got) = a + b /\ b = d + c
        BY <1>2, <1>4, <2>2, <3>1, <3>3, <4>1
      <4>3. QED
        BY <4>2
    <3>7. QED
      BY <3>2, <3>5, <3>6
  <2>3. QED
    BY <2>1, <2>2
<1>6. op.fd \in DOMAIN handles
  BY <1>2, OpIs
<1>7. /\ DOMAIN handles' = DOMAIN handles /\ op' = Idle
      /\ \A fd \in DOMAIN handles : handles'[fd] = IF fd = op.fd THEN Delivered ELSE handles[fd]
      /\ last' = [call |-> "read", fd |-> op.fd, n |-> Len(op.buf)]
  BY <1>1 DEF ReadReturns, Return
<1>8. Idle.at # "copy"
  BY DEF Idle
<1>9. OpInv'
  BY <1>7 DEF OpInv
<1>10. LastInv(V, last')
  <2>1. last'.call = "read"
    BY <1>7
  <2>2. QED
    BY <2>1 DEF LastInv
<1>11. QED
  BY <1>1, <1>2, <1>5, <1>7, <1>8, <1>9, <1>10, FileChanges

LEMMA NextFailStep ==
    ASSUME IInv, NextClusterFails
    PROVE  IInv'
<1>1. ChunkEnds /\ vol' = vol /\ recycled' = recycled /\ ReadFails(Moved)
  BY DEF NextClusterFails
<1>2. QED
  BY <1>1, MovedStands, ReadFailed

LEMMA NextStep ==
    ASSUME IInv, NextCluster
    PROVE  IInv'
<1>1. /\ ChunkEnds /\ ~Complete /\ InPartition(V, FatBlock(V, op.cluster)) /\ HasNext(V, op.cluster)
      /\ handles' = [handles EXCEPT ![op.fd] = Moved]
      /\ op' = CopyOf(Word(V, op.cluster), op.want, op.buf, Moved.offset)
      /\ UNCHANGED <<vol, recycled, last>> /\ V' = V
  BY DEF NextCluster, BlockReads, V
<1>2. /\ Standing(V, Moved) /\ Moved \in FileRecords /\ Moved.offset = File.offset + op.chunk
      /\ Moved.got = File.got /\ Moved.broken = File.broken /\ Moved.size = File.size
      /\ Moved.first = File.first /\ Moved.kind = "file"
      /\ op.at = "copy" /\ Len(op.buf) = op.done + op.chunk
      /\ Moved.offset + (op.want - (op.done + op.chunk)) <= Moved.size
  BY <1>1, MovedStands
<1>3. /\ op.fd \in Nat /\ op.want \in Nat /\ op.done \in Nat /\ op.chunk \in Nat
      /\ op.buf \in Seq(Nat) /\ Len(op.buf) \in Nat /\ File.offset \in Nat
      /\ op.done <= op.want /\ op.chunk <= op.want - op.done
      /\ (File.offset % ClusterSize(V)) \in 0..(ClusterSize(V) - 1)
      /\ \/ op.chunk = op.want - op.done
         \/ op.chunk = ClusterSize(V) - (File.offset % ClusterSize(V))
      /\ ~File.broken => Right(V, File.first, Len(File.got), op.buf)
  BY <1>2, CopyFacts
<1>4. PICK k \in 1..Len(Chain(V, File.first)) :
         /\ op.cluster = Chain(V, File.first)[k] /\ k \in Nat /\ k >= 1
         /\ File.offset \div ClusterSize(V) = k - 1
  BY <1>2, CopyFacts
<1>5. WellFormed(V) /\ IsHead(V, File.first) /\ File.size > 0 /\ op.fd \in DOMAIN handles
      /\ (File.broken \/ File.offset = Len(File.got) + op.done)
  BY <1>2, FileRead
<1>6. /\ Chain(V, File.first) \in V.chains /\ Len(Chain(V, File.first)) \in Nat
      /\ \A i \in 1..Len(Chain(V, File.first)) : Chain(V, File.first)[i] \in Nat
  BY <1>5, ChainFacts
<1>7. k < Len(Chain(V, File.first)) /\ Word(V, op.cluster) = Chain(V, File.first)[k + 1]
  <2>1. InPartition(V, FatBlock(V, Chain(V, File.first)[k])) /\ HasNext(V, Chain(V, File.first)[k])
    BY <1>1, <1>4
  <2>2. k = Len(Chain(V, File.first)) => ~HasNext(V, Chain(V, File.first)[k])
    BY <1>5, <1>6, <2>1, NextWord
  <2>3. k < Len(Chain(V, File.first))
    BY <1>4, <1>6, <2>1, <2>2
  <2>4. QED
    BY <1>4, <1>5, <1>6, <2>1, <2>3, NextWord
<1>8. k + 1 \in 1..Len(Chain(V, File.first)) /\ Word(V, op.cluster) \in Nat
  BY <1>4, <1>6, <1>7
<1>9. PICK done \in Nat : done = Len(op.buf) /\ done = op.done + op.chunk /\ done <= op.want
  BY <1>2, <1>3, SMTT(30)
<1>10. op.chunk = ClusterSize(V) - (File.offset % ClusterSize(V))
  <2>1. done # op.want
    BY <1>1, <1>9 DEF Complete
  <2>2. op.chunk # op.want - op.done
    BY <1>3, <1>9, <2>1
  <2>3. QED
    BY <1>3, <2>2
<1>11. Moved.offset \div ClusterSize(V) = (k + 1) - 1 /\ Moved.offset \in Nat
  <2>1. PICK size \in Nat \ {0} : size = ClusterSize(V)
    BY <1>5, ClusterFacts
  <2>2. PICK r \in 0..(size - 1) : r = (File.offset % size)
    BY <1>3, <2>1
  <2>3. File.offset = (k - 1) * size + r
    <3>1. File.offset = (File.offset \div size) * size + (File.offset % size)
      BY <1>3, DivFacts
    <3>2. QED
      BY <1>4, <2>1, <2>2, <3>1
  <2>4. PICK a \in Nat : a = k - 1
    BY <1>4
  <2>5. PICK p \in Nat : p = a * size
    BY OneMoreRow
  <2>6. p + size = (a + 1) * size /\ a + 1 = k
    BY <1>4, <2>4, <2>5, OneMoreRow
  <2>7. File.offset = p + r
    BY <2>3, <2>4, <2>5
  <2>8. Moved.offset = p + size
    <3>1. op.chunk = size - r
      BY <1>10, <2>1, <2>2
    <3>2. QED
      BY <1>2, <2>7, <3>1
  <2>9. k * size + 0 = p + size
    BY <2>6
  <2>10. (k * size + 0) \div size = k
    <3>1. 0 \in 0..(size - 1)
      OBVIOUS
    <3>2. QED
      BY <1>4, <3>1, DivUnique
  <2>11. Moved.offset = k * size + 0
    BY <2>8, <2>9
  <2>12. Moved.offset \div ClusterSize(V) = k
    BY <2>1, <2>10, <2>11
  <2>13. p + size \in Nat /\ (k + 1) - 1 = k
    BY <1>4
  <2>14. QED
    BY <2>8, <2>12, <2>13
<1>12. ChunkOf(V, op.want, done, Moved.offset) \in Nat
  BY <1>3, <1>5, <1>9, <1>11, ChunkFacts
<1>13. op' = [at |-> "copy", fd |-> op.fd, want |-> op.want, cluster |-> Word(V, op.cluster),
              buf |-> op.buf, done |-> done, chunk |-> ChunkOf(V, op.want, done, Moved.offset)]
  BY <1>1, <1>9 DEF CopyOf, Chunk, ChunkOf
<1>14. /\ op'.at = "copy" /\ op'.fd = op.fd /\ op'.want = op.want
       /\ op'.cluster = Word(V, op.cluster) /\ op'.buf = op.buf /\ op'.done = done
       /\ op'.chunk = ChunkOf(V, op.want, done, Moved.offset)
  BY <1>13
<1>15. op' \in CopyRecords
  BY <1>3, <1>8, <1>12, <1>13 DEF CopyRecords
<1>16. /\ op'.done <= Len(op'.buf) /\ Len(op'.buf) <= op'.done + op'.chunk /\ op'.done <= op'.want
       /\ Moved.offset + (op'.want - op'.done) <= Moved.size
  BY <1>2, <1>9, <1>12, <1>14
<1>17. CopyInv(V, Moved, op')
  BY <1>2, <1>3, <1>5, <1>7, <1>8, <1>11, <1>14, <1>15, <1>16 DEF CopyInv
<1>18. /\ DOMAIN handles' = DOMAIN handles /\ handles'[op.fd] = Moved
       /\ \A fd \in DOMAIN handles : handles'[fd] = IF fd = op.fd THEN Moved ELSE handles[fd]
  BY <1>1, <1>5
<1>19. OpInv'
  BY <1>1, <1>5, <1>14, <1>17, <1>18 DEF OpInv
<1>20. Moved.broken \/ Moved.offset = Len(Moved.got) + (IF op'.at = "copy" THEN op'.done ELSE 0)
  <2>1. ASSUME ~File.broken PROVE Moved.offset = Len(Moved.got) + done
    <3>1. PICK g \in Nat, d \in Nat, c \in Nat : g = Len(File.got) /\ d = op.done /\ c = op.chunk
      BY <1>2, <1>3, CopyFacts
    <3>2. Moved.offset = (g + d) + c /\ done = d + c /\ Len(Moved.got) = g
      BY <1>2, <1>5, <1>9, <2>1, <3>1
    <3>3. QED
      BY <3>2
  <2>2. QED
    BY <1>2, <1>14, <2>1
<1>21. vol' = vol /\ recycled' = recycled /\ LastInv(V, last')
  BY <1>1 DEF IInv
<1>22. QED
  BY <1>2, <1>14, <1>18, <1>19, <1>20, <1>21, FileChanges

-----------------------------------------------------------------------------
(* The theorems.                                                            *)

LEMMA InitHolds ==
    ASSUME Init
    PROVE  IInv
<1>1. vol \in DOMAIN Volumes /\ handles = [fd \in 0..2 |-> Console] /\ recycled = <<>>
      /\ op = Idle /\ last = Nothing
  BY DEF Init
<1>2. FdsInv
  <2>1. FdCount \in Nat /\ FdCount > 2
    BY DescriptorAssumption
  <2>2. <<>> \in Seq(0..(FdCount - 1)) /\ DOMAIN <<>> = {}
    OBVIOUS
  <2>3. recycled \in Seq(0..(FdCount - 1)) /\ DOMAIN recycled = {}
    BY <1>1, <2>2
  <2>4. Recycled = {}
    BY <2>3 DEF Recycled
  <2>5. 3 \in 0..FdCount /\ DOMAIN handles \cup Recycled = 0..(3 - 1)
    BY <1>1, <2>1, <2>4
  <2>6. \E n \in 0..FdCount : DOMAIN handles \cup Recycled = 0..(n - 1)
    BY <2>5
  <2>7. QED
    BY <2>3, <2>4, <2>6 DEF FdsInv
<1>3. HandlesInv
  BY <1>1 DEF HandlesInv
<1>4. OffsetInv
  BY <1>1 DEF OffsetInv, IsOpenFile, Console
<1>5. OpInv
  BY <1>1 DEF OpInv
<1>6. LastInv(V, last)
  BY <1>1 DEF LastInv, Nothing
<1>7. QED
  BY <1>1, <1>2, <1>3, <1>4, <1>5, <1>6 DEF IInv

LEMMA StepHolds ==
    ASSUME IInv, [Next]_vars
    PROVE  IInv'
<1>1. CASE OpenCall \/ OpenRoot \/ ListCall \/ ListSlashes
  BY <1>1, CallBegins
<1>2. CASE CloseCall
  BY <1>2, CloseStep
<1>3. CASE ReadCall
  BY <1>3, ReadStarts
<1>4. CASE Kernel
  <2>1. CASE ScanSector \/ ScanFails \/ FollowDir
    BY <2>1, ScanStep
  <2>2. CASE NameFails
    BY <2>2, NameStep
  <2>3. CASE MatchFails
    BY <2>3, MatchStep
  <2>4. CASE Descend
    BY <2>4, DescendStep
  <2>5. CASE OpenFile
    BY <2>5, OpenStep
  <2>6. CASE ListEnds
    BY <2>6, ListStep
  <2>7. CASE Seek
    BY <2>7, SeekStep
  <2>8. CASE SeekFails
    BY <2>8, SeekFailStep
  <2>9. CASE Seeked
    BY <2>9, SeekedStep
  <2>10. CASE CopySector
    BY <2>10, CopyStep
  <2>11. CASE CopyFails
    BY <2>11, CopyFailStep
  <2>12. CASE ReadEnds
    BY <2>12, ReadEndStep
  <2>13. CASE NextCluster
    BY <2>13, NextStep
  <2>14. CASE NextClusterFails
    BY <2>14, NextFailStep
  <2>15. QED
    BY <1>4, <2>1, <2>2, <2>3, <2>4, <2>5, <2>6, <2>7, <2>8, <2>9, <2>10, <2>11, <2>12, <2>13,
       <2>14 DEF Kernel
<1>5. CASE UNCHANGED vars
  BY <1>5 DEF vars, IInv, FdsInv, Recycled, HandlesInv, OffsetInv, Pending, IsOpenFile, OpInv, V
<1>6. QED
  BY <1>1, <1>2, <1>3, <1>4, <1>5 DEF Next

LEMMA Inductive == Spec => []IInv
<1>1. Init => IInv
  BY InitHolds
<1>2. IInv /\ [Next]_vars => IInv'
  BY StepHolds
<1>3. QED
  BY <1>1, <1>2, PTL DEF Spec

(* Descriptors are bytes, handles are the console or files, an offset never *)
(* passes the end of its file (resource.rs:19-58, file.rs:145-212).         *)
THEOREM FilesTypes == Spec => []TypeOK
<1>1. IInv => TypeOK
  <2> SUFFICES ASSUME IInv PROVE TypeOK
    OBVIOUS
  <2>1. vol \in DOMAIN Volumes
    BY DEF IInv
  <2>2. DOMAIN handles \subseteq 0..(FdCount - 1)
    BY DescriptorAssumption DEF IInv, FdsInv
  <2>3. ASSUME NEW fd \in DOMAIN handles, handles[fd] # Console
        PROVE  IsOpenFile(fd) /\ handles[fd].offset \in 0..handles[fd].size
    <3>1. handles[fd] \in FileRecords /\ handles[fd].offset <= handles[fd].size
      BY <2>3 DEF IInv, HandlesInv, Standing
    <3>2. QED
      BY <3>1 DEF FileRecords, IsOpenFile
  <2>4. \A i \in DOMAIN recycled : recycled[i] \in 0..(FdCount - 1)
    <3>1. \A S : recycled \in Seq(S) => \A i \in DOMAIN recycled : recycled[i] \in S
      OBVIOUS
    <3>2. recycled \in Seq(0..(FdCount - 1))
      BY DEF IInv, FdsInv
    <3>3. QED
      BY <3>1, <3>2, Zenon
  <2>5. op.at \in {"idle", "panic", "scan", "follow", "match", "seek", "copy"}
    BY OpIs
  <2>6. QED
    BY <2>1, <2>2, <2>3, <2>4, <2>5 DEF TypeOK
<1>2. QED
  BY <1>1, Inductive, PTL

(* Whatever calls are made and whichever blocks fail, the reads of a file   *)
(* deliver its bytes in order, each once, until one of them fails           *)
(* (file.rs:145-212).                                                       *)
THEOREM ReadsDeliver == Spec => []ReadsInOrder
<1>1. IInv => ReadsInOrder
  <2> SUFFICES ASSUME IInv, NEW fd \in DOMAIN handles, handles[fd].kind = "file", ~handles[fd].broken
               PROVE  /\ \A i \in DOMAIN handles[fd].got :
                            /\ i <= Stored(V, handles[fd].first)
                            /\ handles[fd].got[i] = FileByte(V, handles[fd].first, i - 1)
                      /\ OpIdle => handles[fd].offset = Len(handles[fd].got)
    BY DEF ReadsInOrder, IsOpenFile
  <2>1. PICK h : h = handles[fd]
    OBVIOUS
  <2>2. h # Console
    BY <2>1 DEF Console
  <2>3. Standing(V, h)
    BY <2>1, <2>2 DEF IInv, HandlesInv
  <2>4. h.got \in Seq(Nat) /\ Len(h.got) \in Nat /\ DOMAIN h.got = 1..Len(h.got)
    BY <2>3 DEF Standing, FileRecords
  <2>5. ASSUME NEW i \in DOMAIN h.got
        PROVE  i <= Stored(V, h.first) /\ h.got[i] = FileByte(V, h.first, i - 1)
    <3>1. 0 + i <= Stored(V, h.first) /\ h.got[i] = FileByte(V, h.first, 0 + i - 1)
      BY <2>3, <2>5 DEF Standing, Right
    <3>2. 0 + i = i /\ 0 + i - 1 = i - 1
      BY <2>4, <2>5
    <3>3. QED
      BY <3>1, <3>2
  <2>6. OpIdle => h.offset = Len(h.got)
    <3>1. OpIdle => op.at # "copy"
      BY DEF OpIdle
    <3>2. OpIdle => h.offset = Len(h.got) + 0
      BY <2>1, <3>1 DEF IInv, OffsetInv, IsOpenFile, Pending
    <3>3. QED
      BY <2>4, <3>2
  <2>7. QED
    BY <2>1, <2>5, <2>6
<1>2. QED
  BY <1>1, Inductive, PTL

(* A descriptor stands for the file its path leads to, and a file is only   *)
(* reported missing if it is (impls.rs:167-204).                            *)
THEOREM OpenIsRight == Spec => []OpenFindsPath
<1>1. IInv => OpenFindsPath
  <2> SUFFICES ASSUME IInv PROVE OpenFindsPath
    OBVIOUS
  <2>1. ASSUME NEW fd \in DOMAIN handles, handles[fd].kind = "file"
        PROVE  Names(V, handles[fd])
    <3>1. handles[fd] # Console
      BY <2>1 DEF Console
    <3>2. QED
      BY <3>1 DEF IInv, HandlesInv, Standing
  <2>2. LastInv(V, last)
    BY DEF IInv
  <2>3. QED
    BY <2>1, <2>2 DEF OpenFindsPath, Names, LastInv, IsOpenFile
<1>2. QED
  BY <1>1, Inductive, PTL

(* A listing names all a directory shows, in order, and is refused only     *)
(* where there is no directory, or for the root written with several        *)
(* slashes (impls.rs:101-165, 276-287).                                     *)
THEOREM ListIsRight == Spec => []ListShowsAll
<1>1. IInv => ListShowsAll
  BY DEF IInv, LastInv, ListShowsAll
<1>2. QED
  BY <1>1, Inductive, PTL

LEMMA OthersLeft ==
    ASSUME IInv, [Next]_vars, NEW fd \in DOMAIN handles \cap DOMAIN handles',
           handles'[fd] # handles[fd]
    PROVE  \/ op.at \in {"seek", "copy"} /\ op.fd = fd
           \/ op.at = "match" /\ AllInUse /\ fd = 0
<1>1. ASSUME op.at \in {"seek", "copy"}, NEW h, handles' = [handles EXCEPT ![op.fd] = h]
      PROVE  op.at \in {"seek", "copy"} /\ op.fd = fd
  BY <1>1
<1>2. CASE OpenCall \/ OpenRoot \/ ListCall \/ ListSlashes \/ ReadCall \/ UNCHANGED vars
  BY <1>2 DEF OpenCall, OpenRoot, ListCall, ListSlashes, ReadCall, vars
<1>3. CASE CloseCall
  BY <1>3 DEF CloseCall
<1>4. CASE Kernel
  <2>1. CASE \/ ScanSector \/ ScanFails \/ FollowDir \/ NameFails \/ MatchFails \/ Descend
             \/ ListEnds \/ Seek \/ Seeked \/ CopySector
    BY <2>1 DEF ScanSector, ScanFails, FollowDir, NameFails, MatchFails, Descend, ListEnds,
       Seek, Seeked, CopySector
  <2>2. CASE OpenFile
    <3>1. op.at = "match"
      BY <2>2 DEF OpenFile, Looks
    <3>2. fd = FreeFd
      BY <2>2 DEF OpenFile
    <3>3. FreeFd = 0 /\ AllInUse
      BY <3>2, FreeFdIsFree DEF IInv
    <3>4. QED
      BY <3>1, <3>2, <3>3
  <2>3. CASE SeekFails
    BY <1>1, <2>3 DEF SeekFails, ReadFails
  <2>4. CASE CopyFails
    BY <1>1, <2>4 DEF CopyFails, ReadFails
  <2>5. CASE ReadEnds
    BY <1>1, <2>5 DEF ReadEnds, ReadReturns, ChunkEnds
  <2>6. CASE NextCluster
    BY <1>1, <2>6 DEF NextCluster, ChunkEnds
  <2>7. CASE NextClusterFails
    BY <1>1, <2>7 DEF NextClusterFails, ReadFails, ChunkEnds
  <2>8. QED
    BY <1>4, <2>1, <2>2, <2>3, <2>4, <2>5, <2>6, <2>7 DEF Kernel
<1>5. QED
  BY <1>2, <1>3, <1>4 DEF Next

(* A call changes no descriptor but the one it is given, and only to        *)
(* advance its file; an open takes one that is free, through any history of *)
(* opens and closes, until every number is in use: then, and only then, it  *)
(* takes number 0 away from whoever has it (resource.rs:35-42).             *)
THEOREM OthersStay == Spec => OpenLeavesOthers
<1>1. IInv /\ [Next]_vars =>
        [\A fd \in DOMAIN handles \cap DOMAIN handles' :
            handles'[fd] # handles[fd] =>
                \/ op.at \in {"seek", "copy"} /\ op.fd = fd
                \/ op.at = "match" /\ AllInUse /\ fd = 0]_vars
  BY OthersLeft
<1>2. Spec => []IInv /\ [][Next]_vars
  BY Inductive, PTL DEF Spec
<1>3. QED
  BY <1>1, <1>2, PTL DEF OpenLeavesOthers

-----------------------------------------------------------------------------
(* The ATA driver and its drives.                                           *)
Words    == {w \in Nat : w < 65536}
Sectors  == [1..SectorWords -> Words]
Ready    == {"DRDY"}
Error    == {"DRDY", "ERR"}
Asking   == {"DRDY", "DRQ"}
Busy     == {"BUSY"}
Statuses == {{}, Ready, Error, Asking, Busy}
Labels   == {"idle", "empty", "not_busy", "no_error", "still_not_busy", "request",
             "identified", "signature", "data", "moved"}
Tasks    == [cmd : {"none", "IdentifyDevice", "ReadPio", "WritePio"}, lba : Blocks \cup {0},
             words : Seq(Words), signature : Bytes \X Bytes]

(* The type invariant of the bus and its drives.                            *)
BusTypes ==
    /\ kind \in [Drives -> Kinds]
    /\ medium \in [Drives -> [Blocks -> Sectors]]
    /\ status \in [Drives -> Statuses]
    /\ \A d \in Drives : status[d] = {} <=> kind[d] = "absent"
    /\ task \in [Drives -> Tasks]
    /\ opened \subseteq Supported
    /\ buf \in Seq(Bytes)
    /\ pc \in Labels

(* There is a request exactly while there is a call, the registers select   *)
(* the drive it is for, and only an open drive is read or written.          *)
CallTypes ==
    IF pc = "idle" THEN req = NoCall
    ELSE /\ req \in Calls /\ Selected = req.drive
         /\ req.op # "open" => req.drive \in opened /\ req.block \in Blocks
         /\ req.op = "write" => req.data \in Contents
         /\ pc \in {"data", "moved"} => heard
         /\ pc \in {"identified", "signature"} => req.op = "open" /\ "DRQ" \in Status

(* The drive has all of a sector that is not yet on its medium.             *)
Owes(d) == task[d].cmd = "WritePio" /\ Received(d)

(* Drive d took the command of the call in progress.                        *)
Taken(d) == pc # "idle" /\ heard /\ req.drive = d

(* A drive that works on no call either owes a sector, or is ready, or      *)
(* waits for somebody to fetch the identification of an unsupported drive.  *)
Leftover(d) ==
    /\ task[d].cmd = "IdentifyDevice" /\ task[d].signature = Signature(kind[d])
    /\ task[d].signature # NoSignature

Resting(d) ==
    \/ status[d] = Busy /\ Owes(d) /\ task[d].lba \in Blocks
    \/ status[d] \in {{}, Ready, Error} /\ ~Owes(d)
    \/ status[d] = Asking /\ Leftover(d)

(* The task of d is the command of the call.                                *)
OnCall(d) == task[d].cmd = CommandOf(req.op) /\ task[d].lba = req.block

Started(d) == OnCall(d) /\ task[d].words = <<>> /\ buf = <<>>

(* The words still in the drive are the last of the sector, and the bytes   *)
(* in the buffer the first.                                                 *)
Reading(b, words, sector) ==
    /\ Len(words) \in 1..SectorWords
    /\ Len(b) + 2 * Len(words) = 2 * SectorWords
    /\ \A i \in 1..Len(words) : words[i] = sector[SectorWords - Len(words) + i]
    /\ \A i \in 1..Len(b) : b[i] = InBytes(sector)[i]

(* The words in the drive are the first of the data.                        *)
Writing(b, words, data) ==
    /\ Len(words) < SectorWords /\ Len(b) = 2 * Len(words)
    /\ \A i \in 1..Len(words) : words[i] = FromLe(data[2 * i - 1], data[2 * i])

Moving(d) ==
    /\ OnCall(d)
    /\ pc # "data" => buf = <<>>
    /\ req.op = "read"  => Reading(buf, task[d].words, medium[d][req.block])
    /\ req.op = "write" => Writing(buf, task[d].words, req.data)
    /\ req.op = "open"  =>
        /\ Reading(buf, task[d].words, Identity)
        /\ task[d].signature = Signature(kind[d]) /\ kind[d] # "packet"
        /\ pc = "data" => kind[d] = "pata"

WordsMoved(d) ==
    /\ \/ status[d] = Busy /\ Owes(d) /\ task[d].lba \in Blocks /\ req.op = "write"
       \/ status[d] \in {Ready, Error} /\ ~Owes(d)
    /\ req.op = "read" => buf = InBytes(medium[d][req.block])
    /\ req.op = "open" => kind[d] = "pata"

Serving(d) ==
    \/ pc \in {"empty", "not_busy"} /\ status[d] = Busy /\ Started(d)
    \/ pc \in {"empty", "not_busy", "no_error"} /\ status[d] = Error /\ ~Owes(d)
    \/ pc \notin {"idle", "moved"} /\ status[d] = Asking /\ Moving(d)
    \/ pc = "moved" /\ WordsMoved(d)

DriveOk(d) == IF Taken(d) THEN Serving(d) ELSE Resting(d)

(* The inductive invariant.                                                 *)
BusInv == BusTypes /\ CallTypes /\ \A d \in Drives : DriveOk(d)

-----------------------------------------------------------------------------
(* The integers a register and a block number may be.                       *)
LEMMA ByteIs == \A n : n \in Bytes <=> (n \in Nat /\ n < 256)
BY SMT DEF Bytes

LEMMA LbaIs == LBA28 \in Nat /\ LBA28 <= 268435456
BY SMT DEF LBA28

LEMMA BlockIs == ASSUME NEW b \in Blocks \cup {0} PROVE b \in Nat /\ b < 268435456
<1>1. CASE b = 0
  BY <1>1, SMT
<1>2. CASE b \in Blocks
  <2>1. b \in Nat /\ b < LBA28
    BY <1>2, BlockAssumption, LbaIs
  <2>2. QED
    BY <2>1, LbaIs, SMT
<1>3. QED
  BY <1>1, <1>2

(* The registers say the drive and the block that write_command put into    *)
(* them.                                                                    *)
LEMMA SelectedByRegisters ==
    ASSUME NEW d \in Drives, NEW b \in Nat, NEW c
    PROVE  SelectedBy(Registers(d, b, c)) = d
BY SMT DEF SelectedBy, Registers, Drives, Byte

LEMMA LbaOfRegisters ==
    ASSUME NEW d \in Drives, NEW b \in Nat, b < 268435456, NEW c
    PROVE  LbaOf(Registers(d, b, c)) = b
<1>1. Registers(d, b, c).low = b % 256
  BY SMT DEF Registers, Byte
<1>2. Registers(d, b, c).mid = (b \div 256) % 256
  BY SMT DEF Registers, Byte
<1>3. Registers(d, b, c).high = (b \div 65536) % 256
  BY SMT DEF Registers, Byte
<1>4. Registers(d, b, c).drive % 16 = b \div 16777216
  BY SMT DEF Registers, Byte, Drives
<1>5. b = (b % 256) + 256 * (b \div 256)
  BY SMT
<1>6. b \div 256 = ((b \div 256) % 256) + 256 * (b \div 65536)
  BY SMT
<1>7. b \div 65536 = ((b \div 65536) % 256) + 256 * (b \div 16777216)
  BY SMT
<1>8. QED
  BY <1>1, <1>2, <1>3, <1>4, <1>5, <1>6, <1>7, SMT DEF LbaOf

(* A word and its two bytes.                                                *)
LEMMA ByteRoundTrip ==
    ASSUME NEW lo \in Bytes, NEW hi \in Bytes
    PROVE  FromLe(lo, hi) \in Words /\ ToLe(FromLe(lo, hi)) = <<lo, hi>>
<1>1. lo \in Nat /\ lo < 256 /\ hi \in Nat /\ hi < 256
  BY ByteIs
<1>2. FromLe(lo, hi) \in Words
  BY <1>1, SMT DEF FromLe, Words
<1>3. (lo + 256 * hi) % 256 = lo /\ (lo + 256 * hi) \div 256 = hi
  BY <1>1, SMT
<1>4. QED
  BY <1>2, <1>3 DEF FromLe, ToLe

LEMMA WordInBytes ==
    ASSUME NEW w \in Words PROVE ToLe(w) \in Seq(Bytes) /\ Len(ToLe(w)) = 2
<1>1. w % 256 \in Bytes /\ w \div 256 \in Bytes
  BY ByteIs, SMT DEF Words
<1>2. QED
  BY <1>1 DEF ToLe

-----------------------------------------------------------------------------
(* Sectors and buffers.                                                     *)

(* A sector, as words and as bytes.                                         *)
LEMMA SectorFacts ==
    ASSUME NEW s \in Sectors
    PROVE  /\ s \in Seq(Words) /\ Len(s) = SectorWords /\ SectorWords \in Nat \ {0}
           /\ InBytes(s) \in [1..(2 * SectorWords) -> Bytes]
<1>1. SectorWords \in Nat \ {0}
  BY SectorAssumption
<1>2. s \in Seq(Words) /\ Len(s) = SectorWords
  BY <1>1 DEF Sectors
<1>3. ASSUME NEW i \in 1..(2 * SectorWords)
      PROVE  ToLe(s[(i + 1) \div 2])[2 - (i % 2)] \in Bytes
  <2>1. (i + 1) \div 2 \in 1..SectorWords /\ 2 - (i % 2) \in {1, 2}
    BY <1>1
  <2>2. ToLe(s[(i + 1) \div 2]) \in Seq(Bytes) /\ Len(ToLe(s[(i + 1) \div 2])) = 2
    BY <2>1, WordInBytes DEF Sectors
  <2>3. QED
    BY <2>1, <2>2
<1>4. QED
  BY <1>1, <1>2, <1>3 DEF InBytes

LEMMA InBytesAt ==
    ASSUME NEW s \in Sectors, NEW n \in 1..SectorWords
    PROVE  /\ InBytes(s)[2 * n - 1] = ToLe(s[n])[1]
           /\ InBytes(s)[2 * n] = ToLe(s[n])[2]
<1>1. Len(s) = SectorWords /\ SectorWords \in Nat
  BY SectorFacts
<1>2. /\ 2 * n - 1 \in 1..(2 * Len(s)) /\ 2 * n \in 1..(2 * Len(s))
      /\ (2 * n - 1 + 1) \div 2 = n /\ (2 * n + 1) \div 2 = n
      /\ 2 - ((2 * n - 1) % 2) = 1 /\ 2 - ((2 * n) % 2) = 2
  BY <1>1
<1>3. QED
  BY <1>2 DEF InBytes

(* Two bytes at the end of a buffer.                                        *)
LEMMA TwoMore ==
    ASSUME NEW b \in Seq(Bytes), NEW t \in Seq(Bytes), Len(t) = 2
    PROVE  /\ b \o t \in Seq(Bytes) /\ Len(b \o t) = Len(b) + 2 /\ Len(b) \in Nat
           /\ \A i \in 1..Len(b) : (b \o t)[i] = b[i]
           /\ (b \o t)[Len(b) + 1] = t[1] /\ (b \o t)[Len(b) + 2] = t[2]
<1>1. Len(b) \in Nat
  BY LenProperties
<1>2. /\ b \o t \in Seq(Bytes) /\ Len(b \o t) = Len(b) + Len(t)
      /\ \A i \in 1..(Len(b) + Len(t)) :
            (b \o t)[i] = IF i <= Len(b) THEN b[i] ELSE t[i - Len(b)]
  BY ConcatProperties
<1>3. (b \o t)[Len(b) + 1] = t[1]
  <2>1. Len(b) + 1 \in 1..(Len(b) + Len(t)) /\ ~(Len(b) + 1 <= Len(b))
    BY <1>1
  <2>2. Len(b) + 1 - Len(b) = 1
    BY <1>1
  <2>3. QED
    BY <2>1, <2>2, <1>2
<1>4. (b \o t)[Len(b) + 2] = t[2]
  <2>1. Len(b) + 2 \in 1..(Len(b) + Len(t)) /\ ~(Len(b) + 2 <= Len(b))
    BY <1>1
  <2>2. Len(b) + 2 - Len(b) = 2
    BY <1>1
  <2>3. QED
    BY <2>1, <2>2, <1>2
<1>5. ASSUME NEW i \in 1..Len(b) PROVE (b \o t)[i] = b[i]
  <2>1. i \in 1..(Len(b) + Len(t)) /\ i <= Len(b)
    BY <1>1
  <2>2. QED
    BY <2>1, <1>2
<1>6. QED
  BY <1>1, <1>2, <1>3, <1>4, <1>5

(* The arithmetic of a sector half moved.                                   *)
LEMMA CountDown ==
    ASSUME NEW n \in Nat, NEW k \in Nat, NEW all \in Nat, n + 2 * k = 2 * all
    PROVE  /\ (n + 2) + 2 * (k - 1) = 2 * all
           /\ k = 1 => n + 2 = 2 * all
OBVIOUS

(* One word read takes the buffer b to c.                                   *)
WordRead(b, c, words, s) ==
    /\ c \in Seq(Bytes) /\ Len(c) = Len(b) + 2
    /\ Tail(words) \in Seq(Words) /\ Len(Tail(words)) = Len(words) - 1
    /\ Len(words) = 1 => c = InBytes(s)
    /\ Len(words) # 1 => Reading(c, Tail(words), s)

(* One more word read, and one more word written.                           *)
LEMMA ReadWord ==
    ASSUME NEW b \in Seq(Bytes), NEW words \in Seq(Words), NEW s \in Sectors,
           Reading(b, words, s), NEW c, c = b \o ToLe(Head(words))
    PROVE  WordRead(b, c, words, s)
<1>1. /\ s \in Seq(Words) /\ Len(s) = SectorWords /\ SectorWords \in Nat \ {0}
      /\ InBytes(s) \in [1..(2 * SectorWords) -> Bytes]
  BY SectorFacts
<1>2. /\ Len(words) \in 1..SectorWords /\ Len(b) + 2 * Len(words) = 2 * SectorWords
      /\ \A i \in 1..Len(words) : words[i] = s[SectorWords - Len(words) + i]
      /\ \A i \in 1..Len(b) : b[i] = InBytes(s)[i]
  BY DEF Reading
<1>3. words # <<>> /\ Head(words) = words[1] /\ Head(words) \in Words
  BY <1>1, <1>2
<1>4. /\ Tail(words) \in Seq(Words) /\ Len(Tail(words)) = Len(words) - 1
      /\ \A i \in 1..Len(Tail(words)) : Tail(words)[i] = words[i + 1]
  BY <1>3, HeadTailProperties
<1>5. ToLe(Head(words)) \in Seq(Bytes) /\ Len(ToLe(Head(words))) = 2
  BY <1>3, WordInBytes
<1>6. PICK n \in 1..SectorWords : Len(b) = 2 * n - 2 /\ Head(words) = s[n]
  <2>1. /\ SectorWords - Len(words) + 1 \in 1..SectorWords
        /\ Len(b) = 2 * (SectorWords - Len(words) + 1) - 2
        /\ Head(words) = s[SectorWords - Len(words) + 1]
    BY <1>1, <1>2, <1>3
  <2>2. QED
    BY <2>1
<1>7. /\ c \in Seq(Bytes) /\ Len(c) = 2 * n
      /\ \A i \in 1..(2 * n - 2) : c[i] = b[i]
      /\ c[2 * n - 1] = ToLe(s[n])[1] /\ c[2 * n] = ToLe(s[n])[2]
  <2>1. Len(b) + 2 = 2 * n /\ Len(b) + 1 = 2 * n - 1 /\ Len(b) = 2 * n - 2
    BY <1>6
  <2> DEFINE t == ToLe(Head(words))
  <2>2. t \in Seq(Bytes) /\ Len(t) = 2 /\ c = b \o t /\ t = ToLe(s[n])
    BY <1>5, <1>6
  <2> HIDE DEF t
  <2>3. /\ c \in Seq(Bytes) /\ Len(c) = Len(b) + 2
        /\ \A i \in 1..Len(b) : c[i] = b[i]
        /\ c[Len(b) + 1] = t[1] /\ c[Len(b) + 2] = t[2]
    <3>1. b \in Seq(Bytes) /\ t \in Seq(Bytes) /\ Len(t) = 2
      BY <2>2
    <3>2. /\ b \o t \in Seq(Bytes) /\ Len(b \o t) = Len(b) + 2
          /\ \A i \in 1..Len(b) : (b \o t)[i] = b[i]
          /\ (b \o t)[Len(b) + 1] = t[1] /\ (b \o t)[Len(b) + 2] = t[2]
      BY <3>1, TwoMore, Zenon
    <3>3. QED
      BY <2>2, <3>2, Zenon
  <2>4. Len(c) = 2 * n /\ \A i \in 1..(2 * n - 2) : c[i] = b[i]
    BY <2>1, <2>3, Zenon
  <2>5. c[2 * n - 1] = t[1] /\ c[2 * n] = t[2]
    BY <2>1, <2>3, Zenon
  <2>6. QED
    BY <2>2, <2>3, <2>4, <2>5
<1>8. InBytes(s)[2 * n - 1] = ToLe(s[n])[1] /\ InBytes(s)[2 * n] = ToLe(s[n])[2]
  BY <1>6, InBytesAt
<1>6a. Len(c) = Len(b) + 2 /\ Len(b) \in Nat /\ Len(words) \in Nat
  BY <1>2, <1>6, <1>7
<1>9. \A i \in 1..Len(c) : c[i] = InBytes(s)[i]
  <2>1. ASSUME NEW i \in 1..Len(c) PROVE c[i] = InBytes(s)[i]
    <3>1. i \in 1..(2 * n - 2) \/ i = 2 * n - 1 \/ i = 2 * n
      BY <1>6, <1>7
    <3>2. CASE i \in 1..(2 * n - 2)
      <4>1. 1..(2 * n - 2) = 1..Len(b)
        BY <1>6
      <4>2. QED
        BY <4>1, <3>2, <1>2, <1>7
    <3>3. QED
      BY <3>1, <3>2, <1>7, <1>8
  <2>2. QED
    BY <2>1
<1>10. ASSUME Len(words) = 1 PROVE c = InBytes(s)
  <2>1. Len(c) = 2 * SectorWords
    BY <1>1, <1>2, <1>6a, <1>10, CountDown
  <2>2. c \in [1..(2 * SectorWords) -> Bytes]
    BY <2>1, <1>7, LenProperties
  <2>3. QED
    BY <2>1, <2>2, <1>1, <1>9, SMTT(30)
<1>11. ASSUME Len(words) # 1 PROVE Reading(c, Tail(words), s)
  <2>1. Len(Tail(words)) \in 1..SectorWords
    BY <1>1, <1>2, <1>4, <1>11
  <2>2. Len(c) + 2 * Len(Tail(words)) = 2 * SectorWords
    <3>1. (Len(b) + 2) + 2 * (Len(words) - 1) = 2 * SectorWords
      BY <1>1, <1>2, <1>6a, CountDown
    <3>2. QED
      BY <3>1, <1>4, <1>6a, Zenon
  <2>3. ASSUME NEW i \in 1..Len(Tail(words))
        PROVE  Tail(words)[i] = s[SectorWords - Len(Tail(words)) + i]
    <3>1. i + 1 \in 1..Len(words)
      BY <2>1, <1>2, <1>4
    <3>2. SectorWords - Len(words) + (i + 1) = SectorWords - Len(Tail(words)) + i
      BY <1>1, <1>2, <1>4
    <3>3. QED
      BY <3>1, <3>2, <1>2, <1>4
  <2>4. QED
    BY <2>1, <2>2, <2>3, <1>9 DEF Reading
<1>12. QED
  BY <1>4, <1>6a, <1>7, <1>10, <1>11 DEF WordRead

(* One word written takes the words of the drive to more.                   *)
WordWritten(b, c, words, more, data) ==
    /\ c \in Seq(Bytes) /\ Len(c) = Len(b) + 2
    /\ more \in Seq(Words) /\ Len(more) = Len(words) + 1
    /\ Len(more) = SectorWords => InBytes(more) = data
    /\ Len(more) # SectorWords => Writing(c, more, data)

LEMMA WriteWord ==
    ASSUME NEW b \in Seq(Bytes), NEW words \in Seq(Words), NEW data \in Contents,
           Writing(b, words, data), NEW c, NEW more,
           c = b \o <<data[Len(b) + 1], data[Len(b) + 2]>>,
           more = Append(words, FromLe(data[Len(b) + 1], data[Len(b) + 2]))
    PROVE  WordWritten(b, c, words, more, data)
<1> DEFINE n == Len(words) + 1
<1>1. SectorWords \in Nat \ {0} /\ data \in [1..(2 * SectorWords) -> Bytes]
  BY SectorAssumption
<1>2. /\ Len(words) \in Nat /\ Len(words) < SectorWords /\ Len(b) = 2 * Len(words)
      /\ \A i \in 1..Len(words) : words[i] = FromLe(data[2 * i - 1], data[2 * i])
  BY LenProperties DEF Writing
<1>3. /\ n \in 1..SectorWords /\ Len(b) + 1 = 2 * n - 1 /\ Len(b) + 2 = 2 * n
      /\ 2 * n - 1 \in 1..(2 * SectorWords) /\ 2 * n \in 1..(2 * SectorWords)
  BY <1>1, <1>2
<1>4. data[2 * n - 1] \in Bytes /\ data[2 * n] \in Bytes
  BY <1>1, <1>3
<1>5. /\ <<data[2 * n - 1], data[2 * n]>> \in Seq(Bytes)
      /\ Len(<<data[2 * n - 1], data[2 * n]>>) = 2
  BY <1>4
<1>6. FromLe(data[2 * n - 1], data[2 * n]) \in Words
  BY <1>4, ByteRoundTrip
<1>7. c \in Seq(Bytes) /\ Len(c) = 2 * n
  BY <1>3, <1>5, TwoMore
<1>8. /\ more \in Seq(Words) /\ Len(more) = n
      /\ \A i \in 1..Len(words) : more[i] = words[i]
      /\ more[n] = FromLe(data[2 * n - 1], data[2 * n])
  <2> DEFINE w == FromLe(data[2 * n - 1], data[2 * n])
  <2>1. w \in Words /\ more = Append(words, w)
    BY <1>3, <1>6
  <2> HIDE DEF w
  <2>2. /\ more \in Seq(Words) /\ Len(more) = Len(words) + 1
        /\ \A i \in 1..Len(words) : more[i] = words[i]
        /\ more[Len(words) + 1] = w
    BY <2>1, AppendProperties
  <2>3. QED
    BY <2>2 DEF w
<1>9. \A i \in 1..n : more[i] = FromLe(data[2 * i - 1], data[2 * i])
  BY <1>2, <1>8
<1>10. ASSUME Len(more) = SectorWords PROVE InBytes(more) = data
  <2>1. more \in Sectors
    BY <1>8, <1>10, LenProperties DEF Sectors
  <2>2. InBytes(more) \in [1..(2 * SectorWords) -> Bytes]
    BY <2>1, SectorFacts
  <2>3. ASSUME NEW i \in 1..(2 * SectorWords) PROVE InBytes(more)[i] = data[i]
    <3>1. PICK m \in 1..SectorWords : i = 2 * m - 1 \/ i = 2 * m
      <4>1. (i + 1) \div 2 \in 1..SectorWords
        BY <1>1
      <4>2. i = 2 * ((i + 1) \div 2) - 1 \/ i = 2 * ((i + 1) \div 2)
        BY <1>1
      <4>3. QED
        BY <4>1, <4>2
    <3>2. data[2 * m - 1] \in Bytes /\ data[2 * m] \in Bytes
      BY <1>1
    <3>3. more[m] = FromLe(data[2 * m - 1], data[2 * m])
      BY <1>8, <1>9, <1>10
    <3>4. ToLe(more[m]) = <<data[2 * m - 1], data[2 * m]>>
      BY <3>2, <3>3, ByteRoundTrip
    <3>5. InBytes(more)[2 * m - 1] = ToLe(more[m])[1] /\ InBytes(more)[2 * m] = ToLe(more[m])[2]
      BY <2>1, InBytesAt
    <3>6. ToLe(more[m])[1] = data[2 * m - 1] /\ ToLe(more[m])[2] = data[2 * m]
      BY <3>4
    <3>7. CASE i = 2 * m - 1
      BY <3>5, <3>6, <3>7
    <3>8. CASE i = 2 * m
      BY <3>5, <3>6, <3>8
    <3>9. QED
      BY <3>1, <3>7, <3>8
  <2>4. QED
    BY <2>2, <2>3, <1>1
<1>11. ASSUME Len(more) # SectorWords PROVE Writing(c, more, data)
  <2>1. Len(more) < SectorWords
    BY <1>1, <1>2, <1>8, <1>11
  <2>2. Len(c) = 2 * Len(more)
    BY <1>7, <1>8
  <2>3. \A i \in 1..Len(more) : more[i] = FromLe(data[2 * i - 1], data[2 * i])
    BY <1>8, <1>9
  <2>4. QED
    BY <2>1, <2>2, <2>3, Zenon DEF Writing
<1>12. Len(c) = Len(b) + 2 /\ Len(more) = Len(words) + 1
  BY <1>3, <1>7, <1>8
<1>13. QED
  BY <1>7, <1>8, <1>10, <1>11, <1>12 DEF WordWritten

-----------------------------------------------------------------------------
(* What a status register says.                                             *)
LEMMA StatusFacts ==
    ASSUME NEW s \in Statuses
    PROVE  /\ "BUSY" \in s <=> s = Busy
           /\ "DRQ" \in s <=> s = Asking
           /\ "ERR" \in s <=> s = Error
BY DEF Statuses, Busy, Asking, Error, Ready

(* The values a status register takes are different.                        *)
LEMMA StatusesDiffer ==
    /\ Busy # Asking /\ Busy # Error /\ Busy # Ready /\ Busy # {}
    /\ Asking # Error /\ Asking # Ready /\ Asking # {}
    /\ Error # Ready /\ Error # {} /\ Ready # {}
    /\ {Busy, Asking, Error, Ready, {}} = Statuses
<1>1. /\ "BUSY" \in Busy /\ "BUSY" \notin Asking /\ "BUSY" \notin Error /\ "BUSY" \notin Ready
      /\ "DRQ" \in Asking /\ "DRQ" \notin Error /\ "DRQ" \notin Ready
      /\ "ERR" \in Error /\ "ERR" \notin Ready /\ "DRDY" \in Ready /\ "DRDY" \in Error
  BY DEF Busy, Asking, Error, Ready
<1>2. {Busy, Asking, Error, Ready, {}} = Statuses
  BY DEF Statuses
<1>3. QED
  BY <1>1, <1>2

(* The drive of a call.                                                     *)
LEMMA CallFacts ==
    ASSUME BusInv, pc # "idle"
    PROVE  /\ req \in Calls /\ req.drive \in Drives /\ Selected = req.drive
           /\ Status = status[req.drive] /\ Status \in Statuses
           /\ req.op \in {"open", "read", "write"} /\ req # NoCall
           /\ DriveOk(req.drive)
           /\ \A d \in Drives : d # req.drive => ~Taken(d) /\ Resting(d)
<1>1. req \in Calls /\ Selected = req.drive
  BY DEF BusInv, CallTypes
<1>2. /\ req.drive \in Drives /\ req.op \in {"open", "read", "write"} /\ req # NoCall
  BY <1>1, SentinelAssumption DEF Calls
<1>3. Status = status[req.drive] /\ Status \in Statuses
  BY <1>1, <1>2 DEF Status, BusInv, BusTypes
<1>4. DriveOk(req.drive) /\ \A d \in Drives : d # req.drive => ~Taken(d) /\ Resting(d)
  BY <1>2 DEF BusInv, DriveOk, Taken
<1>5. QED
  BY <1>1, <1>2, <1>3, <1>4

(* What a drive that works on no call is in depends on that drive only.     *)
LEMMA RestingSame ==
    ASSUME NEW d \in Drives, Resting(d),
           status'[d] = status[d], task'[d] = task[d], kind'[d] = kind[d]
    PROVE  Resting(d)'
BY DEF Resting, Owes, Received, Leftover

(* A drive of which nothing changed stays as it should be.                  *)
LEMMA DriveSame ==
    ASSUME NEW d \in Drives, DriveOk(d),
           status'[d] = status[d], task'[d] = task[d], kind'[d] = kind[d],
           medium'[d] = medium[d], UNCHANGED <<pc, req, buf, heard>>
    PROVE  DriveOk(d)'
<1>1. Taken(d)' <=> Taken(d)
  BY DEF Taken
<1>2. Serving(d) => Serving(d)'
  BY DEF Serving, Started, OnCall, Owes, Received, Moving, WordsMoved
<1>3. QED
  BY <1>1, <1>2, RestingSame DEF DriveOk

-----------------------------------------------------------------------------
(* The beginning of a call.                                                 *)
LEMMA CommandInv ==
    ASSUME BusInv, pc = "idle", NEW call \in {"open", "read", "write"}, NEW d \in Drives,
           NEW b \in Blocks \cup {0}, NEW data \in Contents \cup {<<>>},
           call # "open" => d \in opened /\ b \in Blocks,
           call = "write" => data \in Contents,
           req' = [op |-> call, drive |-> d, block |-> b, data |-> data],
           Command(call, d, b)
    PROVE  BusInv'
<1> DEFINE r == Registers(d, b, CommandOf(call))
<1>1. SelectedBy(r) = d /\ LbaOf(r) = b
  BY BlockIs, SelectedByRegisters, LbaOfRegisters
<1>2. /\ regs' = r /\ heard' = Free(d) /\ pc' = "empty" /\ buf' = <<>>
      /\ IF Free(d)
         THEN /\ status' = [status EXCEPT ![d] = {"BUSY"}]
              /\ task'   = [task EXCEPT ![d] = NewTask(r)]
         ELSE UNCHANGED <<status, task>>
      /\ UNCHANGED <<kind, medium, silent, opened>>
  BY <1>1 DEF Command
<1>3. NewTask(r).cmd = CommandOf(call) /\ NewTask(r).lba = b /\ NewTask(r).words = <<>>
  BY <1>1 DEF NewTask, Registers
<1>4. CommandOf(call) \in {"IdentifyDevice", "ReadPio", "WritePio"}
  BY DEF CommandOf
<1>5. NewTask(r) \in Tasks
  <2>1. Byte(b, 256) \in Bytes /\ Byte(b, 65536) \in Bytes
    <3>1. b \in Nat
      BY BlockIs
    <3>2. (b \div 256) % 256 \in Nat /\ (b \div 256) % 256 < 256
      BY <3>1, SMT
    <3>3. (b \div 65536) % 256 \in Nat /\ (b \div 65536) % 256 < 256
      BY <3>1, SMT
    <3>4. QED
      BY <3>2, <3>3, ByteIs DEF Byte
  <2>2. <<r.mid, r.high>> \in Bytes \X Bytes
    BY <2>1 DEF Registers
  <2>3. QED
    BY <1>1, <1>4, <2>2 DEF NewTask, Tasks, Registers
<1> HIDE DEF r
<1>6. BusTypes'
  <2>1. status' \in [Drives -> Statuses] /\ \A e \in Drives : status'[e] = {} <=> kind[e] = "absent"
    <3>1. /\ status \in [Drives -> Statuses] /\ Busy \in Statuses /\ Busy # {}
          /\ \A e \in Drives : status[e] = {} <=> kind[e] = "absent"
      BY StatusesDiffer DEF BusInv, BusTypes, Statuses
    <3>2. CASE status' = [status EXCEPT ![d] = Busy] /\ kind[d] # "absent"
      BY <3>1, <3>2
    <3>3. CASE status' = status
      BY <3>1, <3>3
    <3>4. QED
      BY <3>2, <3>3, <1>2 DEF Busy, Free
  <2>2. task' \in [Drives -> Tasks]
    BY <1>2, <1>5 DEF BusInv, BusTypes
  <2>3. QED
    BY <1>2, <2>1, <2>2 DEF BusInv, BusTypes, Labels, Supported
<1>7. CallTypes'
  <2>1. req' \in Calls /\ Selected' = d
    BY <1>1, <1>2 DEF Calls, Selected
  <2>2. QED
    BY <2>1, <1>2 DEF CallTypes
<1>8. ASSUME NEW e \in Drives PROVE DriveOk(e)'
  <2>1. Resting(e)
    BY DEF BusInv, DriveOk, Taken
  <2>2. CASE e = d /\ Free(d)
    <3>1. status'[e] = Busy /\ task'[e] = NewTask(r)
      BY <2>2, <1>2 DEF BusInv, BusTypes, Busy
    <3>2. Started(e)'
      BY <2>2, <3>1, <1>2, <1>3 DEF Started, OnCall
    <3>3. Taken(e)'
      BY <2>2, <1>2 DEF Taken
    <3>4. QED
      BY <3>1, <3>2, <3>3, <1>2 DEF DriveOk, Serving
  <2>3. CASE ~(e = d /\ Free(d))
    <3>1. status'[e] = status[e] /\ task'[e] = task[e] /\ kind'[e] = kind[e]
      BY <2>3, <1>2 DEF BusInv, BusTypes
    <3>2. ~Taken(e)'
      BY <2>3, <1>2 DEF Taken
    <3>3. QED
      BY <2>1, <3>1, <3>2, RestingSame DEF DriveOk
  <2>4. QED
    BY <2>2, <2>3
<1>9. QED
  BY <1>6, <1>7, <1>8 DEF BusInv

(* A step of the driver that only goes on to the next test.                 *)
LEMMA GotoInv ==
    ASSUME BusInv, pc # "idle", NEW label \in Labels \ {"idle", "moved"}, Goto(label),
           label = "data" => heard,
           label \in {"identified", "signature"} => req.op = "open" /\ "DRQ" \in Status,
           Taken(req.drive) => Serving(req.drive)'
    PROVE  BusInv'
<1>1. /\ pc' = label /\ UNCHANGED <<kind, medium, status, task, silent, regs, opened>>
      /\ UNCHANGED <<req, buf, reply, heard>>
  BY DEF Goto, driveVars
<1>2. BusTypes'
  BY <1>1 DEF BusInv, BusTypes, Supported
<1>3. CallTypes'
  BY <1>1 DEF BusInv, CallTypes, Selected, Status
<1>4. ASSUME NEW d \in Drives PROVE DriveOk(d)'
  <2>1. Taken(d)' <=> Taken(d)
    BY <1>1 DEF Taken, Labels
  <2>2. Taken(d) => d = req.drive
    BY DEF Taken
  <2>3. QED
    BY <1>1, <2>1, <2>2, RestingSame DEF DriveOk, BusInv
<1>5. QED
  BY <1>2, <1>3, <1>4 DEF BusInv

(* The end of a call leaves the drive at rest.                              *)
LEMMA ReturnInv ==
    ASSUME BusInv, pc # "idle", NEW k, NEW data, BusReturn(k, data), opened' \subseteq Supported,
           Taken(req.drive) => Resting(req.drive)
    PROVE  BusInv'
<1>1. /\ pc' = "idle" /\ req' = NoCall
      /\ UNCHANGED <<kind, medium, status, task, silent, regs, buf, heard>>
  BY DEF BusReturn, driveVars
<1>2. BusTypes'
  BY <1>1 DEF BusInv, BusTypes, Supported, Labels
<1>3. CallTypes'
  BY <1>1 DEF CallTypes
<1>4. ASSUME NEW d \in Drives PROVE DriveOk(d)'
  <2>1. ~Taken(d)'
    BY <1>1 DEF Taken
  <2>2. Taken(d) => d = req.drive
    BY DEF Taken
  <2>3. QED
    BY <1>1, <2>1, <2>2, RestingSame DEF DriveOk, BusInv
<1>5. QED
  BY <1>2, <1>3, <1>4 DEF BusInv

-----------------------------------------------------------------------------
(* The tests of the driver.                                                 *)
LEMMA KindFacts ==
    ASSUME NEW k \in Kinds PROVE Signature(k) = NoSignature <=> k \in {"pata", "absent"}
BY DEF Kinds, Signature, NoSignature

(* Every test either fails the call or lets it go on.                       *)
LEMMA FailsIsReturn == Fails => \E k, x : BusReturn(k, x) /\ opened' = opened
BY DEF Fails

LEMMA FailsInv ==
    ASSUME BusInv, pc # "idle", Fails, Taken(req.drive) => Resting(req.drive)
    PROVE  BusInv'
<1>1. PICK k, x : BusReturn(k, x) /\ opened' = opened
  BY FailsIsReturn
<1>2. opened' \subseteq Supported
  BY <1>1 DEF BusInv, BusTypes
<1>3. QED
  BY <1>1, <1>2, ReturnInv

(* Each test in the order of the call.                                      *)
LEMMA TestEmptyInv == ASSUME BusInv, TestEmpty PROVE BusInv'
<1> DEFINE d == req.drive
<1>1. pc = "empty" /\ Status = status[d] /\ d \in Drives /\ DriveOk(d)
  BY CallFacts DEF TestEmpty
<1>2. CASE Status = {}
  <2>1. ~Serving(d)
    BY <1>1, <1>2, StatusesDiffer DEF Serving
  <2>2. Taken(d) => Resting(d)
    BY <2>1, <1>1 DEF DriveOk
  <2>3. Fails
    BY <1>2 DEF TestEmpty
  <2>4. QED
    BY <2>2, <2>3, <1>1, FailsInv
<1>3. CASE Status # {}
  <2>1. Goto("not_busy")
    BY <1>3 DEF TestEmpty
  <2>2. Taken(d) => Serving(d)'
    BY <2>1, <1>1 DEF Goto, driveVars, DriveOk, Serving, Started, OnCall, Owes, Received, Moving
  <2>3. QED
    BY <2>1, <2>2, <1>1, GotoInv DEF Labels
<1>4. QED
  BY <1>2, <1>3

LEMMA PollBusyInv == ASSUME BusInv, PollBusy PROVE BusInv'
<1> DEFINE d == req.drive
<1>1. pc # "idle" /\ "BUSY" \notin Status
  BY DEF PollBusy
<1>2. Status = status[d] /\ d \in Drives /\ DriveOk(d) /\ status[d] # Busy
  BY <1>1, CallFacts, StatusFacts
<1>3. CASE pc = "not_busy" /\ Goto("no_error")
  <2>1. Taken(d) => Serving(d)'
    BY <1>2, <1>3 DEF Goto, driveVars, DriveOk, Serving, Started, OnCall, Owes, Received, Moving
  <2>2. QED
    BY <2>1, <1>1, <1>3, GotoInv DEF Labels
<1>4. CASE pc = "still_not_busy" /\ Goto("request")
  <2>1. Taken(d) => Serving(d)'
    BY <1>2, <1>4 DEF Goto, driveVars, DriveOk, Serving, Started, OnCall, Owes, Received, Moving
  <2>2. QED
    BY <2>1, <1>1, <1>4, GotoInv DEF Labels
<1>5. CASE pc = "identified" /\ Goto("signature")
  <2>1. Taken(d) => Serving(d)'
    BY <1>2, <1>5 DEF Goto, driveVars, DriveOk, Serving, Started, OnCall, Owes, Received, Moving
  <2>2. req.op = "open" /\ "DRQ" \in Status
    BY <1>5 DEF BusInv, CallTypes
  <2>3. QED
    BY <2>1, <2>2, <1>1, <1>5, GotoInv DEF Labels
<1>6. QED
  BY <1>3, <1>4, <1>5 DEF PollBusy

LEMMA TestErrorInv == ASSUME BusInv, TestError PROVE BusInv'
<1> DEFINE d == req.drive
<1>1. /\ pc = "no_error" /\ Status = status[d] /\ Status \in Statuses
      /\ d \in Drives /\ DriveOk(d)
  BY CallFacts DEF TestError
<1>2. CASE "ERR" \in Status
  <2>1. status[d] = Error
    BY <1>1, <1>2, StatusFacts
  <2>2. Taken(d) => Resting(d)
    BY <2>1, <1>1, StatusesDiffer DEF DriveOk, Serving, Resting
  <2>3. Fails
    BY <1>2 DEF TestError
  <2>4. QED
    BY <2>2, <2>3, <1>1, FailsInv
<1>3. CASE "ERR" \notin Status
  <2>1. Goto("still_not_busy")
    BY <1>3 DEF TestError
  <2>2. status[d] # Error
    BY <1>1, <1>3, StatusFacts
  <2>3. Taken(d) => Serving(d)'
    BY <2>1, <2>2, <1>1
    DEF Goto, driveVars, DriveOk, Serving, Started, OnCall, Owes, Received, Moving
  <2>4. QED
    BY <2>1, <2>3, <1>1, GotoInv DEF Labels
<1>4. QED
  BY <1>2, <1>3

(* A drive that asks for data without having taken the command is not the   *)
(* one of a supported drive: its signature gives it away.                   *)
LEMMA PollRequestInv == ASSUME BusInv, PollRequest PROVE BusInv'
<1> DEFINE d == req.drive
<1>1. /\ pc = "request" /\ Status = status[d] /\ Status \in Statuses /\ "DRQ" \in Status
      /\ d \in Drives /\ DriveOk(d) /\ Goto(AfterRequest)
  BY CallFacts DEF PollRequest
<1>2. status[d] = Asking
  BY <1>1, StatusFacts
<1>3. Taken(d) => Moving(d)
  BY <1>1, <1>2, StatusesDiffer DEF DriveOk, Serving
<1>4. CASE req.op = "open"
  <2>1. Goto("identified")
    BY <1>1, <1>4 DEF AfterRequest
  <2>2. Taken(d) => Serving(d)'
    BY <2>1, <1>1, <1>2, <1>3, <1>4 DEF Goto, driveVars, Serving, OnCall, Moving
  <2>3. QED
    BY <2>1, <2>2, <1>1, <1>4, GotoInv DEF Labels
<1>5. CASE req.op # "open"
  <2>1. Goto("data")
    BY <1>1, <1>5 DEF AfterRequest
  <2>2. kind[d] = "pata"
    BY <1>1, <1>5 DEF BusInv, CallTypes, BusTypes, Supported
  <2>3. Taken(d)
    <3>1. Signature(kind[d]) = NoSignature
      BY <2>2, KindFacts DEF Kinds
    <3>2. ~Resting(d)
      BY <3>1, <1>2, StatusesDiffer DEF Resting, Leftover
    <3>3. QED
      BY <3>2, <1>1 DEF DriveOk
  <2>4. heard
    BY <2>3 DEF Taken
  <2>5. Serving(d)'
    BY <2>1, <2>3, <1>1, <1>2, <1>3, <1>5 DEF Goto, driveVars, Serving, OnCall, Moving
  <2>6. QED
    BY <2>1, <2>4, <2>5, <1>1, GotoInv DEF Labels
<1>6. QED
  BY <1>4, <1>5

LEMMA TestSignatureInv == ASSUME BusInv, TestSignature PROVE BusInv'
<1> DEFINE d == req.drive
<1>1. /\ pc = "signature" /\ Status = status[d] /\ Status \in Statuses
      /\ Selected = d /\ d \in Drives /\ DriveOk(d)
  BY CallFacts DEF TestSignature
<1>2. req.op = "open" /\ status[d] = Asking
  BY <1>1, StatusFacts DEF BusInv, CallTypes
<1>3. Taken(d) => Moving(d)
  BY <1>1, <1>2, StatusesDiffer DEF DriveOk, Serving
<1>4. kind[d] \in Kinds /\ kind[d] # "absent"
  BY <1>1, <1>2, StatusesDiffer DEF BusInv, BusTypes
<1>5. CASE task[d].signature = NoSignature
  <2>1. Goto("data")
    BY <1>1, <1>5 DEF TestSignature
  <2>2. Taken(d)
    <3>1. ~Resting(d)
      BY <1>2, <1>5, StatusesDiffer DEF Resting, Leftover
    <3>2. QED
      BY <3>1, <1>1 DEF DriveOk
  <2>3. heard
    BY <2>2 DEF Taken
  <2>4. kind[d] = "pata"
    BY <2>2, <1>2, <1>3, <1>4, <1>5, KindFacts DEF Moving
  <2>5. Serving(d)'
    BY <2>1, <2>2, <2>4, <1>1, <1>2, <1>3 DEF Goto, driveVars, Serving, OnCall, Moving
  <2>6. QED
    BY <2>1, <2>3, <2>5, <1>1, GotoInv DEF Labels
<1>6. CASE task[d].signature # NoSignature
  <2>1. Fails
    BY <1>1, <1>6 DEF TestSignature
  <2>2. Taken(d) => Resting(d)
    BY <1>2, <1>3, <1>6 DEF Resting, Leftover, Moving, OnCall, CommandOf
  <2>3. QED
    BY <2>1, <2>2, <1>1, FailsInv
<1>7. QED
  BY <1>5, <1>6

-----------------------------------------------------------------------------
(* The words of a sector.                                                   *)

(* While data is moved, the drive of the call asks for it.                  *)
LEMMA DataFacts ==
    ASSUME BusInv, pc = "data"
    PROVE  /\ heard /\ Taken(req.drive) /\ status[req.drive] = Asking /\ "DRQ" \in Status
           /\ Moving(req.drive)
<1>1. /\ Status = status[req.drive] /\ Status \in Statuses /\ DriveOk(req.drive)
  BY CallFacts
<1>2. heard
  BY DEF BusInv, CallTypes
<1>3. Taken(req.drive)
  BY <1>2 DEF Taken
<1>4. status[req.drive] = Asking /\ Moving(req.drive)
  BY <1>1, <1>3 DEF DriveOk, Serving
<1>5. QED
  BY <1>1, <1>2, <1>3, <1>4, StatusFacts

LEMMA IdentityIsSector == Identity \in Sectors
BY SMT DEF Identity, Sectors, Words

(* A word moved: only the drive of the call changes.                        *)
LEMMA WordMoved ==
    ASSUME BusInv, pc = "data", pc' \in {"data", "moved"},
           UNCHANGED <<kind, medium, silent, regs, opened, req, reply, heard>>,
           buf' \in Seq(Bytes),
           NEW s \in Statuses \ {{}}, status' = [status EXCEPT ![req.drive] = s],
           NEW w \in Seq(Words), task' = [task EXCEPT ![req.drive].words = w],
           Serving(req.drive)'
    PROVE  BusInv'
<1> DEFINE d == req.drive
<1>1. d \in Drives /\ Taken(d) /\ status[d] = Asking
  BY CallFacts, DataFacts
<1>2. BusTypes'
  <2>1. status' \in [Drives -> Statuses] /\ \A e \in Drives : status'[e] = {} <=> kind[e] = "absent"
    BY <1>1, StatusesDiffer DEF BusInv, BusTypes
  <2>2. task' \in [Drives -> Tasks]
    <3>1. task \in [Drives -> Tasks] /\ task[d] \in Tasks
      BY <1>1 DEF BusInv, BusTypes
    <3>2. [task[d] EXCEPT !.words = w] \in Tasks
      BY <3>1 DEF Tasks
    <3>3. task' = [task EXCEPT ![d] = [task[d] EXCEPT !.words = w]]
      OBVIOUS
    <3>4. QED
      BY <3>1, <3>2, <3>3
  <2>3. QED
    BY <2>1, <2>2 DEF BusInv, BusTypes, Labels, Supported
<1>3. CallTypes'
  BY DEF BusInv, CallTypes, Selected
<1>4. ASSUME NEW e \in Drives PROVE DriveOk(e)'
  <2>1. CASE e = d
    <3>1. Taken(e)' /\ Serving(e)'
      BY <2>1, <1>1 DEF Taken
    <3>2. QED
      BY <3>1 DEF DriveOk
  <2>2. CASE e # d
    <3>1. Resting(e)
      BY <2>2, CallFacts
    <3>2. status'[e] = status[e] /\ task'[e] = task[e]
      BY <1>1, <2>2 DEF BusInv, BusTypes
    <3>3. ~Taken(e)'
      BY <2>2 DEF Taken
    <3>4. QED
      BY <3>1, <3>2, <3>3, RestingSame DEF DriveOk
  <2>3. QED
    BY <2>1, <2>2
<1>5. QED
  BY <1>2, <1>3, <1>4 DEF BusInv

(* A word read.                                                             *)
LEMMA BusReadStep ==
    ASSUME BusInv, ReadData
    PROVE  LET d == req.drive
               words == task[d].words
               s == IF req.op = "read" THEN medium[d][req.block] ELSE Identity
           IN  /\ Reading(buf, words, s) /\ s \in Sectors /\ words \in Seq(Words)
               /\ buf' = buf \o ToLe(Head(words)) /\ buf' \in Seq(Bytes)
               /\ task' = [task EXCEPT ![d].words = Tail(words)] /\ Tail(words) \in Seq(Words)
               /\ \/ /\ pc' = "data" /\ status' = [status EXCEPT ![d] = Asking]
                     /\ Reading(buf', Tail(words), s)
                  \/ /\ pc' = "moved" /\ buf' = InBytes(s)
                     /\ \E t \in {Ready, Error} : status' = [status EXCEPT ![d] = t]
<1> DEFINE d == req.drive
           words == task[d].words
           s == IF req.op = "read" THEN medium[d][req.block] ELSE Identity
<1>1. /\ d \in Drives /\ Selected = d /\ "DRQ" \in Status /\ Moving(d) /\ status[d] = Asking
      /\ pc = "data" /\ req.op \in {"open", "read"}
  BY CallFacts, DataFacts DEF ReadData
<1>2. /\ Reading(buf, words, s) /\ words \in Seq(Words) /\ buf \in Seq(Bytes) /\ s \in Sectors
  <2>1. req.op = "read" => req.block \in Blocks
    BY <1>1 DEF BusInv, CallTypes
  <2>2. QED
    BY <2>1, <1>1, IdentityIsSector DEF BusInv, BusTypes, Tasks, Moving
<1>3. /\ buf' = buf \o ToLe(Head(words))
      /\ task' = [task EXCEPT ![d].words = Tail(words)]
      /\ status' \in IF Len(words) = 1
                      THEN {[status EXCEPT ![d] = t] : t \in {Ready, Error}} ELSE {status}
      /\ pc' = IF Len(buf') = 2 * SectorWords THEN "moved" ELSE "data"
  BY <1>1 DEF ReadData, Last, Ready, Error
<1>4. /\ buf' \in Seq(Bytes) /\ Len(buf') = Len(buf) + 2
      /\ Tail(words) \in Seq(Words) /\ Len(Tail(words)) = Len(words) - 1
      /\ Len(words) = 1 => buf' = InBytes(s)
      /\ Len(words) # 1 => Reading(buf', Tail(words), s)
  <2> HIDE DEF words, s
  <2>1. WordRead(buf, buf', words, s)
    BY <1>2, <1>3, ReadWord
  <2>2. QED
    BY <2>1 DEF WordRead
<1>5. /\ SectorWords \in Nat /\ Len(buf) \in Nat /\ Len(words) \in Nat
      /\ Len(buf) + 2 * Len(words) = 2 * SectorWords
  BY <1>2, SectorFacts, LenProperties, SMTT(30) DEF Reading
<1> HIDE DEF words, s
<1>6. CASE Len(words) = 1
  <2>1. Len(buf') = 2 * SectorWords
    BY <1>4, <1>5, <1>6, CountDown
  <2>2. pc' = "moved" /\ \E t \in {Ready, Error} : status' = [status EXCEPT ![d] = t]
    BY <2>1, <1>3, <1>6, SMTT(30)
  <2>3. QED
    BY <2>2, <1>2, <1>3, <1>4, <1>6, ZenonT(30) DEF words, s
<1>7. CASE Len(words) # 1
  <2>1. Len(buf') # 2 * SectorWords
    BY <1>4, <1>5, <1>7
  <2>2. pc' = "data" /\ status' = status
    BY <2>1, <1>3, <1>7
  <2>3. status' = [status EXCEPT ![d] = Asking]
    BY <2>2, <1>1 DEF BusInv, BusTypes
  <2>4. QED
    BY <2>2, <2>3, <1>2, <1>3, <1>4, <1>7 DEF words, s
<1>8. QED
  BY <1>6, <1>7

(* The transfer loops and the last test of the call.                        *)
LEMMA ReadDataInv == ASSUME BusInv, ReadData PROVE BusInv'
<1> DEFINE d == req.drive
           words == task[d].words
           s == IF req.op = "read" THEN medium[d][req.block] ELSE Identity
<1>1. /\ buf' \in Seq(Bytes)
      /\ task' = [task EXCEPT ![d].words = Tail(words)] /\ Tail(words) \in Seq(Words)
      /\ \/ /\ pc' = "data" /\ status' = [status EXCEPT ![d] = Asking]
            /\ Reading(buf', Tail(words), s)
         \/ /\ pc' = "moved" /\ buf' = InBytes(s)
            /\ \E t \in {Ready, Error} : status' = [status EXCEPT ![d] = t]
  BY BusReadStep
<1>2. /\ d \in Drives /\ Moving(d) /\ pc = "data" /\ req.op \in {"open", "read"}
      /\ UNCHANGED <<kind, medium, silent, regs, opened, req, reply, heard>>
      /\ task \in [Drives -> Tasks] /\ status \in [Drives -> Statuses]
  BY CallFacts, DataFacts DEF ReadData, BusInv, BusTypes
<1>3. /\ task'[d].words = Tail(words) /\ task'[d].cmd = task[d].cmd
      /\ task'[d].lba = task[d].lba /\ task'[d].signature = task[d].signature
  BY <1>1, <1>2 DEF Tasks
<1>4. task[d].cmd # "WritePio"
  BY <1>2 DEF Moving, OnCall, CommandOf
<1>5. s' = s /\ d' = d
  BY <1>2 DEF Identity
<1> HIDE DEF words
<1>6. CASE pc' = "data" /\ status' = [status EXCEPT ![d] = Asking] /\ Reading(buf', Tail(words), s)
  <2>1. Moving(d)'
    BY <1>2, <1>3, <1>6 DEF Moving, OnCall, Identity
  <2>2. Serving(d)'
    BY <2>1, <1>2, <1>6 DEF Serving
  <2>3. Asking \in Statuses \ {{}}
    BY StatusesDiffer
  <2>4. QED
    BY <2>2, <2>3, <1>1, <1>2, <1>6, WordMoved
<1>7. ASSUME NEW t \in {Ready, Error}, pc' = "moved", buf' = InBytes(s),
             status' = [status EXCEPT ![d] = t]
      PROVE  BusInv'
  <2>1. ~Owes(d)'
    BY <1>2, <1>3, <1>4 DEF Owes
  <2>2. req.op = "open" => kind[d] = "pata"
    BY <1>2 DEF Moving
  <2>3. status'[d] = t
    BY <1>2, <1>7
  <2>4. WordsMoved(d)'
    BY <2>1, <2>2, <2>3, <1>2, <1>7 DEF WordsMoved
  <2>5. Serving(d)'
    BY <2>4, <1>7 DEF Serving
  <2>6. t \in Statuses \ {{}}
    BY StatusesDiffer
  <2>7. QED
    BY <2>5, <2>6, <1>1, <1>2, <1>7, WordMoved
<1>8. QED
  BY <1>1, <1>6, <1>7

(* A word written: the drive has more of the data, and the last word makes  *)
(* it BUSY with all of it.                                                  *)
LEMMA WriteStep ==
    ASSUME BusInv, WriteData
    PROVE  \E more \in Seq(Words) :
             /\ buf' \in Seq(Bytes)
             /\ task' = [task EXCEPT ![req.drive].words = more]
             /\ \/ /\ pc' = "data" /\ status' = [status EXCEPT ![req.drive] = Asking]
                   /\ Len(more) # SectorWords /\ Writing(buf', more, req.data)
                \/ /\ pc' = "moved" /\ status' = [status EXCEPT ![req.drive] = Busy]
                   /\ Len(more) = SectorWords /\ InBytes(more) = req.data
<1> DEFINE d == req.drive
           words == task[d].words
           data == req.data
           more == Append(words, FromLe(data[Len(buf) + 1], data[Len(buf) + 2]))
<1>1. /\ d \in Drives /\ Selected = d /\ "DRQ" \in Status /\ Moving(d) /\ status[d] = Asking
      /\ pc = "data" /\ req.op = "write"
  BY CallFacts, DataFacts DEF WriteData
<1>2. /\ Writing(buf, words, data) /\ words \in Seq(Words) /\ buf \in Seq(Bytes)
      /\ data \in Contents
  BY <1>1 DEF BusInv, BusTypes, CallTypes, Tasks, Moving
<1>3. /\ buf' = buf \o <<data[Len(buf) + 1], data[Len(buf) + 2]>>
      /\ task' = [task EXCEPT ![d].words = more]
      /\ status' = IF Len(words) = SectorWords - 1 THEN [status EXCEPT ![d] = Busy] ELSE status
      /\ pc' = IF Len(buf') = 2 * SectorWords THEN "moved" ELSE "data"
  BY <1>1 DEF WriteData, Last, Busy
<1>4. WordWritten(buf, buf', words, more, data)
  <2> DEFINE m == more
  <2>1. m = Append(words, FromLe(data[Len(buf) + 1], data[Len(buf) + 2]))
    OBVIOUS
  <2> HIDE DEF words, data, m
  <2>2. WordWritten(buf, buf', words, m, data)
    BY <2>1, <1>2, <1>3, WriteWord
  <2>3. QED
    BY <2>2 DEF m
<1>5. /\ buf' \in Seq(Bytes) /\ Len(buf') = Len(buf) + 2
      /\ more \in Seq(Words) /\ Len(more) = Len(words) + 1
      /\ Len(more) = SectorWords => InBytes(more) = data
      /\ Len(more) # SectorWords => Writing(buf', more, data)
  BY <1>4 DEF WordWritten
<1>6. /\ SectorWords \in Nat \ {0} /\ Len(words) \in Nat /\ Len(buf) = 2 * Len(words)
  BY <1>2, SectorAssumption, LenProperties DEF Writing
<1> HIDE DEF words, data, more
<1>7. CASE Len(more) = SectorWords
  <2>1. Len(words) = SectorWords - 1 /\ Len(buf') = 2 * SectorWords
    BY <1>5, <1>6, <1>7
  <2>2. pc' = "moved" /\ status' = [status EXCEPT ![d] = Busy]
    BY <2>1, <1>3
  <2>3. QED
    BY <2>2, <1>3, <1>5, <1>7 DEF data
<1>8. CASE Len(more) # SectorWords
  <2>1. Len(words) # SectorWords - 1 /\ Len(buf') # 2 * SectorWords
    BY <1>5, <1>6, <1>8
  <2>2. pc' = "data" /\ status' = status
    BY <2>1, <1>3
  <2>3. status' = [status EXCEPT ![d] = Asking]
    BY <2>2, <1>1 DEF BusInv, BusTypes
  <2>4. QED
    BY <2>2, <2>3, <1>3, <1>5, <1>8 DEF data
<1>9. QED
  BY <1>7, <1>8

LEMMA WriteDataInv == ASSUME BusInv, WriteData PROVE BusInv'
<1> DEFINE d == req.drive
<1>1. PICK more \in Seq(Words) :
         /\ buf' \in Seq(Bytes)
         /\ task' = [task EXCEPT ![d].words = more]
         /\ \/ /\ pc' = "data" /\ status' = [status EXCEPT ![d] = Asking]
               /\ Len(more) # SectorWords /\ Writing(buf', more, req.data)
            \/ /\ pc' = "moved" /\ status' = [status EXCEPT ![d] = Busy]
               /\ Len(more) = SectorWords /\ InBytes(more) = req.data
  BY WriteStep
<1>2. /\ d \in Drives /\ Moving(d) /\ pc = "data" /\ req.op = "write" /\ req.block \in Blocks
      /\ UNCHANGED <<kind, medium, silent, regs, opened, req, reply, heard>>
      /\ task \in [Drives -> Tasks] /\ status \in [Drives -> Statuses]
  BY CallFacts, DataFacts DEF WriteData, BusInv, BusTypes, CallTypes
<1>3. /\ task'[d].words = more /\ task'[d].cmd = task[d].cmd /\ task'[d].lba = task[d].lba
  BY <1>1, <1>2 DEF Tasks
<1>4. CASE /\ pc' = "data" /\ status' = [status EXCEPT ![d] = Asking]
           /\ Len(more) # SectorWords /\ Writing(buf', more, req.data)
  <2>1. Moving(d)'
    BY <1>2, <1>3, <1>4 DEF Moving, OnCall
  <2>2. Serving(d)'
    BY <2>1, <1>2, <1>4 DEF Serving
  <2>3. Asking \in Statuses \ {{}}
    BY StatusesDiffer
  <2>4. QED
    BY <2>2, <2>3, <1>1, <1>2, <1>4, WordMoved
<1>5. CASE /\ pc' = "moved" /\ status' = [status EXCEPT ![d] = Busy]
           /\ Len(more) = SectorWords /\ InBytes(more) = req.data
  <2>1. Owes(d)' /\ task'[d].lba \in Blocks
    BY <1>2, <1>3, <1>5 DEF Owes, Received, Moving, OnCall, CommandOf
  <2>2. status'[d] = Busy
    BY <1>2, <1>5
  <2>3. Serving(d)'
    BY <2>1, <2>2, <1>2, <1>5 DEF WordsMoved, Serving
  <2>4. Busy \in Statuses \ {{}}
    BY StatusesDiffer
  <2>5. QED
    BY <2>3, <2>4, <1>1, <1>2, <1>5, WordMoved
<1>6. QED
  BY <1>1, <1>4, <1>5

(* The last test of a call.                                                 *)
LEMMA MovedFacts ==
    ASSUME BusInv, pc = "moved"
    PROVE  heard /\ WordsMoved(req.drive) /\ Resting(req.drive) /\ req.drive \in Drives
<1>1. heard /\ DriveOk(req.drive) /\ req.drive \in Drives
  BY CallFacts DEF BusInv, CallTypes
<1>2. WordsMoved(req.drive)
  BY <1>1 DEF DriveOk, Taken, Serving
<1>3. Resting(req.drive)
  BY <1>2 DEF WordsMoved, Resting
<1>4. QED
  BY <1>1, <1>2, <1>3

LEMMA FinishInv == ASSUME BusInv, FinishOpen \/ FinishRead \/ FinishWrite PROVE BusInv'
<1>1. pc = "moved" /\ WordsMoved(req.drive) /\ Resting(req.drive) /\ req.drive \in Drives
  BY MovedFacts DEF FinishOpen, FinishRead, FinishWrite
<1>2. opened \subseteq Supported
  BY DEF BusInv, BusTypes
<1>3. CASE FinishOpen
  <2>1. req.drive \in Supported
    BY <1>1, <1>3 DEF FinishOpen, WordsMoved, Supported
  <2>2. QED
    BY <2>1, <1>1, <1>2, <1>3, ReturnInv DEF FinishOpen
<1>4. CASE FinishRead \/ FinishWrite
  <2>1. CASE Fails
    BY <2>1, <1>1, FailsInv
  <2>2. CASE \E k, x : BusReturn(k, x) /\ UNCHANGED opened
    BY <2>2, <1>1, <1>2, ReturnInv
  <2>3. QED
    BY <2>1, <2>2, <1>4 DEF FinishRead, FinishWrite
<1>5. QED
  BY <1>3, <1>4

LEMMA DriverInv == ASSUME BusInv, Driver PROVE BusInv'
BY TestEmptyInv, PollBusyInv, TestErrorInv, PollRequestInv, TestSignatureInv, ReadDataInv,
   WriteDataInv, FinishInv DEF Driver

-----------------------------------------------------------------------------
(* The drives.                                                              *)

(* A step of a BUSY drive: only that drive changes.                         *)
LEMMA DriveStepInv ==
    ASSUME BusInv, NEW d \in Drives, "BUSY" \in status[d],
           NEW bits \in Statuses \ {{}}, NEW t \in Tasks, DriveStep(d, bits, t),
           medium' \in [Drives -> [Blocks -> Sectors]],
           \A e \in Drives : e # d => medium'[e] = medium[e],
           DriveOk(d)'
    PROVE  BusInv'
<1>1. /\ status' = [status EXCEPT ![d] = bits] /\ task' = [task EXCEPT ![d] = t]
      /\ UNCHANGED <<kind, silent, regs, opened, pc, req, buf, reply, heard>>
  BY DEF DriveStep
<1>2. /\ status \in [Drives -> Statuses] /\ task \in [Drives -> Tasks] /\ kind[d] # "absent"
      /\ \A e \in Drives : status[e] = {} <=> kind[e] = "absent"
  BY DEF BusInv, BusTypes
<1>3. BusTypes'
  <2>1. status' \in [Drives -> Statuses] /\ \A e \in Drives : status'[e] = {} <=> kind[e] = "absent"
    BY <1>1, <1>2
  <2>2. task' \in [Drives -> Tasks]
    BY <1>1, <1>2
  <2>3. QED
    BY <1>1, <2>1, <2>2 DEF BusInv, BusTypes, Supported
<1>4. CallTypes'
  <2>1. ASSUME pc \in {"identified", "signature"}, "DRQ" \in Status, Selected \in Drives
        PROVE  "DRQ" \in Status'
    <3>1. status[Selected] = Asking
      BY <2>1, <1>2, StatusFacts DEF Status
    <3>2. status[d] = Busy
      BY <1>2, StatusFacts
    <3>3. Selected # d /\ Selected' = Selected
      BY <3>1, <3>2, <1>1, StatusesDiffer DEF Selected
    <3>4. status'[Selected] = status[Selected]
      BY <3>3, <2>1, <1>1, <1>2
    <3>5. QED
      BY <3>3, <3>4, <2>1 DEF Status
  <2>2. CASE pc = "idle"
    BY <2>2, <1>1 DEF BusInv, CallTypes
  <2>3. CASE pc # "idle"
    <3>1. Selected \in Drives /\ Selected' = Selected
      BY <2>3, <1>1, CallFacts DEF Selected
    <3>2. QED
      BY <2>1, <2>3, <3>1, <1>1 DEF BusInv, CallTypes
  <2>4. QED
    BY <2>2, <2>3
<1>5. ASSUME NEW e \in Drives, e # d PROVE DriveOk(e)'
  BY <1>1, <1>2, <1>5, DriveSame DEF BusInv
<1>6. QED
  BY <1>3, <1>4, <1>5 DEF BusInv

(* A BUSY drive has just taken a command, or owes a sector.                 *)
LEMMA BusyFacts ==
    ASSUME BusInv, NEW d \in Drives, "BUSY" \in status[d]
    PROVE  /\ status[d] = Busy /\ task[d] \in Tasks /\ kind[d] \in Kinds
           /\ \/ Taken(d) /\ pc \in {"empty", "not_busy"} /\ Started(d) /\ ~Received(d)
              \/ Taken(d) /\ pc = "moved" /\ req.op = "write" /\ Owes(d) /\ task[d].lba \in Blocks
              \/ ~Taken(d) /\ Owes(d) /\ task[d].lba \in Blocks
<1>1. status[d] = Busy /\ task[d] \in Tasks /\ kind[d] \in Kinds
  BY StatusFacts DEF BusInv, BusTypes
<1>2. CASE Taken(d)
  <2>1. Started(d) => ~Received(d)
    BY SectorAssumption DEF Started, Received
  <2>2. Serving(d)
    BY <1>2 DEF BusInv, DriveOk
  <2>3. QED
    BY <1>1, <1>2, <2>1, <2>2, StatusesDiffer DEF Serving, WordsMoved
<1>3. CASE ~Taken(d)
  <2>1. Resting(d)
    BY <1>3 DEF BusInv, DriveOk
  <2>2. QED
    BY <1>1, <1>3, <2>1, StatusesDiffer DEF Resting
<1>4. QED
  BY <1>2, <1>3

(* The drive has the data of a command ready, or room for it.               *)
LEMMA Begins ==
    ASSUME NEW s \in Sectors
    PROVE  Reading(<<>>, s, s) /\ (\A data : Writing(<<>>, <<>>, data))
<1>1. Len(s) = SectorWords /\ SectorWords \in Nat \ {0} /\ Len(<<>>) = 0
  BY SectorFacts
<1>2. \A i \in 1..Len(s) : SectorWords - Len(s) + i = i
  BY <1>1
<1>3. QED
  BY <1>1, <1>2 DEF Reading, Writing

(* A drive that asks for data: fetched, awaited, or its identification.     *)
LEMMA AsksInv ==
    ASSUME BusInv, NEW d \in Drives, NEW t \in Tasks, Taken(d), pc \in {"empty", "not_busy"},
           "BUSY" \in status[d], DriveStep(d, {"DRDY", "DRQ"}, t), UNCHANGED medium,
           Started(d), t.cmd = task[d].cmd, t.lba = task[d].lba,
           req.op = "read" => Reading(<<>>, t.words, medium[d][req.block]),
           req.op = "write" => Writing(<<>>, t.words, req.data),
           req.op = "open" => /\ Reading(<<>>, t.words, Identity)
                              /\ t.signature = Signature(kind[d]) /\ kind[d] # "packet"
    PROVE  BusInv'
<1>1. DriveStep(d, Asking, t) /\ Asking \in Statuses \ {{}}
  BY StatusesDiffer DEF Asking
<1>2. /\ status'[d] = Asking /\ task'[d] = t
      /\ UNCHANGED <<kind, regs, opened, pc, req, buf, heard, medium>>
  BY <1>1 DEF DriveStep, BusInv, BusTypes
<1>3. buf = <<>> /\ OnCall(d)
  BY DEF Started
<1>4. Moving(d)'
  BY <1>2, <1>3 DEF Moving, OnCall, Identity
<1>5. DriveOk(d)'
  BY <1>2, <1>4 DEF DriveOk, Taken, Serving
<1>6. medium' \in [Drives -> [Blocks -> Sectors]]
  BY DEF BusInv, BusTypes
<1>7. QED
  BY <1>1, <1>5, <1>6, DriveStepInv

LEMMA FetchInv == ASSUME BusInv, NEW d \in Drives, Fetch(d) PROVE BusInv'
<1> DEFINE t == [task[d] EXCEPT !.words = medium[d][task[d].lba]]
<1>1. /\ "BUSY" \in status[d] /\ task[d].cmd = "ReadPio" /\ task[d].lba \in Blocks
      /\ DriveStep(d, {"DRDY", "DRQ"}, t) /\ UNCHANGED medium
  BY DEF Fetch, Working
<1>2. /\ task[d] \in Tasks /\ Taken(d) /\ pc \in {"empty", "not_busy"} /\ Started(d)
  BY <1>1, BusyFacts DEF Owes
<1>3. medium[d][task[d].lba] \in Sectors /\ medium[d][task[d].lba] \in Seq(Words)
  BY <1>1, SectorFacts DEF BusInv, BusTypes
<1>4. t \in Tasks /\ t.cmd = task[d].cmd /\ t.lba = task[d].lba /\ t.words = medium[d][task[d].lba]
  BY <1>2, <1>3 DEF Tasks
<1>5. req.op = "read" /\ task[d].lba = req.block
  <2>1. req.op \in {"open", "read", "write"}
    BY <1>2, CallFacts
  <2>2. QED
    BY <2>1, <1>1, <1>2 DEF Started, OnCall, CommandOf
<1>6. Reading(<<>>, t.words, medium[d][req.block])
  BY <1>3, <1>4, <1>5, Begins
<1> HIDE DEF t
<1>7. QED
  BY <1>1, <1>2, <1>4, <1>5, <1>6, AsksInv

LEMMA AskForDataInv == ASSUME BusInv, NEW d \in Drives, AskForData(d) PROVE BusInv'
<1>1. /\ "BUSY" \in status[d] /\ task[d].cmd = "WritePio" /\ ~Received(d)
      /\ DriveStep(d, {"DRDY", "DRQ"}, task[d]) /\ UNCHANGED medium
  BY DEF AskForData, Working
<1>2. /\ task[d] \in Tasks /\ Taken(d) /\ pc \in {"empty", "not_busy"} /\ Started(d)
  BY <1>1, BusyFacts DEF Owes
<1>3. req.op = "write"
  <2>1. req.op \in {"open", "read", "write"}
    BY <1>2, CallFacts
  <2>2. QED
    BY <2>1, <1>1, <1>2 DEF Started, OnCall, CommandOf
<1>4. Writing(<<>>, task[d].words, req.data)
  BY <1>2, Begins, IdentityIsSector DEF Started
<1>5. QED
  BY <1>1, <1>2, <1>3, <1>4, AsksInv

(* The signature a drive leaves in its registers.                           *)
LEMMA SignatureIsBytes == ASSUME NEW k \in Kinds PROVE Signature(k) \in Bytes \X Bytes
BY SMT DEF Signature, NoSignature, Kinds, Bytes

LEMMA IdentifyInv == ASSUME BusInv, NEW d \in Drives, Identify(d) PROVE BusInv'
<1> DEFINE t == [task[d] EXCEPT !.words = Identity, !.signature = Signature(kind[d])]
<1>1. /\ "BUSY" \in status[d] /\ task[d].cmd = "IdentifyDevice" /\ kind[d] # "packet"
      /\ DriveStep(d, {"DRDY", "DRQ"}, t) /\ UNCHANGED medium
  BY DEF Identify, Working
<1>2. /\ task[d] \in Tasks /\ Taken(d) /\ pc \in {"empty", "not_busy"} /\ Started(d)
      /\ kind[d] \in Kinds
  BY <1>1, BusyFacts DEF Owes
<1>3. Signature(kind[d]) \in Bytes \X Bytes
  BY <1>2, SignatureIsBytes
<1>4. Identity \in Sectors /\ Identity \in Seq(Words)
  BY IdentityIsSector, SectorFacts
<1>5. /\ t \in Tasks /\ t.cmd = task[d].cmd /\ t.lba = task[d].lba /\ t.words = Identity
      /\ t.signature = Signature(kind[d])
  BY <1>2, <1>3, <1>4 DEF Tasks
<1>6. req.op = "open"
  <2>1. req.op \in {"open", "read", "write"}
    BY <1>2, CallFacts
  <2>2. QED
    BY <2>1, <1>1, <1>2 DEF Started, OnCall, CommandOf
<1>7. Reading(<<>>, t.words, Identity)
  BY <1>4, <1>5, Begins
<1> HIDE DEF t
<1>8. QED
  BY <1>1, <1>2, <1>5, <1>6, <1>7, AsksInv

(* A drive that gives a command up, and steps that change nothing here.     *)
LEMMA AbortInv == ASSUME BusInv, NEW d \in Drives, Abort(d) PROVE BusInv'
<1> DEFINE t == [task[d] EXCEPT !.signature = Signature(kind[d])]
<1>1. /\ "BUSY" \in status[d] /\ ~Received(d) /\ DriveStep(d, Error, t) /\ UNCHANGED medium
  BY DEF Abort, Error
<1>2. /\ task[d] \in Tasks /\ Taken(d) /\ pc \in {"empty", "not_busy"} /\ Started(d)
      /\ kind[d] \in Kinds
  BY <1>1, BusyFacts DEF Owes
<1>3. Signature(kind[d]) \in Bytes \X Bytes
  BY <1>2, SignatureIsBytes
<1>4. t \in Tasks /\ t.words = task[d].words
  BY <1>2, <1>3 DEF Tasks
<1> HIDE DEF t
<1>5. /\ status'[d] = Error /\ task'[d] = t /\ UNCHANGED <<pc, req, heard>>
  BY <1>1 DEF DriveStep, BusInv, BusTypes
<1>6. ~Owes(d)'
  BY <1>1, <1>4, <1>5 DEF Owes, Received
<1>7. DriveOk(d)'
  BY <1>2, <1>5, <1>6 DEF DriveOk, Taken, Serving
<1>8. Error \in Statuses \ {{}} /\ medium' \in [Drives -> [Blocks -> Sectors]]
  BY <1>1, StatusesDiffer DEF BusInv, BusTypes
<1>9. QED
  BY <1>1, <1>4, <1>7, <1>8, DriveStepInv

(* The sector a drive owes gets on the medium, or is lost.                  *)
LEMMA SettleInv == ASSUME BusInv, NEW d \in Drives, Commit(d) \/ LoseSector(d) PROVE BusInv'
<1>1. /\ "BUSY" \in status[d] /\ Received(d)
      /\ \E s \in {Ready, Error} : DriveStep(d, s, NoTask)
  BY DEF Commit, LoseSector, Working, Ready, Error
<1>2. PICK s \in {Ready, Error} : DriveStep(d, s, NoTask)
  BY <1>1
<1>3. /\ task[d] \in Tasks /\ Owes(d) /\ task[d].lba \in Blocks
      /\ Taken(d) => pc = "moved" /\ req.op = "write"
  BY <1>1, BusyFacts
<1>4. NoTask \in Tasks /\ NoTask.cmd = "none"
  BY SMT DEF NoTask, Tasks, NoSignature, Bytes
<1>5. /\ status'[d] = s /\ task'[d] = NoTask /\ UNCHANGED <<kind, pc, req, heard>>
  BY <1>2 DEF DriveStep, BusInv, BusTypes
<1>6. ~Owes(d)'
  BY <1>4, <1>5 DEF Owes
<1>7. DriveOk(d)'
  <2>1. CASE Taken(d)
    BY <2>1, <1>3, <1>5, <1>6 DEF DriveOk, Taken, Serving, WordsMoved
  <2>2. CASE ~Taken(d)
    BY <2>2, <1>5, <1>6 DEF DriveOk, Taken, Resting
  <2>3. QED
    BY <2>1, <2>2
<1>8. task[d].words \in Sectors
  BY <1>1, <1>3, LenProperties DEF Tasks, Received, Sectors
<1>9. /\ medium' \in [Drives -> [Blocks -> Sectors]]
      /\ \A e \in Drives : e # d => medium'[e] = medium[e]
  <2>1. medium \in [Drives -> [Blocks -> Sectors]]
    BY DEF BusInv, BusTypes
  <2>2. CASE medium' = medium
    BY <2>1, <2>2
  <2>3. CASE medium' = [medium EXCEPT ![d] = [medium[d] EXCEPT ![task[d].lba] = task[d].words]]
    <3>1. [medium[d] EXCEPT ![task[d].lba] = task[d].words] \in [Blocks -> Sectors]
      BY <2>1, <1>3, <1>8
    <3>2. QED
      BY <3>1, <2>1, <2>3
  <2>4. QED
    BY <2>2, <2>3 DEF Commit, LoseSector
<1>10. s \in Statuses \ {{}}
  BY StatusesDiffer
<1>11. QED
  BY <1>1, <1>2, <1>4, <1>7, <1>9, <1>10, DriveStepInv

LEMMA QuietInv ==
    ASSUME BusInv,
           UNCHANGED <<kind, medium, status, task, regs, opened, pc, req, buf, reply, heard>>
    PROVE  BusInv'
<1>1. BusTypes'
  BY DEF BusInv, BusTypes, Supported
<1>2. CallTypes'
  BY DEF BusInv, CallTypes, Selected, Status
<1>3. ASSUME NEW d \in Drives PROVE DriveOk(d)'
  BY DriveSame DEF BusInv
<1>4. QED
  BY <1>1, <1>2, <1>3 DEF BusInv
-----------------------------------------------------------------------------
(* The invariant in every reachable state.                                  *)
LEMMA NextInv == ASSUME BusInv, [BusNext]_busVars PROVE BusInv'
<1>1. ASSUME NEW d \in Drives, Open(d) PROVE BusInv'
  BY <1>1, CommandInv DEF Open
<1>2. ASSUME NEW d \in Drives, NEW b \in Blocks, ReadBlock(d, b) PROVE BusInv'
  BY <1>2, CommandInv DEF ReadBlock
<1>3. ASSUME NEW d \in Drives, NEW b \in Blocks, NEW c \in Contents, WriteBlock(d, b, c)
      PROVE  BusInv'
  BY <1>3, CommandInv DEF WriteBlock
<1>4. ASSUME NEW d \in Drives, Drive(d) PROVE BusInv'
  BY <1>4, FetchInv, AskForDataInv, IdentifyInv, AbortInv, SettleInv DEF Drive
<1>5. ASSUME NEW d \in Drives, FallSilent(d) PROVE BusInv'
  BY <1>5, QuietInv DEF FallSilent
<1>6. CASE UNCHANGED busVars
  BY <1>6, QuietInv DEF busVars, driveVars
<1>7. QED
  BY <1>1, <1>2, <1>3, <1>4, <1>5, <1>6, DriverInv DEF BusNext

LEMMA InitInv == ASSUME BusInit PROVE BusInv
<1>1. /\ kind \in [Drives -> Kinds] /\ opened = {} /\ buf = <<>> /\ pc = "idle" /\ req = NoCall
      /\ task = [d \in Drives |-> NoTask]
      /\ status = [d \in Drives |-> IF kind[d] = "absent" THEN {} ELSE Ready]
  BY DEF BusInit, Ready
<1>2. NoTask \in Tasks /\ NoTask.cmd = "none"
  BY SMT DEF NoTask, Tasks, NoSignature, Bytes
<1>3. \A c \in Contents : Sector(c) \in Sectors
  <2>1. ASSUME NEW c \in Contents, NEW i \in 1..SectorWords
        PROVE  FromLe(c[2 * i - 1], c[2 * i]) \in Words
    <3>1. /\ SectorWords \in Nat /\ c \in [1..(2 * SectorWords) -> Bytes]
      BY SectorAssumption
    <3>2. 2 * i - 1 \in 1..(2 * SectorWords) /\ 2 * i \in 1..(2 * SectorWords)
      BY <3>1
    <3>3. QED
      BY <3>1, <3>2, ByteRoundTrip
  <2>2. QED
    BY <2>1 DEF Sector, Sectors
<1>4. medium \in [Drives -> [Blocks -> Sectors]]
  BY <1>3 DEF BusInit
<1>5. BusTypes
  <2>1. status \in [Drives -> Statuses] /\ \A d \in Drives : status[d] = {} <=> kind[d] = "absent"
    BY <1>1, StatusesDiffer
  <2>2. QED
    BY <1>1, <1>2, <1>4, <2>1 DEF BusTypes, Labels
<1>6. CallTypes
  BY <1>1 DEF CallTypes
<1>7. ASSUME NEW d \in Drives PROVE DriveOk(d)
  <2>1. status[d] \in {{}, Ready} /\ ~Owes(d)
    BY <1>1, <1>2 DEF Owes
  <2>2. QED
    BY <2>1, <1>1 DEF DriveOk, Taken, Resting
<1>8. QED
  BY <1>5, <1>6, <1>7 DEF BusInv

LEMMA BusInvariant == BusSpec => []BusInv
<1>1. BusInit => BusInv
  BY InitInv
<1>2. BusInv /\ [BusNext]_busVars => BusInv'
  BY NextInv
<1>3. QED
  BY <1>1, <1>2, PTL DEF BusSpec

(* The driver and the drive it talks to stay in step (bus.rs:205, 247): for *)
(* every number of blocks, every length of a sector and every contents, no  *)
(* word is read from a floating port and none is left behind.               *)
THEOREM AtaInStep == BusSpec => []InStep
<1>1. ASSUME BusInv, pc = "data"
      PROVE  /\ Selected = req.drive /\ "DRQ" \in Status
             /\ heard /\ task[Selected].lba = req.block
             /\ IF req.op = "write" THEN Len(buf) = 2 * Len(task[Selected].words)
                ELSE Len(buf) + 2 * Len(task[Selected].words) = 2 * SectorWords
  <2>1. /\ Selected = req.drive /\ "DRQ" \in Status /\ heard /\ Moving(req.drive)
        /\ req.op \in {"open", "read", "write"}
    BY <1>1, CallFacts, DataFacts
  <2>2. QED
    BY <2>1 DEF Moving, OnCall, Reading, Writing
<1>2. BusInv => InStep
  BY <1>1 DEF InStep
<1>3. QED
  BY <1>2, BusInvariant, PTL

-----------------------------------------------------------------------------
(* The refinement of BlockDevice.                                           *)

(* A call of the driver is a call of the device.                            *)
LEMMA CallMaps ==
    ASSUME BusInv, pc # "idle"
    PROVE  /\ DeviceCall = [op |-> req.op, drive |-> req.drive, block |-> req.block,
                            data |-> req.data, stage |-> Stage]
           /\ DeviceCall # NoCall
           /\ DeviceCall.op = req.op /\ DeviceCall.drive = req.drive
           /\ DeviceCall.block = req.block /\ DeviceCall.data = req.data
           /\ DeviceCall.stage = Stage
<1>1. req \in Calls /\ req # NoCall
  BY CallFacts
<1>2. Stage \in {"asked", "handed_over", "failed"}
  BY DEF Stage
<1>3. DeviceCall = [op |-> req.op, drive |-> req.drive, block |-> req.block,
                    data |-> req.data, stage |-> Stage]
  BY <1>1 DEF DeviceCall
<1>4. DeviceCall \in StagedCalls
  BY <1>1, <1>2, <1>3 DEF Calls, StagedCalls
<1>5. DeviceCall # NoCall
  BY <1>4, SentinelAssumption
<1>6. QED
  BY <1>3, <1>5

(* The call of the device, in the two states of the driver.                 *)
LEMMA CallMapsNext ==
    ASSUME BusInv', pc' # "idle"
    PROVE  /\ DeviceCall' = [op |-> req'.op, drive |-> req'.drive, block |-> req'.block,
                             data |-> req'.data, stage |-> Stage']
           /\ DeviceCall' # NoCall
<1>1. req' \in Calls
  BY DEF BusInv, CallTypes
<1>2. req' # NoCall
  BY <1>1, SentinelAssumption
<1>3. Stage' \in {"asked", "handed_over", "failed"}
  BY DEF Stage
<1>4. DeviceCall' = [op |-> req'.op, drive |-> req'.drive, block |-> req'.block,
                     data |-> req'.data, stage |-> Stage']
  BY <1>2 DEF DeviceCall
<1>5. DeviceCall' \in StagedCalls
  BY <1>1, <1>3, <1>4 DEF Calls, StagedCalls
<1>6. QED
  BY <1>4, <1>5, SentinelAssumption

LEMMA NoCallMaps == ASSUME BusInv, pc = "idle" PROVE DeviceCall = NoCall
BY DEF BusInv, CallTypes, DeviceCall

(* What a drive owes depends on its task only.                              *)
LEMMA OwedSame ==
    ASSUME \A d \in Drives : (Owes(d)' <=> Owes(d)) /\ (Owes(d) => task'[d] = task[d])
    PROVE  Owed' = Owed
<1>1. ASSUME NEW d \in Drives PROVE OwedBy(d)' = OwedBy(d)
  <2>1. CASE Owes(d)
    BY <2>1 DEF OwedBy, Owes
  <2>2. CASE ~Owes(d)
    BY <2>2 DEF OwedBy, Owes
  <2>3. QED
    BY <2>1, <2>2
<1>2. QED
  BY <1>1 DEF Owed

(* A command is the request of a call; the tests are invisible; an answer   *)
(* is one.                                                                  *)
LEMMA CommandMaps ==
    ASSUME BusInv, BusInv', pc = "idle", NEW call \in {"open", "read", "write"}, NEW d \in Drives,
           NEW b \in Blocks \cup {0}, NEW data,
           call # "open" => b \in Blocks,
           req' = [op |-> call, drive |-> d, block |-> b, data |-> data],
           Command(call, d, b)
    PROVE  Device!Ask
<1> DEFINE r == Registers(d, b, CommandOf(call))
<1>1. SelectedBy(r) = d
  BY BlockIs, SelectedByRegisters
<1>2. /\ pc' = "empty" /\ reply' = NoReply
      /\ IF Free(d) THEN task' = [task EXCEPT ![d] = NewTask(r)] ELSE task' = task
      /\ UNCHANGED <<kind, medium>>
  BY <1>1 DEF Command
<1>3. NewTask(r).words = <<>>
  BY DEF NewTask
<1> HIDE DEF r
<1>4. /\ DeviceCall = NoCall /\ DeviceCall' # NoCall
      /\ DeviceCall'.op = call /\ DeviceCall'.drive = d /\ DeviceCall'.block = b
      /\ DeviceCall'.stage = Stage'
  BY <1>2, NoCallMaps, CallMapsNext
<1>5. Stage' = "asked"
  BY <1>2 DEF Stage
<1>6. Supported' = Supported /\ DeviceMedium' = DeviceMedium
  BY <1>2 DEF Supported, DeviceMedium, InBytes, ToLe
<1>7. Owed' = Owed
  <2>1. ASSUME NEW e \in Drives PROVE (Owes(e)' <=> Owes(e)) /\ (Owes(e) => task'[e] = task[e])
    <3>1. CASE e = d /\ Free(d)
      <4>1. ~Owes(e)
        <5>1. Resting(e)
          BY DEF BusInv, DriveOk, Taken
        <5>2. status[e] # Busy /\ status[e] # Asking
          BY <3>1 DEF Free, Busy, Asking
        <5>3. QED
          BY <5>1, <5>2 DEF Resting
      <4>2. task'[e].words = <<>>
        BY <3>1, <1>2, <1>3 DEF BusInv, BusTypes
      <4>3. ~Owes(e)'
        BY <4>2, SectorAssumption DEF Owes, Received
      <4>4. QED
        BY <4>1, <4>3
    <3>2. CASE ~(e = d /\ Free(d))
      <4>1. task'[e] = task[e]
        BY <3>2, <1>2 DEF BusInv, BusTypes
      <4>2. QED
        BY <4>1 DEF Owes, Received
    <3>3. QED
      BY <3>1, <3>2
  <2>2. QED
    BY <2>1, OwedSame
<1>8. QED
  BY <1>2, <1>4, <1>5, <1>6, <1>7 DEF Device!Ask

(* What the device sees of the drives, when they do not move.               *)
LEMMA DrivesSame ==
    ASSUME UNCHANGED <<kind, medium, task>>
    PROVE  Supported' = Supported /\ DeviceMedium' = DeviceMedium /\ Owed' = Owed
<1>1. Supported' = Supported
  BY DEF Supported
<1>2. DeviceMedium' = DeviceMedium
  BY DEF DeviceMedium, InBytes, ToLe
<1>3. Owed' = Owed
  BY DEF Owed, OwedBy, Received, InBytes, ToLe
<1>4. QED
  BY <1>1, <1>2, <1>3

LEMMA GotoMaps ==
    ASSUME NEW label, Goto(label), pc # "moved", label # "moved"
    PROVE  UNCHANGED Device!deviceVars
<1>1. pc' = label /\ UNCHANGED <<kind, medium, task, req, reply>>
  BY DEF Goto, driveVars
<1>2. Stage' = "asked" /\ Stage = "asked"
  BY <1>1 DEF Stage
<1>3. DeviceCall' = DeviceCall
  BY <1>1, <1>2 DEF DeviceCall
<1>4. QED
  BY <1>1, <1>3, DrivesSame DEF Device!deviceVars

LEMMA ReturnMaps ==
    ASSUME BusInv, pc # "idle", NEW k, NEW x, BusReturn(k, x),
           req.op = "open" => k = "refused" \/ (k = "opened" /\ req.drive \in Supported),
           req.op = "read" => k = "error" \/ (k = "data" /\ x = DeviceMedium[req.drive][req.block]),
           req.op = "write" => k = "error" \/ (k = "done" /\ Stage = "handed_over")
    PROVE  Device!Answer
<1>1. req' = NoCall /\ reply' = [kind |-> k, data |-> x] /\ UNCHANGED <<kind, medium, task>>
  BY DEF BusReturn, driveVars
<1>2. Supported' = Supported /\ DeviceMedium' = DeviceMedium /\ Owed' = Owed
  BY <1>1, DrivesSame
<1>3. DeviceCall' = NoCall
  BY <1>1 DEF DeviceCall
<1>4. /\ DeviceCall # NoCall
      /\ DeviceCall.op = req.op /\ DeviceCall.drive = req.drive
      /\ DeviceCall.block = req.block /\ DeviceCall.stage = Stage
  BY CallMaps
<1>5. req.op \in {"open", "read", "write"}
  BY CallFacts
<1>6. reply'.kind = k /\ reply'.data = x
  BY <1>1
<1>7. k \in Device!Answers
  BY <1>4, <1>5 DEF Device!Answers
<1>8. k = "data" => x = DeviceMedium[DeviceCall.drive][DeviceCall.block]
  BY <1>4, <1>5
<1>9. QED
  BY <1>2, <1>3, <1>4, <1>6, <1>7, <1>8 DEF Device!Answer

(* How each step of the driver ends the call of the device, or does not.    *)
LEMMA FailsMaps == ASSUME BusInv, pc # "idle", Fails PROVE Device!Answer
<1>1. req.op \in {"open", "read", "write"}
  BY CallFacts
<1>2. BusReturn(IF req.op = "open" THEN "refused" ELSE "error", <<>>)
  BY DEF Fails
<1>3. QED
  BY <1>1, <1>2, ReturnMaps

(* The steps of the driver.                                                 *)
LEMMA ReadMaps == ASSUME BusInv, ReadData PROVE UNCHANGED Device!deviceVars
<1> DEFINE d == req.drive
<1>1. /\ task' = [task EXCEPT ![d].words = Tail(task[d].words)] /\ d \in Drives
      /\ pc = "data" /\ req.op # "write" /\ UNCHANGED <<kind, medium, req, reply>>
      /\ task \in [Drives -> Tasks]
  BY BusReadStep, CallFacts DEF ReadData, BusInv, BusTypes
<1>2. task[d].cmd # "WritePio"
  <2>1. req.op \in {"open", "read"} /\ Moving(d)
    BY <1>1, CallFacts, DataFacts
  <2>2. QED
    BY <2>1 DEF Moving, OnCall, CommandOf
<1>3. ASSUME NEW e \in Drives PROVE (Owes(e)' <=> Owes(e)) /\ (Owes(e) => task'[e] = task[e])
  <2>1. CASE e = d
    <3>1. task'[e].cmd = task[e].cmd
      BY <2>1, <1>1 DEF Tasks
    <3>2. QED
      BY <3>1, <2>1, <1>2 DEF Owes
  <2>2. CASE e # d
    <3>1. task'[e] = task[e]
      BY <2>2, <1>1
    <3>2. QED
      BY <3>1 DEF Owes, Received
  <2>3. QED
    BY <2>1, <2>2
<1>4. Owed' = Owed
  BY <1>3, OwedSame
<1>5. Supported' = Supported /\ DeviceMedium' = DeviceMedium
  BY <1>1 DEF Supported, DeviceMedium, InBytes, ToLe
<1>6. DeviceCall' = DeviceCall
  BY <1>1 DEF DeviceCall, Stage
<1>7. QED
  BY <1>1, <1>4, <1>5, <1>6, SMTT(30) DEF Device!deviceVars

(* The last word hands the write over.                                      *)
LEMMA WriteMaps ==
    ASSUME BusInv, BusInv', WriteData PROVE Device!HandOver \/ UNCHANGED Device!deviceVars
<1> DEFINE d == req.drive
<1>1. PICK more \in Seq(Words) :
         /\ task' = [task EXCEPT ![d].words = more]
         /\ \/ /\ pc' = "data" /\ status' = [status EXCEPT ![d] = Asking]
               /\ Len(more) # SectorWords
            \/ /\ pc' = "moved" /\ status' = [status EXCEPT ![d] = Busy]
               /\ Len(more) = SectorWords /\ InBytes(more) = req.data
  BY WriteStep
<1>2. /\ pc = "data" /\ req.op = "write" /\ UNCHANGED <<kind, medium, regs, req, reply>>
      /\ task \in [Drives -> Tasks] /\ status \in [Drives -> Statuses]
  BY DEF WriteData, BusInv, BusTypes
<1>3. d \in Drives /\ Moving(d) /\ Selected = d
  BY <1>2, CallFacts, DataFacts
<1>4. ~Owes(d) /\ task[d].cmd = "WritePio" /\ task[d].lba = req.block
  BY <1>2, <1>3 DEF Moving, OnCall, CommandOf, Writing, Owes, Received
<1>5. /\ task'[d].words = more /\ task'[d].cmd = "WritePio" /\ task'[d].lba = req.block
      /\ \A e \in Drives : e # d => task'[e] = task[e]
  BY <1>1, <1>2, <1>3, <1>4 DEF Tasks
<1>6. Supported' = Supported /\ DeviceMedium' = DeviceMedium
  BY <1>2 DEF Supported, DeviceMedium, InBytes, ToLe
<1>7. Stage = "asked"
  BY <1>2 DEF Stage
<1>8. CASE pc' = "data" /\ Len(more) # SectorWords
  <2>1. ~Owes(d)'
    BY <1>2, <1>5, <1>8 DEF Owes, Received
  <2>2. ASSUME NEW e \in Drives PROVE (Owes(e)' <=> Owes(e)) /\ (Owes(e) => task'[e] = task[e])
    <3>1. CASE e = d
      BY <3>1, <2>1, <1>2, <1>4
    <3>2. CASE e # d
      BY <3>2, <1>5 DEF Owes, Received
    <3>3. QED
      BY <3>1, <3>2
  <2>3. Owed' = Owed
    BY <2>2, OwedSame
  <2>4. DeviceCall' = DeviceCall
    BY <1>2, <1>8 DEF DeviceCall, Stage
  <2>5. QED
    BY <2>3, <2>4, <1>2, <1>6 DEF Device!deviceVars
<1>9. CASE /\ pc' = "moved" /\ status' = [status EXCEPT ![d] = Busy]
           /\ Len(more) = SectorWords /\ InBytes(more) = req.data
  <2>1. "ERR" \notin Status'
    BY <1>2, <1>3, <1>9 DEF Status, Selected, Busy
  <2>2. Stage' = "handed_over"
    BY <2>1, <1>2, <1>9 DEF Stage
  <2>3. /\ DeviceCall # NoCall
        /\ DeviceCall = [op |-> req.op, drive |-> req.drive, block |-> req.block,
                         data |-> req.data, stage |-> "asked"]
        /\ DeviceCall' = [op |-> req.op, drive |-> req.drive, block |-> req.block,
                          data |-> req.data, stage |-> "handed_over"]
    BY <2>2, <1>2, <1>7, <1>9, CallMaps, CallMapsNext
  <2>4. OwedBy(d)' = [block |-> req.block, data |-> req.data]
    BY <1>2, <1>5, <1>9, ZenonT(60) DEF OwedBy, Received, InBytes, ToLe
  <2>5. \A e \in Drives : e # d => OwedBy(e)' = OwedBy(e)
    BY <1>5, ZenonT(60) DEF OwedBy, Received, InBytes, ToLe
  <2>6. Owed' = [Owed EXCEPT ![d] = [block |-> req.block, data |-> req.data]]
    BY <2>4, <2>5, <1>2, <1>3 DEF Owed
  <2>7. DeviceCall' = [DeviceCall EXCEPT !.stage = "handed_over"]
    BY <2>3
  <2>8. /\ DeviceCall.op = "write" /\ DeviceCall.stage = "asked" /\ DeviceCall.drive = d
        /\ DeviceCall.block = req.block /\ DeviceCall.data = req.data
    BY <2>3, <1>2
  <2>9. QED
    BY <2>3, <2>6, <2>7, <2>8, <1>2, <1>6 DEF Device!HandOver
<1>10. QED
  BY <1>1, <1>8, <1>9

LEMMA FinishMaps ==
    ASSUME BusInv, FinishOpen \/ FinishRead \/ FinishWrite PROVE Device!Answer
<1>1. pc = "moved" /\ WordsMoved(req.drive) /\ req.drive \in Drives
  BY MovedFacts DEF FinishOpen, FinishRead, FinishWrite
<1>2. CASE Fails
  BY <1>1, <1>2, FailsMaps
<1>3. CASE FinishOpen
  <2>1. req.drive \in Supported /\ req.op = "open"
    BY <1>1, <1>3 DEF FinishOpen, WordsMoved, Supported
  <2>2. BusReturn("opened", <<>>)
    BY <1>3 DEF FinishOpen
  <2>3. QED
    BY <1>1, <2>1, <2>2, ReturnMaps
<1>4. CASE FinishRead /\ BusReturn("data", buf)
  <2>1. req.op = "read" /\ req.block \in Blocks
    BY <1>1, <1>4 DEF FinishRead, BusInv, CallTypes
  <2>2. buf = DeviceMedium[req.drive][req.block]
    BY <2>1, <1>1 DEF WordsMoved, DeviceMedium
  <2>3. QED
    BY <2>1, <2>2, <1>1, <1>4, ReturnMaps
<1>5. CASE FinishWrite /\ BusReturn("done", <<>>) /\ "ERR" \notin Status
  <2>1. req.op = "write" /\ Stage = "handed_over"
    BY <1>5 DEF FinishWrite, Stage
  <2>2. QED
    BY <2>1, <1>1, <1>5, ReturnMaps
<1>6. QED
  BY <1>2, <1>3, <1>4, <1>5 DEF FinishRead, FinishWrite

LEMMA DriverMaps ==
    ASSUME BusInv, BusInv', Driver PROVE Device!Next \/ UNCHANGED Device!deviceVars
<1>1. CASE TestEmpty
  BY <1>1, FailsMaps, GotoMaps DEF TestEmpty, Device!Next
<1>2. CASE PollBusy
  BY <1>2, GotoMaps DEF PollBusy
<1>3. CASE TestError
  BY <1>3, FailsMaps, GotoMaps DEF TestError, Device!Next
<1>4. CASE PollRequest
  BY <1>4, GotoMaps DEF PollRequest, AfterRequest
<1>5. CASE TestSignature
  BY <1>5, FailsMaps, GotoMaps DEF TestSignature, Device!Next
<1>6. CASE ReadData
  BY <1>6, ReadMaps
<1>7. CASE WriteData
  BY <1>7, WriteMaps DEF Device!Next
<1>8. CASE FinishOpen \/ FinishRead \/ FinishWrite
  BY <1>8, FinishMaps DEF Device!Next
<1>9. QED
  BY <1>1, <1>2, <1>3, <1>4, <1>5, <1>6, <1>7, <1>8 DEF Driver

-----------------------------------------------------------------------------
(* The steps of a drive.                                                    *)

(* A drive that owes nothing does nothing the device sees.                  *)
LEMMA PrepareMaps ==
    ASSUME BusInv, NEW d \in Drives, NEW bits, NEW t \in Tasks,
           "BUSY" \in status[d], ~Owes(d), t.words = <<>> \/ t.cmd # "WritePio",
           DriveStep(d, bits, t), UNCHANGED medium
    PROVE  UNCHANGED Device!deviceVars
<1>1. /\ task' = [task EXCEPT ![d] = t] /\ UNCHANGED <<kind, medium, pc, req, reply>>
      /\ task \in [Drives -> Tasks]
  BY DEF DriveStep, BusInv, BusTypes
<1>2. ~Owes(d)'
  BY <1>1, SectorAssumption DEF Owes, Received
<1>3. ASSUME NEW e \in Drives PROVE (Owes(e)' <=> Owes(e)) /\ (Owes(e) => task'[e] = task[e])
  <2>1. CASE e = d
    BY <2>1, <1>2
  <2>2. CASE e # d
    BY <2>2, <1>1 DEF Owes, Received
  <2>3. QED
    BY <2>1, <2>2
<1>4. Owed' = Owed
  BY <1>3, OwedSame
<1>5. Supported' = Supported /\ DeviceMedium' = DeviceMedium
  BY <1>1 DEF Supported, DeviceMedium, InBytes, ToLe
<1>6. pc \in {"empty", "not_busy"}
  BY BusyFacts
<1>7. DeviceCall' = DeviceCall
  BY <1>1, <1>6 DEF DeviceCall, Stage
<1>8. QED
  BY <1>1, <1>4, <1>5, <1>7 DEF Device!deviceVars

(* A write owed is the one the drive has as its task.                       *)
LEMMA OwedFacts ==
    ASSUME BusInv, NEW d \in Drives, "BUSY" \in status[d], Owes(d)
    PROVE  /\ task[d].words \in Sectors /\ task[d].lba \in Blocks
           /\ Owed[d] = [block |-> task[d].lba, data |-> InBytes(task[d].words)]
           /\ Owed[d] # NoWrite
           /\ Taken(d) => pc = "moved" /\ req.op = "write"
<1>1. /\ task[d] \in Tasks /\ task[d].lba \in Blocks
      /\ Taken(d) => pc = "moved" /\ req.op = "write"
  BY BusyFacts DEF Owes
<1>2. task[d].words \in Sectors
  BY <1>1, LenProperties DEF Tasks, Owes, Received, Sectors
<1>3. Owed[d] = [block |-> task[d].lba, data |-> InBytes(task[d].words)]
  BY DEF Owed, OwedBy, Owes
<1>4. InBytes(task[d].words) \in [1..(2 * SectorWords) -> Bytes]
  BY <1>2, SectorFacts
<1>5. QED
  BY <1>1, <1>2, <1>3, <1>4, SentinelAssumption

(* The drive no longer owes the sector.                                     *)
LEMMA SettledOwes ==
    ASSUME BusInv, NEW d \in Drives, NEW bits, DriveStep(d, bits, NoTask)
    PROVE  Owed' = [Owed EXCEPT ![d] = NoWrite]
<1>1. task' = [task EXCEPT ![d] = NoTask] /\ task \in [Drives -> Tasks] /\ NoTask.cmd = "none"
  BY DEF DriveStep, BusInv, BusTypes, NoTask
<1>2. OwedBy(d)' = NoWrite
  BY <1>1 DEF OwedBy
<1>3. \A e \in Drives : e # d => OwedBy(e)' = OwedBy(e)
  BY <1>1 DEF OwedBy, Received, InBytes, ToLe
<1>4. QED
  BY <1>2, <1>3 DEF Owed

(* Where the call is, seen from a drive that settles what it owes.          *)
LEMMA SettledStage ==
    ASSUME BusInv, NEW d \in Drives, "BUSY" \in status[d], Owes(d),
           NEW bits \in {Ready, Error}, DriveStep(d, bits, NoTask)
    PROVE  /\ pc # "idle" /\ req.drive = d /\ Stage = "handed_over" =>
                Stage' = IF bits = Error THEN "failed" ELSE "handed_over"
           /\ pc # "idle" /\ ~(req.drive = d /\ Stage = "handed_over") => Stage' = Stage
<1>1. /\ status' = [status EXCEPT ![d] = bits] /\ UNCHANGED <<pc, req, regs>>
      /\ status \in [Drives -> Statuses]
  BY DEF DriveStep, BusInv, BusTypes
<1>2. status[d] = Busy
  BY BusyFacts
<1>3. CASE pc = "moved" /\ req.op = "write" /\ req.drive = d
  <2>1. Selected = d /\ Status = Busy /\ Status' = bits
    BY <1>1, <1>2, <1>3, CallFacts DEF Status, Selected
  <2>2. "ERR" \notin Busy /\ "ERR" \in Error /\ "ERR" \notin Ready
    BY DEF Busy, Error, Ready
  <2>3. Stage = "handed_over"
    BY <2>1, <2>2, <1>3 DEF Stage
  <2>4. Stage' = IF bits = Error THEN "failed" ELSE "handed_over"
    BY <2>1, <2>2, <1>1, <1>3 DEF Stage
  <2>5. QED
    BY <2>3, <2>4, <1>3
<1>4. CASE pc # "idle" /\ req.drive # d
  <2>1. Selected = req.drive /\ Selected' = Selected /\ Selected \in Drives
    BY <1>1, <1>4, CallFacts DEF Selected
  <2>2. Status' = Status
    BY <2>1, <1>1, <1>4 DEF Status
  <2>3. Stage' = Stage
    BY <2>2, <1>1 DEF Stage
  <2>4. QED
    BY <2>3, <1>4
<1>5. CASE ~(pc = "moved" /\ req.op = "write")
  BY <1>1, <1>5 DEF Stage
<1>6. CASE pc = "idle"
  BY <1>6
<1>7. QED
  BY <1>3, <1>4, <1>5, <1>6

(* Storing and losing a sector are the two ends of a write owed.            *)
LEMMA CommitMaps == ASSUME BusInv, BusInv', NEW d \in Drives, Commit(d) PROVE Device!Store(d)
<1>1. /\ "BUSY" \in status[d] /\ Owes(d) /\ DriveStep(d, Ready, NoTask)
      /\ medium' = [medium EXCEPT ![d][task[d].lba] = task[d].words]
  BY DEF Commit, Working, Owes, Ready
<1>2. /\ task[d].words \in Sectors /\ task[d].lba \in Blocks
      /\ Owed[d] = [block |-> task[d].lba, data |-> InBytes(task[d].words)]
      /\ Owed[d] # NoWrite
  BY <1>1, OwedFacts
<1>3. Owed' = [Owed EXCEPT ![d] = NoWrite]
  BY <1>1, SettledOwes
<1>4. /\ UNCHANGED <<kind, pc, req, reply>> /\ medium \in [Drives -> [Blocks -> Sectors]]
  BY <1>1 DEF DriveStep, BusInv, BusTypes
<1>5. Supported' = Supported
  BY <1>4 DEF Supported
<1>6. DeviceCall' = DeviceCall
  <2>1. CASE pc = "idle"
    BY <2>1, <1>4, NoCallMaps DEF DeviceCall, BusInv, CallTypes
  <2>2. CASE pc # "idle"
    <3>1. Stage' = Stage
      BY <2>2, <1>1, SettledStage, StatusesDiffer
    <3>2. QED
      BY <3>1, <1>4 DEF DeviceCall
  <2>3. QED
    BY <2>1, <2>2
<1>7. DeviceMedium' = [DeviceMedium EXCEPT ![d][Owed[d].block] = Owed[d].data]
  <2>1. ASSUME NEW e \in Drives, NEW b \in Blocks
        PROVE  InBytes(medium[e][b])' = IF e = d /\ b = task[d].lba THEN InBytes(task[d].words)
                                        ELSE InBytes(medium[e][b])
    <3>1. medium'[e][b] = IF e = d /\ b = task[d].lba THEN task[d].words ELSE medium[e][b]
      BY <1>1, <1>4
    <3>2. InBytes(medium[e][b])' = InBytes(medium'[e][b])
      BY DEF InBytes, ToLe
    <3>3. QED
      BY <3>1, <3>2
  <2> DEFINE lba == task[d].lba
             x == InBytes(task[d].words)
             M == DeviceMedium
             N == DeviceMedium'
  <2>2. /\ M = [e \in Drives |-> [b \in Blocks |-> M[e][b]]]
        /\ N = [e \in Drives |-> [b \in Blocks |-> N[e][b]]]
    BY DEF DeviceMedium
  <2>3. ASSUME NEW e \in Drives, NEW b \in Blocks
        PROVE  N[e][b] = IF e = d /\ b = lba THEN x ELSE M[e][b]
    BY <2>1 DEF DeviceMedium
  <2>4. Owed[d].block = lba /\ Owed[d].data = x /\ lba \in Blocks
    BY <1>2
  <2> HIDE DEF lba, x, M, N
  <2>5. N = [M EXCEPT ![d] = [M[d] EXCEPT ![lba] = x]]
    BY <2>2, <2>3, <2>4, SMTT(30)
  <2>6. QED
    BY <2>4, <2>5 DEF M, N
<1>8. QED
  BY <1>2, <1>3, <1>4, <1>5, <1>6, <1>7 DEF Device!Store

LEMMA LoseMaps == ASSUME BusInv, BusInv', NEW d \in Drives, LoseSector(d) PROVE Device!Fail(d)
<1>1. /\ "BUSY" \in status[d] /\ Owes(d) /\ DriveStep(d, Error, NoTask) /\ medium' = medium
  BY DEF LoseSector, Working, Owes, Error
<1>2. Owed[d] # NoWrite
  BY <1>1, OwedFacts
<1>3. Owed' = [Owed EXCEPT ![d] = NoWrite]
  BY <1>1, SettledOwes
<1>4. UNCHANGED <<kind, pc, req, reply>>
  BY <1>1 DEF DriveStep
<1>5. Supported' = Supported /\ DeviceMedium' = DeviceMedium
  BY <1>1, <1>4 DEF Supported, DeviceMedium, InBytes, ToLe
<1>6. DeviceCall' = IF /\ DeviceCall # NoCall /\ DeviceCall.drive = d
                       /\ DeviceCall.stage = "handed_over"
                    THEN [DeviceCall EXCEPT !.stage = "failed"] ELSE DeviceCall
  <2>1. CASE pc = "idle"
    BY <2>1, <1>4, NoCallMaps DEF DeviceCall, BusInv, CallTypes
  <2>2. CASE pc # "idle"
    <3>1. /\ DeviceCall = [op |-> req.op, drive |-> req.drive, block |-> req.block,
                           data |-> req.data, stage |-> Stage]
          /\ DeviceCall' = [op |-> req.op, drive |-> req.drive, block |-> req.block,
                            data |-> req.data, stage |-> Stage']
          /\ DeviceCall # NoCall
      BY <2>2, <1>4, CallMaps, CallMapsNext
    <3>2. CASE req.drive = d /\ Stage = "handed_over"
      <4>1. Stage' = "failed"
        BY <3>2, <2>2, <1>1, SettledStage
      <4>2. QED
        BY <4>1, <3>1, <3>2
    <3>3. CASE ~(req.drive = d /\ Stage = "handed_over")
      <4>1. Stage' = Stage
        BY <3>3, <2>2, <1>1, SettledStage
      <4>2. QED
        BY <4>1, <3>1, <3>3
    <3>4. QED
      BY <3>2, <3>3
  <2>3. QED
    BY <2>1, <2>2
<1>7. QED
  BY <1>2, <1>3, <1>4, <1>5, <1>6 DEF Device!Fail

LEMMA DriveMaps ==
    ASSUME BusInv, BusInv', NEW d \in Drives, Drive(d)
    PROVE  Device!Next \/ UNCHANGED Device!deviceVars
<1>1. CASE Fetch(d)
  <2> DEFINE t == [task[d] EXCEPT !.words = medium[d][task[d].lba]]
  <2>1. /\ "BUSY" \in status[d] /\ task[d].cmd = "ReadPio" /\ task[d].lba \in Blocks
        /\ DriveStep(d, {"DRDY", "DRQ"}, t) /\ UNCHANGED medium
    BY <1>1 DEF Fetch, Working
  <2>2. medium[d][task[d].lba] \in Seq(Words) /\ task[d] \in Tasks
    BY <2>1, SectorFacts DEF BusInv, BusTypes
  <2>3. t \in Tasks /\ t.cmd # "WritePio" /\ ~Owes(d)
    BY <2>1, <2>2 DEF Tasks, Owes
  <2> HIDE DEF t
  <2>4. QED
    BY <2>1, <2>3, PrepareMaps
<1>2. CASE AskForData(d)
  <2>1. /\ "BUSY" \in status[d] /\ ~Owes(d)
        /\ DriveStep(d, {"DRDY", "DRQ"}, task[d]) /\ UNCHANGED medium
    BY <1>2 DEF AskForData, Working, Owes
  <2>2. task[d] \in Tasks /\ task[d].words = <<>>
    BY <2>1, BusyFacts DEF Started
  <2>3. QED
    BY <2>1, <2>2, PrepareMaps
<1>3. CASE Identify(d)
  <2> DEFINE t == [task[d] EXCEPT !.words = Identity, !.signature = Signature(kind[d])]
  <2>1. /\ "BUSY" \in status[d] /\ task[d].cmd = "IdentifyDevice"
        /\ DriveStep(d, {"DRDY", "DRQ"}, t) /\ UNCHANGED medium
    BY <1>3 DEF Identify, Working
  <2>2. /\ Identity \in Seq(Words) /\ task[d] \in Tasks
        /\ Signature(kind[d]) \in Bytes \X Bytes
    BY <2>1, IdentityIsSector, SectorFacts, BusyFacts, SignatureIsBytes
  <2>3. t \in Tasks /\ t.cmd # "WritePio" /\ ~Owes(d)
    BY <2>1, <2>2 DEF Tasks, Owes
  <2> HIDE DEF t
  <2>4. QED
    BY <2>1, <2>3, PrepareMaps
<1>4. CASE Abort(d)
  <2> DEFINE t == [task[d] EXCEPT !.signature = Signature(kind[d])]
  <2>1. /\ "BUSY" \in status[d] /\ ~Owes(d)
        /\ DriveStep(d, {"DRDY", "ERR"}, t) /\ UNCHANGED medium
    BY <1>4 DEF Abort, Owes
  <2>2. /\ task[d] \in Tasks /\ task[d].words = <<>>
        /\ Signature(kind[d]) \in Bytes \X Bytes
    BY <2>1, BusyFacts, SignatureIsBytes DEF Started
  <2>3. t \in Tasks /\ t.words = <<>>
    BY <2>2 DEF Tasks
  <2> HIDE DEF t
  <2>4. QED
    BY <2>1, <2>3, PrepareMaps
<1>5. CASE Commit(d)
  BY <1>5, CommitMaps DEF Device!Next
<1>6. CASE LoseSector(d)
  BY <1>6, LoseMaps DEF Device!Next
<1>7. QED
  BY <1>1, <1>2, <1>3, <1>4, <1>5, <1>6 DEF Drive

LEMMA QuietMaps ==
    ASSUME UNCHANGED <<kind, medium, status, task, regs, opened, pc, req, buf, reply, heard>>
    PROVE  UNCHANGED Device!deviceVars
<1>1. Stage' = Stage
  BY DEF Stage, Status, Selected, SelectedBy
<1>2. DeviceCall' = DeviceCall
  BY <1>1 DEF DeviceCall
<1>3. QED
  BY <1>2, DrivesSame DEF Device!deviceVars

(* The initial state and every step map to those of the device.             *)
LEMMA InitMaps == ASSUME BusInit PROVE Device!Init
<1>1. /\ req = NoCall /\ reply = NoReply /\ task = [d \in Drives |-> NoTask]
  BY DEF BusInit
<1>2. \A d \in Drives : OwedBy(d) = NoWrite
  BY <1>1 DEF OwedBy, NoTask
<1>3. QED
  BY <1>1, <1>2 DEF Device!Init, DeviceCall, Owed

LEMMA NextMaps == ASSUME BusInv, BusInv', [BusNext]_busVars PROVE [Device!Next]_Device!deviceVars
<1>1. ASSUME NEW d \in Drives, Open(d) PROVE Device!Ask
  BY <1>1, CommandMaps DEF Open
<1>2. ASSUME NEW d \in Drives, NEW b \in Blocks, ReadBlock(d, b) PROVE Device!Ask
  BY <1>2, CommandMaps DEF ReadBlock
<1>3. ASSUME NEW d \in Drives, NEW b \in Blocks, NEW c \in Contents, WriteBlock(d, b, c)
      PROVE  Device!Ask
  BY <1>3, CommandMaps DEF WriteBlock
<1>4. ASSUME NEW d \in Drives, FallSilent(d) PROVE UNCHANGED Device!deviceVars
  BY <1>4, QuietMaps DEF FallSilent
<1>5. CASE UNCHANGED busVars
  BY <1>5, QuietMaps DEF busVars, driveVars
<1>6. QED
  BY <1>1, <1>2, <1>3, <1>4, <1>5, DriverMaps, DriveMaps DEF BusNext, Device!Next

(* The driver implements BlockDevice (bus.rs:126-272), for every set of     *)
(* blocks, every length of a sector and every contents: a read that         *)
(* succeeds returns the contents of the block it was asked for, and a write *)
(* changes that block of that drive only.                                   *)
THEOREM AtaIsBlockDevice == BusSpec => IsBlockDevice
<1>1. BusInit => Device!Init
  BY InitMaps
<1>2. BusInv /\ BusInv' /\ [BusNext]_busVars => [Device!Next]_Device!deviceVars
  BY NextMaps
<1>3. QED
  BY <1>1, <1>2, BusInvariant, PTL DEF BusSpec, IsBlockDevice, Device!Spec
=============================================================================
