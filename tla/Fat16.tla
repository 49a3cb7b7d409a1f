------------------------------- MODULE Fat16 -------------------------------
(***************************************************************************)
(* The FAT16 volume as the kernel reads it: partition, regions, cluster    *)
(* chains, directory entries and names.  Operators only; Files walks paths *)
(* and reads files with them.                                              *)
(*                                                                         *)
(* Source: src/pkg/storage/src, src/pkg/kernel/src/drivers/ata.  Every     *)
(* operator takes the volume v.  Lengths are scaled down by constants.     *)
(***************************************************************************)
EXTENDS Naturals, Sequences, FiniteSets

CONSTANTS
    SectorSize,   \* bytes of a block, also bpb.bytes_per_sector() (512)
    EntryLen,     \* DirEntry::LEN (32)
    NameLen,      \* bytes of a short name before the period (8)
    ExtLen,       \* bytes after it (3)
    Spelling      \* what each part of a path, as typed, amounts to

ASSUME GeometryAssumption ==
    /\ {SectorSize, EntryLen, NameLen, ExtLen} \subseteq Nat \ {0}
    /\ SectorSize % EntryLen = 0 /\ SectorSize % 2 = 0

ROOT      == 2000000000    \* Cluster::ROOT_DIR, a number no entry holds
EndMark   == 65528        \* the first FAT word that ends a chain
EndWords  == EndMark..65535
Lba28     == 268435456     \* the drive gets 28 bits of a block number
PerSector == SectorSize \div EntryLen

-----------------------------------------------------------------------------
(* External: what partitioning and formatting have put on the disk.  A      *)
(* volume names where its partition starts, its chains of clusters, and the *)
(* slots of each directory (by its first cluster).  A block that holds no   *)
(* directory reads as empty slots, a word of no chain as zero.              *)
RootLba(v) == v.begin + v.reserved + v.fats * v.fatSectors
DataLba(v) == RootLba(v) + v.rootSectors

Chain(v, c)     == CHOOSE s \in v.chains : s[1] = c
ClusterSize(v)  == v.spc * SectorSize
EmptySlot       == [name |-> "eod", attrs |-> {}, hi |-> 0, lo |-> 0, size |-> 0]
SlotNo(v, d, n) == IF n <= Len(v.dirs[d]) THEN v.dirs[d][n] ELSE EmptySlot

DiskSlot(v, lba, j) ==
    IF lba >= RootLba(v) /\ lba < DataLba(v)
    THEN SlotNo(v, ROOT, (lba - RootLba(v)) * PerSector + j)
    ELSE LET off  == lba - DataLba(v)
             c    == off \div v.spc + 2
             Used == {d \in DOMAIN v.dirs \ {ROOT} :
                         \E i \in DOMAIN Chain(v, d) : Chain(v, d)[i] = c}
         IN IF lba < DataLba(v) \/ Used = {} THEN EmptySlot
            ELSE LET d == CHOOSE x \in Used : TRUE
                     i == CHOOSE x \in DOMAIN Chain(v, d) : Chain(v, d)[x] = c
                 IN SlotNo(v, d, ((i - 1) * v.spc + (off % v.spc)) * PerSector + j)

Linked(v, c) == {n \in v.clusters : \E s \in v.chains :
                    \E k \in 1..(Len(s) - 1) : s[k] = c /\ s[k + 1] = n}
IsLast(v, c) == \E s \in v.chains : s[Len(s)] = c

DiskWord(v, lba, byte) ==
    IF lba < v.begin + v.reserved THEN 0
    ELSE LET c == ((lba - (v.begin + v.reserved)) * SectorSize + byte) \div 2
         IN IF Linked(v, c) # {} THEN CHOOSE n \in Linked(v, c) : TRUE
            ELSE IF IsLast(v, c) THEN 65535 ELSE 0

-----------------------------------------------------------------------------
(* MbrTable::parse reads the entries, of which status, first block and      *)
(* number of blocks count; partitions keeps the active ones, and            *)
(* filesystem::init mounts the first of them.                               *)
Entries(v)  == v.mbr
IsActive(p) == p.status = 128

MutPartition(v) == Entries(v)[1]               \* active or not

Partition(v) ==
    LET Active == {i \in DOMAIN Entries(v) : IsActive(Entries(v)[i])}
    IN Entries(v)[CHOOSE i \in Active : \A k \in Active : i <= k]

(* Partition::read_block refuses blocks behind the partition; the driver    *)
(* passes the rest on in 28 bits.                                           *)
InPartition(v, block) == block < Partition(v).total
Lba(v, block)         == (Partition(v).begin + block) % Lba28

(* Fat16Bpb: the fields of the first block of the partition that count.     *)
Bpb(v) == [bytes_per_sector |-> SectorSize, sectors_per_cluster |-> v.spc,
           reserved_sector_count |-> v.reserved, fat_count |-> v.fats,
           root_entries_count |-> v.rootEntries, sectors_per_fat |-> v.fatSectors]

(* Fat16Impl::new                                                           *)
RootSize(v) == LET n == Bpb(v).bytes_per_sector
               IN (Bpb(v).root_entries_count * EntryLen + n - 1) \div n
FatStart(v)  == Bpb(v).reserved_sector_count
RootStart(v) == FatStart(v) + Bpb(v).fat_count * Bpb(v).sectors_per_fat
DataStart(v) == RootStart(v) + RootSize(v)

(* cluster_to_sector, and the sectors read_dir_entries scans there.         *)
FirstSector(v, c) ==
    IF c = ROOT THEN RootStart(v)
    ELSE IF c < 2 THEN DataStart(v) ELSE DataStart(v) + (c - 2) * Bpb(v).sectors_per_cluster

SectorCount(v, c) == IF c = ROOT THEN RootSize(v) ELSE Bpb(v).sectors_per_cluster

(* get_next_cluster: the block and the byte of the word, and what it says.  *)
FatBlock(v, c) == FatStart(v) + ((c % 65536) * 2) \div SectorSize
FatByte(c)     == ((c % 65536) * 2) % SectorSize

Word(v, c)   == DiskWord(v, Lba(v, FatBlock(v, c)), FatByte(c))
IsLink(w)    == w # 0 /\ w \notin EndWords
HasNext(v, c) == IsLink(Word(v, c))

-----------------------------------------------------------------------------
(* DirEntry: the attributes of a slot and the entry parsed from it.         *)
LFN == {"READ_ONLY", "HIDDEN", "SYSTEM", "VOLUME_ID"}

EntryCluster(e) == e.hi * 65536 + e.lo
IsDirectory(e)  == "DIRECTORY" \in e.attrs
IsFile(e)       == ~IsDirectory(e) /\ "VOLUME_ID" \notin e.attrs
IsLongName(e)   == LFN \subseteq e.attrs
IsEnd(e)        == e.name = "eod"
IsListed(e)     == e.name # "unused" /\ ~IsLongName(e)

(* The entries of one sector up to the first slot never used, and whether   *)
(* there is one.                                                            *)
SectorSlots(v, block) == [j \in 1..PerSector |-> DiskSlot(v, Lba(v, block), j)]
EndsIn(v, block)      == \E j \in 1..PerSector : IsEnd(SectorSlots(v, block)[j])

MutSectorEntries(v, block) ==                  \* scans behind the end mark
    SelectSeq(SectorSlots(v, block), IsListed)

SectorEntries(v, block) ==
    LET slots == SectorSlots(v, block)
        read[n \in 0..PerSector] ==
            IF n = 0 THEN <<>>
            ELSE IF IsListed(slots[n]) /\ \A j \in 1..n : ~IsEnd(slots[j])
                 THEN Append(read[n - 1], slots[n])
                 ELSE read[n - 1]
    IN read[PerSector]

(* ShortFileName::parse.  The spelling of a part: what it is in upper case  *)
(* and padded, the length before and after the first period, and whether it *)
(* contains a forbidden character.  The check of the length of the          *)
(* extension is commented out: a longer one overruns the array.             *)
IsEmpty(part)      == Spelling[part].empty
NameRefused(part)  == IsEmpty(part) \/ Spelling[part].forbidden
                      \/ Spelling[part].stem > NameLen
NameOverruns(part) == ~NameRefused(part) /\ Spelling[part].ext > ExtLen

-----------------------------------------------------------------------------
(* External: what partitioning and formatting promise of a volume.  The     *)
(* first active entry of the table is its partition, within reach of the    *)
(* drive; its chains are of different clusters; a directory fits into its   *)
(* chain; one that can be named has a chain, and so has a file of any size. *)
IsHead(v, c) == \E s \in v.chains : s[1] = c

RegionsFormed(v) ==
    /\ {v.begin, v.reserved, v.fats, v.fatSectors} \subseteq Nat
    /\ {v.spc, v.rootEntries, v.rootSectors} \subseteq Nat \ {0}
    /\ v.rootEntries * EntryLen \in ((v.rootSectors - 1) * SectorSize + 1)..(v.rootSectors * SectorSize)

TableFormed(v) ==
    \E i \in DOMAIN v.mbr :
        /\ i \in Nat /\ IsActive(v.mbr[i])
        /\ \A k \in DOMAIN v.mbr : IsActive(v.mbr[k]) => k \in Nat /\ i <= k
        /\ v.mbr[i].begin = v.begin /\ v.mbr[i].total \in Nat
        /\ v.begin + v.mbr[i].total <= Lba28

ChainsFormed(v) ==
    /\ \A c \in v.clusters : c \in Nat /\ 2 <= c /\ c < EndMark
    /\ \A s \in v.chains : s \in Seq(v.clusters) /\ s # <<>>
    /\ \A s, t \in v.chains : \A i \in DOMAIN s, j \in DOMAIN t :
          s[i] = t[j] => s = t /\ i = j

SlotsFit(v, d) ==
    IF d = ROOT THEN Len(v.dirs[d]) <= v.rootSectors * PerSector
    ELSE IsHead(v, d) /\ Len(v.dirs[d]) <= Len(Chain(v, d)) * v.spc * PerSector

SlotsOf(v) == UNION {{v.dirs[d][k] : k \in DOMAIN v.dirs[d]} : d \in DOMAIN v.dirs}

DirectoriesFormed(v) ==
    /\ ROOT \in DOMAIN v.dirs
    /\ \A d \in DOMAIN v.dirs : v.dirs[d] \in Seq(SlotsOf(v)) /\ SlotsFit(v, d)

IsNamed(e) == \E part \in DOMAIN Spelling : Spelling[part].short = e.name

EntryFormed(v, e) ==
    /\ e.hi = 0 /\ e.lo \in Nat /\ e.size \in Nat
    /\ IsDirectory(e) /\ IsNamed(e) => e.lo \in DOMAIN v.dirs \ {ROOT}
    /\ IsFile(e) /\ e.size > 0 => IsHead(v, e.lo)

WellFormed(v) ==
    /\ RegionsFormed(v) /\ TableFormed(v) /\ ChainsFormed(v) /\ DirectoriesFormed(v)
    /\ \A e \in SlotsOf(v) : IsListed(e) => EntryFormed(v, e)
=============================================================================
