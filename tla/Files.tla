------------------------------- MODULE Files -------------------------------
(***************************************************************************)
(* The file calls of a family of processes: open, read and close on the    *)
(* descriptor table they share, and the listing of directories, down to    *)
(* the blocks of a FAT16 volume.                                           *)
(*                                                                         *)
(* Source: src/pkg/kernel/src/utils/resource.rs, .../syscall/service.rs,   *)
(* src/pkg/storage/src/fs/fat16.  The kernel runs one call at a time, from *)
(* its entry to its end; an action is one block read, or the decision that *)
(* follows it.  Any block read may fail in the drive.                      *)
(***************************************************************************)
EXTENDS Fat16

CONSTANTS
    Volumes,     \* the volumes, by name, one of which is mounted
    Paths,       \* paths the programs open: the parts between slashes
    ListPaths,   \* paths the programs list
    ReadSizes,   \* lengths of their buffers
    FdCount,     \* descriptors are u8 (256; a small instance has fewer)
    MaxOpen,     \* bound: with so many files open no other is opened
    Closable,    \* bound: the descriptors programs close
    Faulty       \* may the drive fail

ASSUME VolumeAssumption == \A name \in DOMAIN Volumes : WellFormed(Volumes[name])

(* The parts are counted without the empty ones.  Only "/" has no parts; a  *)
(* path of several slashes has empty parts only.                            *)
PartCount(path) == Cardinality({i \in DOMAIN path : ~IsEmpty(path[i])})
OnlySlashes(path) == path # <<>> /\ PartCount(path) = 0

(* The slashes in front of a name are gone, as find_path trims them; a path *)
(* to be opened names something.                                            *)
ASSUME PathAssumption ==
    /\ Paths \cup ListPaths \subseteq Seq(DOMAIN Spelling)
    /\ \A path \in Paths : path # <<>> /\ ~IsEmpty(path[1])
    /\ \A path \in ListPaths : path # <<>> => OnlySlashes(path) \/ ~IsEmpty(path[1])

ASSUME DescriptorAssumption ==
    /\ FdCount \in Nat /\ FdCount > 2
    /\ MaxOpen \in Nat
    /\ ReadSizes \subseteq Nat

VARIABLES
    vol,         \* the mounted volume
    handles,     \* ResourceSet.handles
    recycled,    \* ResourceSet.recycled
    op,          \* the call the kernel is executing
    last         \* what the last call returned

vars == <<vol, handles, recycled, op, last>>

V == Volumes[vol]

Console == [kind |-> "console"]

(* The fields of File, then what the properties remember: the path it was   *)
(* opened by, the bytes delivered so far and whether a read has failed.     *)
NewFile(e, path) == [kind |-> "file", first |-> EntryCluster(e), size |-> e.size,
                     offset |-> 0, path |-> path, got |-> <<>>, broken |-> FALSE]
IsOpenFile(fd) == fd \in DOMAIN handles /\ handles[fd].kind = "file"

Idle == [at |-> "idle"]
Nothing == [call |-> "none"]

(* ResourceSet::default                                                     *)
Init ==
    /\ vol \in DOMAIN Volumes
    /\ handles = [fd \in 0..2 |-> Console]
    /\ recycled = <<>>
    /\ op = Idle
    /\ last = Nothing

-----------------------------------------------------------------------------
Return(r) == op' = Idle /\ last' = r

BlockReads(block) == InPartition(V, block)
BlockFails(block) == Faulty \/ ~InPartition(V, block)

PathReturns(ret, faulted) ==
    Return([call |-> op.call, path |-> op.path, ret |-> ret, faulted |-> faulted])

(* sys_open and list_dir, down to find_path.  A walk that has passed the    *)
(* last part reads the directory to be listed.                              *)
ScanOf(call, path, i, dir, faulted) ==
    [at |-> "scan", call |-> call, path |-> path, i |-> i, dir |-> dir,
     sector |-> 0, seen |-> <<>>, faulted |-> faulted]

OpenCall ==
    /\ op = Idle /\ Cardinality({fd \in DOMAIN handles : IsOpenFile(fd)}) < MaxOpen
    /\ \E path \in Paths : op' = ScanOf("open", path, 1, ROOT, FALSE)
    /\ last' = Nothing
    /\ UNCHANGED <<vol, handles, recycled>>

(* "/" has no entry, so that it cannot be opened, but it can be listed.     *)
OpenRoot ==
    /\ op = Idle
    /\ Return([call |-> "open", path |-> <<>>, ret |-> "NotFound", faulted |-> FALSE])
    /\ UNCHANGED <<vol, handles, recycled>>

ListCall ==
    /\ op = Idle
    /\ \E path \in ListPaths :
         ~OnlySlashes(path) /\ op' = ScanOf("list", path, 1, ROOT, FALSE)
    /\ last' = Nothing
    /\ UNCHANGED <<vol, handles, recycled>>

(* read_dir takes only "/" for the root; for more slashes find_path returns *)
(* no entry.                                                                *)
ListSlashes ==
    /\ op = Idle
    /\ \E path \in ListPaths :
         /\ OnlySlashes(path)
         /\ Return([call |-> "list", path |-> path, ret |-> "NotADirectory",
                    faulted |-> FALSE])
    /\ UNCHANGED <<vol, handles, recycled>>

(* read_dir_entries, one sector.  A failing block fails the whole call.     *)
ScanBlock == FirstSector(V, op.dir) + op.sector

AfterSector ==
    IF EndsIn(V, ScanBlock) THEN [op EXCEPT !.at = "match"]
    ELSE IF op.sector + 1 < SectorCount(V, op.dir)
         THEN [op EXCEPT !.sector = @ + 1]
         ELSE [op EXCEPT !.at = IF op.dir = ROOT THEN "match" ELSE "follow"]

ScanSector ==
    /\ op.at = "scan" /\ BlockReads(ScanBlock)
    /\ op' = [AfterSector EXCEPT !.seen = op.seen \o SectorEntries(V, ScanBlock)]
    /\ UNCHANGED <<vol, handles, recycled, last>>

ScanFails ==
    /\ op.at = "scan" /\ BlockFails(ScanBlock)
    /\ PathReturns("Io", TRUE)
    /\ UNCHANGED <<vol, handles, recycled>>

(* The next cluster of a directory.  An error here is taken for its end.    *)
MutFollowDir ==                                \* the same cluster once more
    /\ op.at = "follow"
    /\ op' = IF HasNext(V, op.dir)
             THEN [op EXCEPT !.at = "scan", !.sector = 0, !.seen = <<>>]
             ELSE [op EXCEPT !.at = "match"]
    /\ UNCHANGED <<vol, handles, recycled, last>>

FollowDir ==
    /\ op.at = "follow"
    /\ \/ /\ BlockReads(FatBlock(V, op.dir))
          /\ op' = IF HasNext(V, op.dir)
                   THEN [op EXCEPT !.at = "scan", !.sector = 0,
                                   !.dir = Word(V, op.dir)]
                   ELSE [op EXCEPT !.at = "match"]
       \/ /\ BlockFails(FatBlock(V, op.dir))
          /\ op' = [op EXCEPT !.at = "match", !.faulted = TRUE]
    /\ UNCHANGED <<vol, handles, recycled, last>>

(* find_entry on the entries read: the name is parsed only now; then the    *)
(* first entry of that name, or none.                                       *)
Part == op.path[op.i]
Matches == {k \in DOMAIN op.seen : op.seen[k].name = Spelling[Part].short}
Found == op.seen[CHOOSE k \in Matches : \A j \in Matches : k <= j]
IsLastPart == op.i = PartCount(op.path)
Passed == op.i > PartCount(op.path)
Looks == op.at = "match" /\ ~Passed /\ ~NameRefused(Part) /\ ~NameOverruns(Part)

NameFails ==
    /\ op.at = "match" /\ ~Passed
    /\ \/ NameOverruns(Part) /\ op' = [op EXCEPT !.at = "panic"] /\ UNCHANGED last
       \/ NameRefused(Part) /\ PathReturns("BadName", op.faulted)
    /\ UNCHANGED <<vol, handles, recycled>>

(* find_path, and what open_file and read_dir make of its result.           *)
MatchFails ==
    /\ Looks
    /\ \/ Matches = {} /\ op.call = "open" /\ PathReturns("NotFound", op.faulted)
       \/ Matches = {} /\ op.call = "list" /\ PathReturns("NotADirectory", op.faulted)
       \/ Matches # {} /\ IsLastPart /\ op.call = "open" /\ ~IsFile(Found)
          /\ PathReturns("NotAFile", op.faulted)
       \/ Matches # {} /\ (op.call = "list" \/ ~IsLastPart) /\ ~IsDirectory(Found)
          /\ PathReturns("NotADirectory", op.faulted)
    /\ UNCHANGED <<vol, handles, recycled>>

Descend ==
    /\ Looks
    /\ Matches # {} /\ (op.call = "list" \/ ~IsLastPart) /\ IsDirectory(Found)
    /\ op' = ScanOf(op.call, op.path, op.i + 1, EntryCluster(Found), op.faulted)
    /\ UNCHANGED <<vol, handles, recycled, last>>

(* read_dir and ls: every entry read is shown.                              *)
Shown == [k \in DOMAIN op.seen |-> op.seen[k].name]

ListEnds ==
    /\ op.at = "match" /\ Passed
    /\ Return([call |-> "list", path |-> op.path, ret |-> "Ok",
               faulted |-> op.faulted, shown |-> Shown])
    /\ UNCHANGED <<vol, handles, recycled>>

(* ResourceSet::open: the descriptor closed last, or the next number, which *)
(* is cut to u8: when all numbers are in use it is 0 again, and the new     *)
(* file takes the place of what was there.                                  *)
MutFreeFd == Cardinality(DOMAIN handles) % FdCount  \* recycled ids not popped

FreeFd == IF recycled # <<>> THEN recycled[Len(recycled)]
          ELSE Cardinality(DOMAIN handles) % FdCount

OpenFile ==
    /\ Looks
    /\ Matches # {} /\ IsLastPart /\ op.call = "open" /\ IsFile(Found)
    /\ handles' = [fd \in DOMAIN handles \cup {FreeFd} |->
                      IF fd = FreeFd THEN NewFile(Found, op.path) ELSE handles[fd]]
    /\ recycled' = SubSeq(recycled, 1, Len(recycled) - 1)
    /\ PathReturns("Ok", op.faulted)
    /\ UNCHANGED vol

(* ResourceSet::close                                                       *)
CloseCall ==
    /\ op = Idle
    /\ \E fd \in DOMAIN handles \cap Closable :
         /\ handles' = [f \in DOMAIN handles \ {fd} |-> handles[f]]
         /\ recycled' = Append(recycled, fd)
         /\ Return([call |-> "close", fd |-> fd])
    /\ UNCHANGED vol

-----------------------------------------------------------------------------
(* File::read.  At its end the whole buffer is returned; an error returns   *)
(* nothing, although the offset may have moved.  Nothing is read for an     *)
(* empty buffer or behind the end of the file.                              *)
Smaller(a, b) == IF a <= b THEN a ELSE b

ReadReturns(h, n) ==
    /\ handles' = [handles EXCEPT ![op.fd] = h]
    /\ Return([call |-> "read", fd |-> op.fd, n |-> n])

ReadFails(h) ==
    /\ handles' = [handles EXCEPT ![op.fd] = [h EXCEPT !.broken = TRUE, !.got = <<>>]]
    /\ Return([call |-> "failed read", fd |-> op.fd])

MutWanted(h, n) == n                           \* not cut at the end of the file

Wanted(h, n) == Smaller(n, h.size - h.offset)

ReadCall ==
    /\ op = Idle
    /\ \E fd \in DOMAIN handles, n \in ReadSizes :
         /\ IsOpenFile(fd)
         /\ IF handles[fd].offset >= handles[fd].size \/ n = 0
            THEN Return([call |-> "read", fd |-> fd, n |-> 0])
            ELSE /\ op' = [at |-> "seek", fd |-> fd,
                           want |-> Wanted(handles[fd], n),
                           hops |-> handles[fd].offset \div ClusterSize(V),
                           cluster |-> handles[fd].first]
                 /\ last' = Nothing
    /\ UNCHANGED <<vol, handles, recycled>>

File == handles[op.fd]

(* ensure_correct_cluster: from the first cluster along the chain.          *)
Seek ==
    /\ op.at = "seek" /\ op.hops > 0
    /\ op.cluster # 0 /\ BlockReads(FatBlock(V, op.cluster))
    /\ HasNext(V, op.cluster)
    /\ op' = [op EXCEPT !.hops = @ - 1, !.cluster = Word(V, op.cluster)]
    /\ UNCHANGED <<vol, handles, recycled, last>>

SeekFails ==
    /\ op.at = "seek" /\ op.hops > 0
    /\ \/ op.cluster = 0 \/ ~HasNext(V, op.cluster)
       \/ BlockFails(FatBlock(V, op.cluster))
    /\ ReadFails(File)
    /\ UNCHANGED <<vol, recycled>>

(* The chunk to read next ends with the cluster or with the request.  done  *)
(* of the bytes in buf have been added to the offset.                       *)
Chunk(want, done, offset) ==
    Smaller(want - done, ClusterSize(V) - (offset % ClusterSize(V)))

CopyOf(c, want, buf, offset) ==
    [at |-> "copy", fd |-> op.fd, want |-> want, cluster |-> c, buf |-> buf,
     done |-> Len(buf), chunk |-> Chunk(want, Len(buf), offset)]

Seeked ==
    /\ op.at = "seek" /\ op.hops = 0
    /\ op' = CopyOf(op.cluster, op.want, <<>>, File.offset)
    /\ UNCHANGED <<vol, handles, recycled, last>>

(* read_from_current_cluster, one sector.  A byte is its place on the disk. *)
InChunk   == Len(op.buf) - op.done
InCluster == (File.offset % ClusterSize(V)) + InChunk
CopyBlock == FirstSector(V, op.cluster) + (InCluster \div SectorSize)

MutCopied ==                                   \* every sector from its start
    [k \in 1..Smaller(op.chunk - InChunk, SectorSize) |->
        Lba(V, CopyBlock) * SectorSize + k - 1]

Copied ==
    LET start == InCluster % SectorSize
    IN [k \in 1..Smaller(op.chunk - InChunk, SectorSize - start) |->
           Lba(V, CopyBlock) * SectorSize + start + k - 1]

CopySector ==
    /\ op.at = "copy" /\ InChunk < op.chunk /\ BlockReads(CopyBlock)
    /\ op' = [op EXCEPT !.buf = @ \o Copied]
    /\ UNCHANGED <<vol, handles, recycled, last>>

CopyFails ==
    /\ op.at = "copy" /\ InChunk < op.chunk /\ BlockFails(CopyBlock)
    /\ ReadFails(File)
    /\ UNCHANGED <<vol, recycled>>

(* The offset moves after each chunk, and move_to_next_cluster follows if   *)
(* more is wanted; a chain that ends too early ends the read.               *)
Moved  == [File EXCEPT !.offset = @ + op.chunk]
Delivered == IF File.broken THEN Moved ELSE [Moved EXCEPT !.got = @ \o op.buf]
Complete == Len(op.buf) = op.want

ChunkEnds == op.at = "copy" /\ InChunk = op.chunk

ReadEnds ==
    /\ ChunkEnds
    /\ \/ Complete \/ op.cluster = 0
       \/ BlockReads(FatBlock(V, op.cluster)) /\ ~HasNext(V, op.cluster)
    /\ ReadReturns(Delivered, Len(op.buf))
    /\ UNCHANGED <<vol, recycled>>

NextCluster ==
    /\ ChunkEnds /\ ~Complete /\ op.cluster # 0
    /\ BlockReads(FatBlock(V, op.cluster)) /\ HasNext(V, op.cluster)
    /\ handles' = [handles EXCEPT ![op.fd] = Moved]
    /\ op' = CopyOf(Word(V, op.cluster), op.want, op.buf, Moved.offset)
    /\ UNCHANGED <<vol, recycled, last>>

NextClusterFails ==
    /\ ChunkEnds /\ ~Complete /\ op.cluster # 0
    /\ BlockFails(FatBlock(V, op.cluster))
    /\ ReadFails(Moved)
    /\ UNCHANGED <<vol, recycled>>

Kernel ==
    \/ ScanSector \/ ScanFails \/ FollowDir \/ NameFails \/ MatchFails
    \/ Descend \/ OpenFile \/ ListEnds
    \/ Seek \/ SeekFails \/ Seeked \/ CopySector \/ CopyFails
    \/ ReadEnds \/ NextCluster \/ NextClusterFails

Next ==
    \/ OpenCall \/ OpenRoot \/ ListCall \/ ListSlashes \/ CloseCall \/ ReadCall
    \/ Kernel

Spec == Init /\ [][Next]_vars

(* A call that has entered the kernel goes on: interrupts are off.          *)
FairSpec == Spec /\ WF_vars(Kernel)
-----------------------------------------------------------------------------
(* What the volume holds, apart from the code that reads it.                *)
NoEntry   == [EmptySlot EXCEPT !.name = "none"]
RootEntry == [EmptySlot EXCEPT !.name = "root", !.attrs = {"DIRECTORY"}]

Listing(v, e) == v.dirs[IF e = RootEntry THEN ROOT ELSE e.lo]

(* The slots a directory shows: in use, no piece of a long name, and before *)
(* the first one never used.                                                *)
Shows(slots) == {k \in DOMAIN slots : IsListed(slots[k]) /\ \A j \in 1..k : ~IsEnd(slots[j])}

Child(v, e, part) ==
    LET slots == Listing(v, e)
        Hits  == {k \in Shows(slots) : slots[k].name = Spelling[part].short}
    IN IF Hits = {} THEN NoEntry ELSE slots[CHOOSE k \in Hits : \A j \in Hits : k <= j]

Rank(S, k) == Cardinality({j \in S : j <= k})

NamesIn(v, e) ==
    LET slots == Listing(v, e)
        places == Shows(slots)
    IN [n \in 1..Cardinality(places) |-> slots[CHOOSE k \in places : Rank(places, k) = n].name]

(* The entry a path leads to, slashes repeated or at the end not counting:  *)
(* where one is after each of its parts, and after the last.                *)
Walk(v, path) ==
    LET walk[i \in 0..Len(path)] ==
            IF i = 0 THEN RootEntry
            ELSE IF IsEmpty(path[i]) THEN walk[i - 1]
            ELSE IF IsDirectory(walk[i - 1]) THEN Child(v, walk[i - 1], path[i])
            ELSE NoEntry
    IN walk

Resolve(v, path) == Walk(v, path)[Len(path)]

(* Byte i of the file whose chain begins with cluster c.                    *)
FileByte(v, c, i) ==
    (DataLba(v) + (Chain(v, c)[(i \div ClusterSize(v)) + 1] - 2) * v.spc) * SectorSize
        + (i % ClusterSize(v))

Stored(v, c) == Len(Chain(v, c)) * ClusterSize(v)
-----------------------------------------------------------------------------
(* Properties.                                                              *)

OpIdle == op.at \in {"idle", "panic"}

(* Every variable has its type.                                             *)
TypeOK ==
    /\ vol \in DOMAIN Volumes
    /\ DOMAIN handles \subseteq 0..(FdCount - 1)
    /\ \A fd \in DOMAIN handles :
         \/ handles[fd] = Console
         \/ IsOpenFile(fd) /\ handles[fd].offset \in 0..handles[fd].size
    /\ \A i \in DOMAIN recycled : recycled[i] \in 0..(FdCount - 1)
    /\ op.at \in {"idle", "panic", "scan", "follow", "match", "seek", "copy"}

(* Successive reads deliver the bytes of the file, each once and in order,  *)
(* from wherever its clusters are (file.rs:145-212), whatever other         *)
(* descriptors do in between; only a read that failed may leave a gap.      *)
ReadsInOrder ==
    \A fd \in DOMAIN handles : (IsOpenFile(fd) /\ ~handles[fd].broken) =>
        LET h == handles[fd] IN
        /\ \A i \in DOMAIN h.got :
              i <= Stored(V, h.first) /\ h.got[i] = FileByte(V, h.first, i - 1)
        /\ OpIdle => h.offset = Len(h.got)

(* open finds what the path names (impls.rs:167-204): a descriptor it       *)
(* returns stands for that file, and it reports a file as missing only if   *)
(* there is none, or a block of a directory could not be read.              *)
OpenFindsPath ==
    /\ \A fd \in DOMAIN handles : (IsOpenFile(fd)) =>
         LET e == Resolve(V, handles[fd].path) IN
         IsFile(e) /\ EntryCluster(e) = handles[fd].first /\ e.size = handles[fd].size
    /\ (last.call = "open" /\ last.ret = "NotFound" /\ ~last.faulted) =>
         Resolve(V, last.path) \in {NoEntry, RootEntry}

(* A listing names the entries of the directory the path leads to, all of   *)
(* them and in order, unless a word of the table could not be read          *)
(* (impls.rs:137 takes that for the end of the directory); and it is        *)
(* refused only where there is no directory, or for the root written with   *)
(* more than one slash (impls.rs:276-287).                                  *)
ListShowsAll ==
    (last.call = "list" /\ ~last.faulted) =>
        LET e == Resolve(V, last.path) IN
        /\ last.ret = "Ok" => IsDirectory(e) /\ last.shown = NamesIn(V, e)
        /\ last.ret = "NotADirectory" => ~IsDirectory(e) \/ OnlySlashes(last.path)

(* No call changes a descriptor that is open, but to advance its file: open *)
(* returns one that was free (resource.rs:35-42), whatever was opened and   *)
(* closed before; only when every number is in use does it take one away,   *)
(* and that is always number 0, the standard input or what replaced it.     *)
AllInUse == DOMAIN handles = 0..(FdCount - 1)

OpenLeavesOthers ==
    [][\A fd \in DOMAIN handles \cap DOMAIN handles' :
          handles'[fd] # handles[fd] =>
              \/ op.at \in {"seek", "copy"} /\ op.fd = fd
              \/ op.at = "match" /\ AllInUse /\ fd = 0]_vars

(* Every call comes back to its caller, unless its path has an extension    *)
(* that is longer than a name has room for: then the kernel panics          *)
(* (direntry.rs:239), though the comment at direntry.rs:180-186 announces   *)
(* an error.                                                                *)
CallsReturn ==
    (op # Idle) ~> \/ op = Idle
                   \/ op.at = "panic" /\ \E i \in DOMAIN op.path : NameOverruns(op.path[i])
=============================================================================
