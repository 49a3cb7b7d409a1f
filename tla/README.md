# Verification of the kernel

TLA+ models, TLC runs and TLAPS proofs for the operating system in this
repository: the process manager and semaphores of the kernel, the user memory it
manages, its files down to the blocks of a FAT16 volume, the driver that moves
those blocks, the shell with the input that feeds it, and the concurrent
applications built on all this. Paths without a
directory are under `src/pkg/kernel/src/proc/`.

## 1. The system

One processor. The kernel runs its handlers (clock interrupt, system calls, page
faults) with interrupts disabled, so two handlers never overlap; user programs
run with interrupts enabled and may be preempted between any two instructions.
Concurrency is therefore *between* handlers: in which order processes reach
their system calls, and what the table, the queues and the page tables look like
when they do.

| Component | State it keeps | Operations | Correct when |
|---|---|---|---|
| Process manager (`manager.rs`, `mod.rs`, `process.rs`) | process table, ready queue, wait queue, per process status, exit code, parent, children, saved context | spawn, vfork, exit, kill, wait_pid, block, wake-up, clock switch | only a runnable process runs while the kernel lives; every live process is in exactly one place; no exit is missed; nobody starves; dead processes stay dead |
| Semaphores (`sync.rs`, `data.rs`) | per vfork family, a map from key to count and queue | insert, remove, wait, signal | tokens are never lost or minted; a queue holds only processes blocked on it |
| User memory (`vm/`, `paging.rs`, `../memory/frames.rs`) | page table shared by a family, stack ranges, heap end, code pages, free frames | load, vfork a stack, stack fault, brk, clean-up | what a process uses stays mapped; stacks do not overlap; no frame is used twice |
| Resources (`../utils/resource.rs`) | descriptor table of a family | open, close, read, write | a descriptor names what was opened under it |
| Input (`../drivers/input.rs`, `../interrupt/serial.rs`) | bounded byte queue | push (interrupt), pop (reader) | bytes arrive in order; overflow drops, not blocks |
| Interrupts (`../interrupt/`) | IDT, APIC | dispatch | each entry calls its handler |
| ATA driver (`../drivers/ata`) | the registers of a bus, the drives opened | open, read a block, write a block | a block read is the block asked for on the drive asked for; a write changes that block only; a call comes back |
| Storage (`src/pkg/storage`, `../drivers/filesystem.rs`) | file position and cluster | parse MBR and BPB, look up, list, read | a path finds the entry it names; reads deliver the bytes of the cluster chain, each once and in order |
| ELF loader (`src/pkg/elf`) | none | load an executable, map and unmap ranges | memory is what the executable describes |
| User library (`src/pkg/lib`) | spin lock, standard streams | system call stubs | one owner of the lock |
| Shell (`src/pkg/app/sh`) | line, cursor, history, working directory | edit, recall, run, cd | the line is what was typed; the directory is where the cd commands lead |
| Applications (`src/pkg/app`) | static variables shared by a vfork family | dinner, fish, mq, counter, fork, brk, ... | exclusion, order, termination |
| Boot, GDT, APIC, UART, logging | device registers | initialisation | |

**Interaction.** An interrupt or system call enters `proc::*`, which takes the
current process from the processor, changes the table and the queues and ends in
`switch_next`. `wait_pid` and semaphores hold process ids in queues of their own;
`kill` and `signal` hand them back to the ready queue with `wake_up`, whose only
link to the process is its id. A vfork family shares one `ProcessData`
(semaphores, descriptors, environment) and one page table by reference counting;
both go when the last member is killed. The programs of a family also share
their static variables.

**What is hard.** Ids held in three kinds of queues while the process they name
may be killed; a queue without a ready process; a family tree rewritten by exits
in any order; resources owned by the last user; operations on page ranges that
fail half way; blocks that cannot be read in the middle of a call; drives that
work on at their own pace after the driver has left them; input that
arrives while nobody reads; user-level protocols that the scheduler may interrupt
anywhere.
`PROJECT.json` lists these as hazards, each at its line.

## 2. The modules

| Module | What it is |
|---|---|
| `Semaphore` | pure operators: the semaphore and the set of semaphores of `sync.rs` |
| `ProcessLife` | abstract: the life of a process and what a waiter gets, without queues and scheduling |
| `ProcessManager` | the process manager and the semaphore system calls; extends `Semaphore`; implements `ProcessLife` |
| `ProcessFamilies` | composes `ProcessManager` with `SemFamily`: what a family sees of the process manager |
| `MCProcessManager` | the killing policies and kill arguments of its TLC instances |
| `ProcessManagerProofs` | the inductive invariants of `ProcessManager`, what follows for every program, and what it promises to programs that kill nobody who is blocked: no panic, `LifeCycle`, `FamilyView` |
| `Elf` | pure operators: the elf crate, on sets of pages and numbers of frames |
| `AddressSpace` | stacks, heap, code, page tables and frames of vfork families; extends `Elf` |
| `MCAddressSpace` | the executables of its TLC instances |
| `AddressSpaceProofs` | theorems about stacks, used pages, frames and images |
| `Fat16` | pure operators: partition, regions, cluster chains, directory entries and names of a volume, and what makes a volume well-formed |
| `Files` | open, read, close and list on the descriptor table of a family; extends `Fat16` |
| `MCFiles` | two small volumes and the paths used on them |
| `BlockDevice` | abstract: one call at a time answered from the medium, writes owed until they are on it |
| `AtaBus` | the ATA driver and two external drives; implements `BlockDevice` |
| `MCAtaBus` | small sectors and block numbers that use all registers |
| `StorageProofs` | theorems about `Files` (reading, finding, listing, descriptors) and `AtaBus` (the refinement of `BlockDevice`) |
| `Shell` | serial interrupt, input queue, decoding, line editor, history, cd |
| `MCShell` | a small keyboard and the meaning of some lines |
| `ShellProofs` | theorems about the shell: what is typed is what it has, what can panic it, where cd leads |
| `SemFamily` | a vfork family seen from its programs: the semaphore system calls as steps; extends `Semaphore` |
| `SemFamilyProofs` | lemmas: what a semaphore call does, for any keys and threads |
| `Dinner`, `Fish`, `Mq` | the applications of that name, on `SemFamily` |
| `DinnerProofs`, `FishProofs`, `MqProofs` | their theorems, on `SemFamilyProofs` |

Operators named `Mut...` stand beside the definition they are a faulty version
of. No specification uses them; put in place of the original they break the
property that watches over it, which shows that the property depends on that
piece of code.

### ProcessManager

State and code: `status`, `exitCode`, `parent`, `children`, `rax` are the fields
of `ProcessInner` (of the saved registers only rax decides anything); `data`
stands for `proc_data` and `proc_vm`, which are created and taken together, and
names the family whose data is shared; `sems[g]` is the `SemaphoreSet` of family
`g`; `ready`, `waitq` are the two queues; `cur` the processor's pid; `nextPid`
the counter; `call` remembers which blocking call a program is inside, which in
the code is its saved instruction pointer. `mode` is `"panic"` once a handler has
unwrapped a missing address space and `"off"` after the shutdown.

One action is one handler, from its entry to the return to user mode:
`ClockSwitch`, `Spawn` (`SpawnPanics` when the kernel's page table is gone),
`VFork`, `Exit`, `KillSelf`, `KillOther`, `WaitPid`,
`SemNew`, `SemRemove`, `SemTake`/`SemBlock` (the two outcomes of sem_wait),
`SemGive`/`SemWake` (those of sem_signal), `Shutdown`. `SwitchNext` is
`switch_next` with all its cases: entries that are not ready are dropped, the
current process may be the next one, an empty queue leaves it on the processor,
a process without address space panics the restore. `KillProcess` is `kill` with
the family tree, the data of the family and the wake-up of the waiters in the
order of their pids. `KillTargets` is the guard of `sys_kill` with what follows it:
the whole register is compared with the kernel's pid (`service.rs:77`), and then cut
to 16 bits (`PidOf`, line 82), so that 65537 passes and kills the kernel. With the
kernel gone the queue may run empty, and `switch_next` leaves a blocked or dead
process on the processor (`Astray`): there the model stops, since nothing is promised
of a process that goes on in spite of being blocked. Calls that change nothing (an unknown key, an exit code
that is already there, an unknown pid) are left out.

A program is free: whenever it runs it may issue any call. What it does is
limited only by named constants: `KillArgs` (the arguments of the kill call; the stub
of the user library takes a `u16`, which is `LibraryKills`), `Killable` (in which
statuses processes kill each other) and `DropBusySems` (whether semaphores with
waiters are re-created or removed). Those are what separates behaviour the code gets right always from
behaviour it gets right only for well-behaved programs.

**Refinement.** `ProcessLife` knows a process as absent, alive or ended with a
code, and a waiter as waiting for a process or having got a code. `Lives` and
`Waits` map the statuses, exit codes, wait queue and saved rax of the process
manager to it, and `LifeCycle` says that every step of the process manager is a
step of `ProcessLife` or invisible: a process ends once and for ever, with one
code, and whoever waits for it leaves wait_pid with that code and no other. It
holds for programs that kill only what is ready; `pm_panic` shows what happens
otherwise.

**Composition.** `Dinner`, `Fish` and `Mq` run on `SemFamily`, where a family has
its semaphores to itself and a call is one step. `FamilyView` in `ProcessFamilies`
justifies that: seen from any family g, with `sems[g]` and its members blocked in
sem_wait as the state of an instance of `SemFamily`, every step of the process
manager changes nothing, or is a `WaitOn` or `SignalTo` of the member on the
processor, a creation or removal by it, or the end of the last member.

### Elf and AddressSpace

Pages are numbers, frames a count. `MapRange` and `UnmapRange` are the loops of
the `elf` crate with their failures: mapping stops at the first occupied page
(having taken a frame for nothing) or when no frame is left, and what was mapped
stays. `LoadElf` and `LoadSegment` load an executable, with the bytes each page
receives; `ImageAsLinked` compares them with what the segments say. Segments
begin with a page of their own and do not overlap, as the linker script of the
applications (`src/pkg/app/config/app.ld`) arranges (`LinkerAssumption`). `Tries` is the loop of `Stack::vfork` over the slots. `CleanUp` is
`ProcessVm::clean_up` with its early returns. `children.len()`, from which the
first slot is computed, is the number of living children vforked by the process
itself: `remove_child` takes out the dead (`FamilyTree` of `ProcessManager`), and
children adopted from a dead child are not entered. Left out: the kernel's own stack, the lower levels of the
page tables, the contents that vfork copies, faults outside the own stack (which
always panic, as do all other exceptions).

### Fat16 and Files

A volume is an external thing: where its partition is, its chains of clusters and
the slots of its directories. `Fat16` computes the sectors the code asks for
(`FirstSector`, `FatBlock`, `Lba`, ...) and what comes back for them (`DiskSlot`,
`DiskWord`), so that a wrong sector gives wrong contents. The partition is found
in the table of the MBR. A name is given by its short form, the lengths of its two
parts and whether it holds a forbidden character (`Spelling`). `WellFormed` says
what formatting promises of a volume: regions of the sizes the boot sector gives, an
active entry in the partition table that is in the drive's reach, chains that share
no cluster, directories that fit into their chains, and entries of files and of
directories that point to chains. A chain may be shorter than its file.

In `Files`, `handles` and `recycled` are the fields of `ResourceSet`; `op` is the
call the kernel is executing, with the local variables of the functions it is in;
`last` what the previous call returned. A call is several actions, one for each
block read, because each block may fail and each failure has its own error path:
a failing directory block fails the call (`ScanFails`), a failing word of the
table ends a directory quietly (`FollowDir`) but fails a read (`SeekFails`,
`NextClusterFails`). The bytes delivered (`got`) are addresses on the disk, and
`ReadsInOrder`, `OpenFindsPath` and `ListShowsAll` compare what the code delivers
with definitions that know the chains and the tree but nothing of sectors
(`FileByte`, `Resolve`, `NamesIn`). Paths are sequences of parts; only `"/"` has
none. `read_dir` takes the root for that spelling only, before `find_path` trims
anything, so that `"//"` (one empty part) is refused as no directory (`ListSlashes`).
A number for a descriptor is the size of the table cut to `u8` (`FreeFd`): when all
`FdCount` are in use it is 0 again. A name whose extension does not fit panics
(`NameFails`). Left out: seek, which no system call reaches;
the cluster cached in a file, which every read recomputes; writing, which changes
nothing but the screen (a write to a file is refused). That a block read is one
step that gives the contents of the block or fails is what `AtaBus` shows of the
driver.

### BlockDevice and AtaBus

A call of the driver is a walk through `pc`: the command is written (`Command`,
all of `write_command` up to the command register), the status is tested and
polled (`TestEmpty`, `PollBusy`, `TestError`, `PollBusy`, `PollRequest`), in
`identify_drive` polled again and the signature compared, then the data is moved
word by word (`ReadData`, `WriteData`) and the status tested once more
(`FinishRead`, `FinishWrite`). `Registers` splits a block number over four
registers as the code does, `ToLe` and `FromLe` convert words. `regs` is what the
ports hold, `opened` the drives for which the kernel has an `AtaDrive`.

The two drives are external and follow the comments of `consts.rs`. A drive
hears a command when it is selected, not BUSY and asks for no data; it works on it
in steps of its own, between any two of the driver's, and ends with a request for
data (`Fetch`, `AskForData`, `Identify`) or an error (`Abort`); after the last word
of a write it is BUSY again until the sector is stored (`Commit`) or lost
(`LoseSector`). It may also stop working (`FallSilent`). The first drive is a
supported one, the second may be anything or missing.

`IsBlockDevice` maps this to `BlockDevice`: sectors become bytes (`DeviceMedium`), a
call keeps its request (`DeviceCall`), and a write is owed from its last word on
(`Owed`). `BlockDevice` allows a write
that was answered well to be lost afterwards, because the driver looks at the
error bit before the drive is done. Left out: what `open` extracts from the
identification, the second bus, the error register (only printed).

### Shell

`wire` holds the bytes of the key pressed, `queue` is `INPUT_BUF`; `buffer`,
`cursor`, `history`, `history_index` and `cwd` are the variables of
`read_line_history` and `main`; `escape` and `lead` say in which of the nested
reads the shell is. Each byte the shell takes is an action, so that keys may
arrive between any two bytes of an escape sequence. `cursor` is a byte index, as
in the code, and the `String` operations panic between the bytes of a character.
`meant` is the user's own idea of the line and the history, defined on keys
(`Press`) without bytes or queues; `trail` is the list of all parts ever given to
cd. Left out: what is printed, characters of more than two bytes, programs
that read the input themselves, and the keys Ctrl+D and Ctrl+C, of which help and
code say different things (see the end of section 3).

### Dinner, Fish, Mq

A thread's step is one semaphore call, or one access to a shared static where
exclusion is the question: `COFFEE_CUPS += 1` is a load and a store; the fish's
test, print and turn are separate steps. Delays and messages are left out (every
interleaving is possible anyway). A blocked thread's program counter is past its
call, as in the saved context. The mode 2 of the dinner differs from mode 0 in
delays only.

## 3. The runs

| Run | Asks | Result |
|---|---|---|
| `pm_full` | programs kill anyone, with any argument, and drop semaphores: types, only runnable processes run unless the kernel was killed, one seat per process, no exit missed, semaphores and children lists sound | holds |
| `pm_live` | only ready processes are killed, by the user library, no semaphore is dropped, the clock ticks: the kernel stays schedulable, `ProcessLife` is implemented, each family has its semaphores to itself, nobody is lost, no panic, ready processes run, waiters resume, the exit of the shell shuts down | holds |
| `pm_panic` | as `pm_full`, no semaphore dropped: no panic | **violated** |
| `memory_families` | memory of families with enough or too few frames: processes start with the image of their executable, used pages stay mapped, stacks apart, frames suffice | holds |
| `memory_fault` | every stack fault is served while frames are free | **violated** |
| `dinner_tokens` | both kinds of mode: tokens conserved, chopsticks exclusive where they have their own semaphore, the demo gets stuck only in the full circle | holds |
| `dinner_deadlock` | the waiter prevents the deadlock | **violated** |
| `fish_output` | output in order, exclusive statics, everybody leaves | holds |
| `mq_rack` | tokens match the cups, freed semaphores unused, everybody is served | holds |
| `files_read` | any block may fail to be read: reads deliver the file in order, open and list find what the path names, a descriptor in use is handed out only when all are, and then it is 0, every call returns but one with a long extension | holds |
| `ata_device` | two drives that abort, lose sectors or fall silent: the driver implements `BlockDevice`, moves data in step with the drive, and every call ends | holds |
| `shell_edit` | typing, arrows, history and type-ahead: the shell has the line, cursor and history the user meant, panics only on characters of several bytes, changes directory correctly | holds |

**Bounds.** `ProcessManager`: four processes (kernel, shell and two more) and one
semaphore. That gives a waiter, a target and a killer or signaller besides the
kernel, families of up to three, an orphan with a grandparent, two waiters on one
semaphore; kill arguments are all pids up to four, and 65537 in `pm_full`; a single semaphore is enough because keys do not interact. `SemMax`
bounds the tokens a program banks. `AddressSpace`: four processes, stacks of up
to three pages, a heap of one page plus the extra one, pages of two bytes,
executables of up to three pages whose file ends inside a page, fourteen frames:
enough for one family to collide in slots, too few for everything, so failures half way
occur; `memory_fault` has more frames than can be used, so that its fault is not
a lack of memory. `Dinner`: the five philosophers of the code, two turns (a third
repeats the second), one in the deadlock run. `Fish`: 16 prints, two full periods
of the output, like 400 a multiple of the period of 8. `Mq`: two cups, three
customers with two cups each, so that the maker and the customers both come to
wait. `Files`: sectors of 4 bytes and 2 sectors to a cluster; a file of 19 bytes
in three scattered clusters, read in pieces of 13, so that a read starts and ends
inside sectors and crosses clusters; a directory in two clusters, with removed,
long-name and stale slots; the same volume with a chain too short for its file;
four descriptor numbers, two files at most, so that the second one open finds all
numbers in use, and takes 0, or finds one recycled; a buffer of no bytes; `"//"`. `AtaBus`:
sectors of two words, so that a first, a middle and a last byte of each half
exist; two contents and two block numbers, 0x01020304 and 0x01020404, that fill all
four registers differently and differ from each other in one; all kinds of second
drive. Nothing bounds the number of calls: the state space is finite. `Shell`:
two lines of up to two characters are entered and a third is edited, which gives
a history to move in and a repeated line; a queue of three bytes, the length of
an arrow key, overflows while a program runs. Keys are pressed ahead of the shell
only while a program runs (`Ahead`), otherwise when it has taken all bytes out of
the queue. The pid counter (65535) is far beyond the bounds and its wrap is not covered.

`CHECK_DEADLOCK FALSE` is set everywhere: the machine may shut down, panic or run
out of the bounded pids, and the applications finish.

**Fairness.** `ProcessManager` assumes that the clock keeps ticking
(`WF(ClockSwitch)`: system calls disable interrupts but end, and the timer is
periodic) and that the kernel's polling loop (`lib.rs` `wait`, then `shutdown`)
gets one turn of its loop done when it is given the processor infinitely often
(`SF(Shutdown)`; strong, because between two slices of the kernel it is not
enabled). No fairness is assumed of programs: liveness holds even if they never
make a call. `Files` assumes that a call that has entered the kernel goes on
(`WF(Kernel)`: handlers run to their end with interrupts off; the drive answers or
fails). `AtaBus` assumes the same of the driver (`WF(Driver)`) and of each drive
that it gets done with a command (`WF(Drive(d))`), from which a silent drive is
exempt: `CallsEnd` names the two cases in which the unbounded polling does not end,
a silent drive and a command the drive did not hear. The applications assume that a thread that is not blocked runs
eventually; that is what `ReadyRuns` shows of the scheduler.

### What the violations show

* `pm_panic`. `wake_up` does not look at the status. A process killed while
  blocked stays in the queue it waits in; when its target exits or its semaphore
  is signalled it becomes Ready, is restored, and `vm()` unwraps `None`: a kernel
  panic. The token of such a signal is lost, too. `pm_live` shows that sparing
  the kernel and blocked and dead processes is enough to avoid it.
* `memory_fault`. A vfork that tries an occupied slot may map pages below the
  smaller stack that lives there and leaves them mapped. When that stack grows
  past them, `grow_stack` fails on the occupied pages and the page fault handler
  panics.
* `dinner_deadlock`. `WAITER` has the key of chopstick 4, whose semaphore is
  re-initialised to four tokens. Two philosophers may hold chopstick 4, and the
  waiter no longer prevents the deadlock.

Where code and documents or comments differ and the properties state what the code
does: the guard "cannot kill kernel!" of `sys_kill` (`service.rs:77`) lets 65537 pass;
after such a kill the machine neither shuts down nor schedules as it should, which is
why `KernelSchedulable`, `ShellExitShutsDown` and the promises of `pm_live` are about
kills by the user library. A name with an extension of more than three characters
panics the kernel (`direntry.rs:257`): the comment at `direntry.rs:180` announces an
error, and the check at line 239 is commented out; `CallsReturn` names these calls as
the only exception. The help of the shell (`sh/utils.rs:102`, `:108`) and the comment
at `sh/main.rs:248` say that Ctrl+D exits, but `read_line_history` drops control
characters before the comparison can see them; `EditsAsTyped` makes no statement
about that key. Opening a file when 256 descriptors are in use replaces the standard
input (`resource.rs:38`). `"//"` cannot be listed although `"/"` can.

Behaviour worth knowing that no run is about: after a sem_wait that blocked, and
after a sem_signal that woke somebody, rax still holds the number of the system
call, so the stub in the user library returns `false`; killing a dead process
again overwrites its exit code (hence the restriction in `pm_live`); waiting
for oneself, for the kernel or for a pid never created blocks for ever; code
frames are lost when the process that was spawned exits before its children. A
character of several bytes in a line can panic the shell, which steps through the
line byte by byte (`PanicNeedsWide` shows that nothing else does). A word of the allocation table that cannot be read cuts a
directory short without an error, so that a file may seem missing. A read that
fails in a later cluster has already moved the offset, and the bytes before are
lost. A path with a doubled slash inside is refused. `load_segment` puts the first
byte of a segment at the beginning of its page, whatever its address is within the
page. A write to
the drive is tested for an error while the drive is still busy with it: a failure
after that is not noticed, and a command that follows at once may not be heard, in
which case the driver polls for ever (the file system does not write); the cache
flush that `consts.rs` wants after each write is never sent. A drive that is not
supported is left with its identification unread. `AtaDrive::open` takes the block
count from the identification with the bytes of each word swapped (only printed),
and `Partition::block_count` returns that of the whole drive. A block number of 2^28
or more reaches the drive without its upper bits. A process killed while it holds
the spin lock of the standard output leaves the members of its family that print
spinning.

## 4. The proofs

Every invariant of the passing runs is proved, and so are the two refinements, the
view of a family and `OpenLeavesOthers`, for every value of the constants: any number
of processes, keys, codes, slots, frames, executables, sizes of pages, sectors and
clusters, volumes, paths, buffers, block contents, keystrokes, commands, turns,
prints, customers and cups. What the bounds of section 3 leave out, they cover.

### Assumptions

Theorems rest on the named assumptions of their modules, which TLC evaluates in
the runs: `BoundAssumption` (at least two pids), `CodeAssumption` (keys and token
values are naturals, "no code" is not a code), `PageAssumption` and
`MemoryAssumption` (numbers of frames, bytes, slots and pages), `LinkerAssumption`
(the segments to be loaded begin with a page, lie below the heap and do not
overlap), `BlockAssumption` (block numbers have 28 bits), `SectorAssumption`
(contents are bytes), `SentinelAssumption` (the values that stand for "no call" and
"no write" are none), `DinnerAssumption`, `FishAssumption`, `MqAssumption` (positive
counts), and

* `GeometryAssumption`: sectors hold a whole number of directory entries and of words.
* `VolumeAssumption`: every volume is `WellFormed`, as formatting leaves it and as
  the kernel, which does not write files, keeps it. What a damaged volume does to
  the code is not covered.
* `PathAssumption`: a path that names something has no slash in front (`find_path`
  trims them), and one to be opened names something; empty parts from doubled slashes
  inside, and paths of slashes only for a listing, are allowed.
* `DescriptorAssumption`: there are more descriptor numbers (`FdCount`, 256) than the
  three of the console. How many files are open is not limited.
* `QueueAssumption`, `KeyAssumption`: the queue has some capacity, possibly none; the
  keys are those of `AllKeys`.
* `MeaningAssumption`: a cd command has a path, absolute or not, of any parts.

`LiveInvariant`, `KernelDoesNotPanic`, `LivesAsPromised` and `FamiliesSeeSemFamily`
have two hypotheses in addition, `LibraryKills` (kill arguments fit into 16 bits)
and `NoBlockedKill` (programs do not kill a blocked process), and `LivesAsPromised` has `NoSecondKill` as well (nor one
that is dead already). They are conditions on programs, not on the kernel: the run
`pm_panic` shows that `NoPanic` is false without `NoBlockedKill`, a wider argument
may kill the kernel, and killing a dead process overwrites its exit code. `pm_live`
has all three.

### Process manager (`ProcessManagerProofs`)

| Theorem | Says |
|---|---|
| `Invariant` | `Spec => []IInv` |
| `TypeCorrect`, `CurrentCanRun`, `KernelStaysSchedulable`, `NoExitIsLost`, `SemaphoresAreSound` | `TypeOK`, `OnlyRunnableRuns`, `KernelSchedulable`, `NoLostExit`, `SemaphoreDiscipline` |
| `FamilyInvariant`, `ChildrenListsSound` | `FamilyInv`, and from it `FamilyTree` |
| `SeatInvariant`, `NobodySeatedTwice` | `SeatInv`, and from it `OneSeat` |
| `LiveInvariant`, `KernelDoesNotPanic` | `LiveInv`, and from it `NoPanic`, under `LibraryKills` and `NoBlockedKill` |
| `LivesAsPromised` | `LifeCycle`: `ProcessLife` is implemented, under `LibraryKills`, `NoBlockedKill` and `NoSecondKill` |
| `FamiliesSeeSemFamily` | `FamilyView`, under `LibraryKills` and `NoBlockedKill` |

`OnlyRunnableRuns` alone is not inductive: `switch_next` on a queue without a ready
process keeps the current one, which the caller may just have blocked or killed. It
holds because the kernel process is always Ready in the queue when it is not
running (`KernelSchedulable`), and that is inductive because the kernel can issue
neither a blocking call nor an exit, and can be popped only as the next process; it
can be killed only by an argument wider than 16 bits (`KernelIsNoTarget`), from where
on both properties say no more than that. The converse danger, a wake-up that makes a process Ready that is
still in another queue, needs `WaitersExact`: a live process is in the wait queue
of q exactly if it is blocked in wait_pid(q), and `SemsSound`: live members of a
semaphore's queue are blocked on that very semaphore and nobody is in it twice.
Both speak of live processes only: the dead may linger in queues. `NoLateWaiters`
(an exited process has no waiters) gives the rest of `NoLostExit`. `OnlySeenPids`
makes the pid a spawn or vfork hands out appear in no queue. That is `IInv`. Each
action has a type lemma and an invariant lemma; `SwitchNextType` and `SwitchStep`
treat `switch_next` once for all of them.

`FamilyTree` becomes inductive with `ListsDisjoint` (nobody is in two children
lists: an exit moves the children of the dead to the grandparent, one list to
another), `ChildrenSeen` (lists name processes that were created, so that a new one
is in none), `LivingSeen` (who has an address space has not exited), `Unborn` and
`Elders` (a parent, also one that adopts, has a smaller pid than its children). It is
one direction only: the children of a dead child are not entered in the list of the
grandparent who becomes their parent.

`SeatInv` says where a process is *between* the two halves of a handler, too. Its
part `SeatedBut(c, ...)` exempts process c, the one `switch_next` has taken from
the processor and not yet pushed; `KeptWaiting` says that who is blocked is in the
queue of the semaphore it is blocked on, unless programs drop semaphores under
their waiters. The ready queue loses its dead entries in `switch_next`; that the
living ones keep their place and number there is `SubSeqMembers` and what follows
it.

`NoPanic` needs that a wake-up never meets a process without address space:
`LiveWaiters`, the queues hold the living only. Killing a blocked process breaks
exactly this. `LivesExact` ties status, address space and exit code together, and
`CallsFit` says that who leaves wait_pid has a code in its saved rax; both are
what the refinement mapping `Lives`, `Waits` reads. The refinement itself has one
lemma per action that says which step of `ProcessLife` it is, or that both
functions stay as they are. `FamilyView` follows in the same way from `IInv`,
`FamilyInv` and `LiveInv`, action by action, for an arbitrary family.

### User memory (`AddressSpaceProofs`)

| Theorem | Says |
|---|---|
| `SpaceInvariant`, `StacksStayApart`, `PagesStayMapped` | `SpaceInv`, and from it `StacksApart` and `OwnPagesMapped` |
| `FrameInvariant`, `AddressSpaceTypes`, `FramesAreEnough` | `FrameInv`, and from it `TypeOK` and `FramesSuffice` |
| `ImagesAsLinked` | `ImageAsLinked` |

`SpaceInv` states `OwnPagesMapped` part by part (`Furnished`: `CodeIn`, `HeapIn`,
`StackIn`), with `Unused`: pids not given out, and dead families, have left nothing
behind, so that a pid may name a new page table. `StacksApart` makes it inductive:
a clean-up, a vfork or a brk touches the pages of a slot, of the heap or of the
code, and these are disjoint (`Layout`). `Stack::vfork` is a recursive function
over the slots it tries, and the slot it ends with is a free one because a page of
a living stack is mapped in every other: `TriesFacts`.

`FrameInv` adds that the frames taken suffice. Every operation on pages is shown
either `Accounted` (it takes at least as many frames as it maps pages) or
`Returned` (it gives back at most as many as it unmaps), whether it succeeds or
stops half way; the sum over all page tables then changes in one term
(`SumChanges`). The early returns of `clean_up` only lose frames.

`ImagesAsLinked` follows the loading segment by segment: `LoadElfSooner` shows that
a load that succeeds with some frames taken succeeds with fewer and puts the same
into the same pages, `SegmentLoaded` what one segment adds, `PagesApart` that two
segments have no page in common, `ByteOfSegment` which byte of the file an address
gets. Addresses beyond the file's bytes, up to the end of the last page, get zeros.

### Files (`StorageProofs`)

| Theorem | Says |
|---|---|
| `FilesTypes` | `TypeOK` |
| `ReadsDeliver` | `ReadsInOrder` |
| `OpenIsRight`, `ListIsRight` | `OpenFindsPath`, `ListShowsAll` |
| `OthersStay` | `OpenLeavesOthers` |

One inductive invariant, `IInv`, carries all five, because none stands alone: a read
delivers the right bytes only if open recorded the first cluster and size of an entry
that the volume really has (`Standing`), and open gives a descriptor without harm to
others only if numbers in use and recycled ones are exactly those below some n, none
twice (`FdsInv`). `AllInUse` is the exception the code has: then nothing is recycled and the
size of the table, cut to a byte, is 0. The rest says where a call is. A scan (`ScanInv`) stands at the
directory that the parts passed so far lead to, in a sector of the k-th cluster of
its chain, and has read exactly the entries that the slots before that place show
(`SeenUpto`); when it looks for a name it has read up to an end mark, unless a word of
the table could not be read (`HasRead`). A read is seeking, with clusters walked and
hops left adding up to the cluster of the offset (`SeekInv`), or copying, with the
bytes in the buffer those that follow the ones delivered (`CopyInv`). `OffsetInv` makes
up for the offset moving before the bytes are handed over.

Below it are lemmas about `Fat16`: the block and byte the driver is asked for hold the
slot (`DiskSlot`) or word (`DiskWord`) of the volume they should, in spite of the 28
bits of a block number; the next word is the next cluster of the chain, and none after
the last; the entries of one sector are the next ones a directory shows. The
definitions they are compared with (`Walk`, `Shows`, `NamesIn`, `FileByte`) know
chains and trees, not sectors.

### ATA driver (`StorageProofs`)

| Theorem | Says |
|---|---|
| `AtaInStep` | `InStep` |
| `AtaIsBlockDevice` | `IsBlockDevice`: `BlockDevice` is implemented |

The invariant `BusInv` is `BusTypes`, `CallTypes` and, for each drive, `DriveOk`. A
drive that took the command of the call is `Serving` it: its task has the command
and block of the call, and while data moves, the words still in the drive and the
bytes in the buffer together are the sector (`Reading`), or those it has received
are the first of the data (`Writing`). Any other drive is `Resting`: ready, or busy
with a sector it owes from an earlier write, or waiting for somebody to fetch the
identification of an unsupported drive. This is what a test would hardly reach: the
driver tests and polls the status of the selected drive, which may still be at work
on the call before. Each action of the driver and of a drive is then a step of
`BlockDevice` or changes nothing it sees. `Registers` splits and joins a block
number without loss (`LbaOfRegisters`), for any of 28 bits, and the two bytes of a
word come back as they were.

### Shell (`ShellProofs`)

| Theorem | Says |
|---|---|
| `PanicOnlyWide` | `PanicNeedsWide` |
| `TypedIsShown` | `EditsAsTyped` |
| `DirectoryIsWalk` | `CwdIsWalk` |

`PanicNeedsWide` follows from `ShellInv`: the cursor is never behind the line, so that
without characters of several bytes each of its places lies between two characters
(`NarrowBoundary`). It holds with bytes lost and with keys of two bytes in between, for
lines fetched from the history too.

`EditsAsTyped` speaks only of moments at which nothing is on its way; what holds
between them is `ReadInv`. `Decodes(bytes, m, goal)`: the bytes are those of keys that,
pressed one after another, lead from the idea m of the line to the idea goal. The
invariant says that the bytes of the part of a key that the shell has already taken
(`DoneOf`), those in the queue and those on the wire decode from what the shell shows to
what the user means. A key pressed adds its bytes at the far end (`DecodesMore`), the
handler of the interrupt moves one and changes nothing, and each read of the shell peels
one off at the near end (`PeelPlain`, `PeelEsc`, `PeelCsi`): no other key begins like the
one it is reading. `Trim` is shown to keep a sequence of characters one, and each arm of
the editor to do to buffer and cursor what the key does to the idea.

`CwdIsWalk` needs to know how deep each name of the directory lies: `Placed` gives the
places in `trail` of the names of `cwd`, in order, and says that after each of them the
names outnumber the ".." by exactly the depth below it. So a further ".." cancels the last
place and no other. `WalkedPart` is one part of a path, `WalkedPath` all of them.

### Applications (`SemFamilyProofs`, `DinnerProofs`, `FishProofs`, `MqProofs`)

| Theorem | Says |
|---|---|
| `DinnerTokensConserved`, `DinnerChopsticksExclusive`, `DinnerStuckIsCircular` | `TokensConserved`, `ChopsticksExclusive`, `StuckIsCircular` |
| `FishOutputInOrder`, `FishStaticsExclusive` | `OutputInOrder`, `StaticsExclusive` |
| `MqTokensMatchCups`, `MqFreedUnused`, `RackInBounds` | `TokensMatchCups`, `FreedUnused`, and the cup counter between zero and its capacity |

`SemFamilyProofs` has the lemmas they share: given a function that says on which key
each thread is blocked, the queues are the blocked threads, each once and on its
own key, and a call preserves that. The invariants then are about program counters
and counts. Dinner: who holds a token of a semaphore is given by where he is, and
the tokens left and those held are what there were. Fish: a token of `MUTEX` and
one of the turn (`TurnToken`), which is with the fish whose semaphore is `NextSem`
or on its way there; `StaticsFollow` computes the statics from `PRINT_COUNT`. Mq:
`Tokens` counts who has taken a token and not yet changed the cups and who has
changed them and not yet given the token; `RackExclusive` and `RegFresh` (the copy
of `COFFEE_CUPS` in a register is up to date) make the load and the store one step.

### Method, and what is only model-checked

Induction over data is done without the library's induction theorems, which take a
predicate as a parameter: a set of counterexamples that is not empty has a least
element (`LeastNumber`, from `WFMin`), and the step contradicts it. Folds and
recursive functions are `CHOOSE`n; that a function with the recursive equation
exists is proved first (`FoldExists`, `SteppedExists`, `AddsExists`, `WalkExists`,
`TakesExists`).

Left to TLC: the liveness properties (`ReadyRuns`, `WaiterResumes`,
`ShellExitShutsDown`, `EverybodyLeaves`, `CoffeeServed`, `CallsReturn`, `CallsEnd`),
which the prover cannot reach together with fairness. `PageFaultServed` and the two
other properties of the violated runs are false. That the constants of the runs satisfy
the assumptions is evaluated by TLC, too.

## 5. What is left

All parts listed in section 2 are modelled and checked, and every safety property of the
passing runs is proved. What remains outside:

* The liveness properties are model-checked on the instances of section 3 only.
* Volumes that are not well-formed, and the wrap of pids, are excluded by assumptions
  or bounds; the code does not guard against them. So is a drive that reports a write
  fault without the error bit (`consts.rs:30`), which the driver does not look at.
* What happens after a process that has been blocked or killed goes on because the
  queue is empty (`Astray`), which only the death of the kernel makes possible.
* The models of a file call (`Files`) and of the drive (`AtaBus`) meet in the promise that
  a block read gives the block or fails. That promise is proved of `AtaBus`
  (`AtaIsBlockDevice`) and taken for granted in `Files`; no module composes the two.

### Not modelled

Boot loader, GDT, IDT and APIC set-up, UART, logging, formatting and the real-time
clock keep no state that other parts decide on. The kernel and user allocators are
third-party code behind a lock. Of the applications, counter guards one increment
with one semaphore, a critical section that mq has too, and fork, brk, thread and
hello are straight-line demonstrations of calls modelled elsewhere. The spin lock
of the user library is used by no application; `Stdin::read_line`, the editor
without cursor or history that dinner, brk and thread use, takes its bytes from the
same queue as the shell. The wrap of
the pid counter after 65535 processes is beyond any bound TLC can reach.
