------------------------------- MODULE AtaBus -------------------------------
(***************************************************************************)
(* The ATA driver (src/pkg/kernel/src/drivers/ata/): open, read_block and  *)
(* write_block of AtaDrive over one bus with two drives, by programmed I/O *)
(* and polling.  The kernel holds the lock of the bus for a whole call and *)
(* runs it with interrupts off, so there is one call at a time; what       *)
(* interleaves with it are the drives.                                     *)
(*                                                                         *)
(* The drives are external.  They behave as the comments of consts.rs say: *)
(* a command is heard by the selected drive unless that drive is BUSY or   *)
(* still requests data (DRQ); it then becomes BUSY and at some later time  *)
(* asks for the data, or reports an error.  After the last word of a write *)
(* the drive is BUSY again until the sector is on the medium, or lost.  A  *)
(* drive may also fall silent while it is BUSY.                            *)
(***************************************************************************)
EXTENDS Naturals, Sequences

CONSTANTS
    Blocks,         \* block numbers in use
    SectorWords,    \* words in a sector (256 in the code)
    Contents,       \* contents of a block, as bytes
    NoCall, NoReply, NoWrite

LBA28 == 268435456             \* 2^28
Drives == {0, 1}
Bytes  == 0..255

ASSUME BlockAssumption == Blocks \subseteq 0..(LBA28 - 1)
ASSUME SectorAssumption ==
    /\ SectorWords \in Nat \ {0}
    /\ Contents \subseteq [1..(2 * SectorWords) -> Bytes]

(* The calls of the driver, as they are made and as BlockDevice sees them.  *)
Calls == [op : {"open", "read", "write"}, drive : Drives, block : Blocks \cup {0},
          data : Contents \cup {<<>>}]
StagedCalls == [op : {"open", "read", "write"}, drive : Drives, block : Blocks \cup {0},
                data : Contents \cup {<<>>}, stage : {"asked", "handed_over", "failed"}]

ASSUME SentinelAssumption ==
    /\ NoCall \notin Calls \cup StagedCalls
    /\ NoWrite \notin [block : Blocks, data : [1..(2 * SectorWords) -> Bytes]]

VARIABLES
    kind,       \* drive -> what is attached there; never changes
    medium,     \* drive -> block -> the words of the sector
    status,     \* drive -> its status register, the set of bits that are set
    task,       \* drive -> the command it works on
    silent,     \* drives that have stopped working
    regs,       \* the registers the driver has written, as the drives see them
    opened,     \* drives for which the kernel has got an AtaDrive
    pc,         \* where the driver is, "idle" outside a call
    req,        \* the call in progress
    buf,        \* the bytes moved so far
    reply,      \* the result of the last call
    heard       \* did the selected drive take the command of this call

driveVars == <<kind, medium, status, task, silent>>
busVars == <<driveVars, regs, opened, pc, req, buf, reply, heard>>

(* pata is supported; packet aborts the identification; sata answers it,    *)
(* but its signature is not that of a supported drive.                      *)
Kinds == {"pata", "packet", "sata", "absent"}

NoSignature == <<0, 0>>
Signature(k) ==
    CASE k = "packet" -> <<20, 235>> [] k = "sata" -> <<60, 195>> [] OTHER -> NoSignature

-----------------------------------------------------------------------------
(* Bytes and words: to_le_bytes and from_le_bytes.                          *)
ToLe(w) == <<w % 256, w \div 256>>

FromLe(lo, hi) == lo + 256 * hi

Byte(n, place) == (n \div place) % 256

(* write_command: the number of a block in four registers, the last of      *)
(* which also selects the drive and LBA mode.                               *)
MutRegisters(drive, block, cmd) ==             \* the drive not selected
    [low |-> Byte(block, 1), mid |-> Byte(block, 256), high |-> Byte(block, 65536),
     drive |-> 224 + (Byte(block, 16777216) % 16), command |-> cmd]

Registers(drive, block, cmd) ==
    [low |-> Byte(block, 1), mid |-> Byte(block, 256), high |-> Byte(block, 65536),
     drive |-> 224 + 16 * (drive % 2) + (Byte(block, 16777216) % 16), command |-> cmd]

(* What the drives make of the registers.                                   *)
SelectedBy(r) == (r.drive \div 16) % 2
LbaOf(r)      == r.low + 256 * r.mid + 65536 * r.high + 16777216 * (r.drive % 16)

Selected == SelectedBy(regs)
Status   == status[Selected]
Free(d)  == kind[d] # "absent" /\ status[d] \cap {"BUSY", "DRQ"} = {}

NoTask == [cmd |-> "none", lba |-> 0, words |-> <<>>, signature |-> NoSignature]
NewTask(r) ==
    [cmd |-> r.command, lba |-> LbaOf(r), words |-> <<>>, signature |-> <<r.mid, r.high>>]

Sector(c) == [i \in 1..SectorWords |-> FromLe(c[2 * i - 1], c[2 * i])]
Identity  == [i \in 1..SectorWords |-> 0]      \* which no property looks at

BusInit ==
    /\ kind \in {k \in [Drives -> Kinds] : k[0] = "pata"}
    /\ medium \in [Drives -> [Blocks -> {Sector(c) : c \in Contents}]]
    /\ status = [d \in Drives |-> IF kind[d] = "absent" THEN {} ELSE {"DRDY"}]
    /\ task = [d \in Drives |-> NoTask]
    /\ silent = {} /\ opened = {}
    /\ regs = Registers(0, 0, "none")
    /\ pc = "idle" /\ req = NoCall /\ buf = <<>> /\ reply = NoReply /\ heard = TRUE

-----------------------------------------------------------------------------
(* The driver.                                                              *)

CommandOf(op) ==
    CASE op = "open" -> "IdentifyDevice" [] op = "read" -> "ReadPio" [] op = "write" -> "WritePio"

(* write_command, up to the write of the command register.                  *)
Command(op, drive, block) ==
    LET r == Registers(drive, block, CommandOf(op))  d == SelectedBy(r)
    IN  /\ regs' = r
        /\ heard' = Free(d)
        /\ IF Free(d)
           THEN /\ status' = [status EXCEPT ![d] = {"BUSY"}]
                /\ task'   = [task EXCEPT ![d] = NewTask(r)]
           ELSE UNCHANGED <<status, task>>
        /\ pc' = "empty" /\ buf' = <<>> /\ reply' = NoReply
        /\ UNCHANGED <<kind, medium, silent, opened>>

(* AtaDrive::open, and read_block and write_block of a drive it has opened. *)
Open(d) ==
    /\ pc = "idle"
    /\ req' = [op |-> "open", drive |-> d, block |-> 0, data |-> <<>>]
    /\ Command("open", d, 0)

ReadBlock(d, b) ==
    /\ pc = "idle" /\ d \in opened
    /\ req' = [op |-> "read", drive |-> d, block |-> b, data |-> <<>>]
    /\ Command("read", d, b)

WriteBlock(d, b, c) ==
    /\ pc = "idle" /\ d \in opened
    /\ req' = [op |-> "write", drive |-> d, block |-> b, data |-> c]
    /\ Command("write", d, b)

Goto(label) == pc' = label /\ UNCHANGED <<driveVars, regs, opened, req, buf, reply, heard>>

BusReturn(kindOf, data) ==
    /\ pc' = "idle" /\ req' = NoCall
    /\ reply' = [kind |-> kindOf, data |-> data]
    /\ UNCHANGED <<driveVars, regs, buf, heard>>

(* Every error of identify_drive makes open return None.                    *)
Fails == BusReturn(IF req.op = "open" THEN "refused" ELSE "error", <<>>) /\ UNCHANGED opened

(* An empty status: nothing is attached (UnknownDevice).                    *)
TestEmpty ==
    /\ pc = "empty"
    /\ IF Status = {} THEN Fails ELSE Goto("not_busy")

(* poll(BUSY, false), before the test for an error, after it, and once more *)
(* in identify_drive.                                                       *)
PollBusy ==
    /\ "BUSY" \notin Status
    /\ \/ pc = "not_busy" /\ Goto("no_error")
       \/ pc = "still_not_busy" /\ Goto("request")
       \/ pc = "identified" /\ Goto("signature")

MutTestError == pc = "no_error" /\ Goto("still_not_busy")   \* is_error not asked

TestError ==
    /\ pc = "no_error"
    /\ IF "ERR" \in Status THEN Fails ELSE Goto("still_not_busy")

AfterRequest == IF req.op = "open" THEN "identified" ELSE "data"

MutPollRequest == pc = "request" /\ Goto(AfterRequest)      \* DRQ not polled

(* poll(DATA_REQUEST_READY, true).                                          *)
PollRequest == pc = "request" /\ "DRQ" \in Status /\ Goto(AfterRequest)

(* identify_drive: the data of an unsupported drive is left unread.         *)
TestSignature ==
    /\ pc = "signature"
    /\ IF task[Selected].signature = NoSignature THEN Goto("data") ELSE Fails

(* A word of the data port, and what the drive makes of it.  Without a      *)
(* request for data the port floats and the drive notices nothing.          *)
Last(d, n) == Len(task[d].words) = n

ReadData ==
    /\ pc = "data" /\ req.op # "write"
    /\ LET d == Selected
           asked == "DRQ" \in Status
           word == IF asked THEN Head(task[d].words) ELSE 65535
       IN  /\ buf' = buf \o ToLe(word)
           /\ task' = IF asked THEN [task EXCEPT ![d].words = Tail(@)] ELSE task
           /\ status' \in IF asked /\ Last(d, 1)
                          THEN {[status EXCEPT ![d] = s] : s \in {{"DRDY"}, {"DRDY", "ERR"}}}
                          ELSE {status}
    /\ pc' = IF Len(buf') = 2 * SectorWords THEN "moved" ELSE "data"
    /\ UNCHANGED <<kind, medium, silent, regs, opened, req, reply, heard>>

WriteData ==
    /\ pc = "data" /\ req.op = "write"
    /\ LET d == Selected
           asked == "DRQ" \in Status
           n == Len(buf)
           word == FromLe(req.data[n + 1], req.data[n + 2])
       IN  /\ buf' = buf \o <<req.data[n + 1], req.data[n + 2]>>
           /\ task' = IF asked THEN [task EXCEPT ![d].words = Append(@, word)] ELSE task
           /\ status' = IF asked /\ Last(d, SectorWords - 1)
                        THEN [status EXCEPT ![d] = {"BUSY"}] ELSE status
    /\ pc' = IF Len(buf') = 2 * SectorWords THEN "moved" ELSE "data"
    /\ UNCHANGED <<kind, medium, silent, regs, opened, req, reply, heard>>

(* The drive answered the identification and is supported.                  *)
FinishOpen ==
    /\ pc = "moved" /\ req.op = "open"
    /\ opened' = opened \cup {req.drive}
    /\ BusReturn("opened", <<>>)

(* The last is_error.  The one of a write does not wait until the drive is  *)
(* no longer BUSY, and so misses what goes wrong after it.                  *)
FinishRead ==
    /\ pc = "moved" /\ req.op = "read"
    /\ IF "ERR" \in Status THEN Fails ELSE BusReturn("data", buf) /\ UNCHANGED opened

FinishWrite ==
    /\ pc = "moved" /\ req.op = "write"
    /\ IF "ERR" \in Status THEN Fails ELSE BusReturn("done", <<>>) /\ UNCHANGED opened

Driver ==
    \/ TestEmpty \/ PollBusy \/ TestError \/ PollRequest \/ TestSignature
    \/ ReadData \/ WriteData \/ FinishOpen \/ FinishRead \/ FinishWrite

-----------------------------------------------------------------------------
(* The drives.                                                              *)
Working(d, cmd) == "BUSY" \in status[d] /\ d \notin silent /\ task[d].cmd = cmd

DriveStep(d, bits, t) ==
    /\ status' = [status EXCEPT ![d] = bits]
    /\ task' = [task EXCEPT ![d] = t]
    /\ UNCHANGED <<kind, silent, regs, opened, pc, req, buf, reply, heard>>

Received(d) == Len(task[d].words) = SectorWords

Fetch(d) ==
    /\ Working(d, "ReadPio") /\ task[d].lba \in Blocks
    /\ DriveStep(d, {"DRDY", "DRQ"}, [task[d] EXCEPT !.words = medium[d][task[d].lba]])
    /\ UNCHANGED medium

AskForData(d) ==
    /\ Working(d, "WritePio") /\ ~Received(d) /\ task[d].lba \in Blocks
    /\ DriveStep(d, {"DRDY", "DRQ"}, task[d])
    /\ UNCHANGED medium

Identify(d) ==
    /\ Working(d, "IdentifyDevice") /\ kind[d] # "packet"
    /\ DriveStep(d, {"DRDY", "DRQ"},
                 [task[d] EXCEPT !.words = Identity, !.signature = Signature(kind[d])])
    /\ UNCHANGED medium

Abort(d) ==
    /\ "BUSY" \in status[d] /\ d \notin silent /\ ~Received(d)
    /\ DriveStep(d, {"DRDY", "ERR"}, [task[d] EXCEPT !.signature = Signature(kind[d])])
    /\ UNCHANGED medium

Commit(d) ==
    /\ Working(d, "WritePio") /\ Received(d)
    /\ DriveStep(d, {"DRDY"}, NoTask)
    /\ medium' = [medium EXCEPT ![d][task[d].lba] = task[d].words]

LoseSector(d) ==
    /\ Working(d, "WritePio") /\ Received(d)
    /\ DriveStep(d, {"DRDY", "ERR"}, NoTask)
    /\ UNCHANGED medium

FallSilent(d) ==
    /\ "BUSY" \in status[d] /\ d \notin silent
    /\ silent' = silent \cup {d}
    /\ UNCHANGED <<kind, medium, status, task, regs, opened, pc, req, buf, reply, heard>>

Drive(d) ==
    \/ Fetch(d) \/ AskForData(d) \/ Identify(d) \/ Abort(d) \/ Commit(d) \/ LoseSector(d)

BusNext ==
    \/ \E d \in Drives : Open(d)
    \/ \E d \in Drives, b \in Blocks : ReadBlock(d, b)
    \/ \E d \in Drives, b \in Blocks, c \in Contents : WriteBlock(d, b, c)
    \/ Driver
    \/ \E d \in Drives : Drive(d) \/ FallSilent(d)

(* The kernel goes on with a call it has begun, and a drive that has not    *)
(* fallen silent gets done with its command.                                *)
BusSpec ==
    /\ BusInit /\ [][BusNext]_busVars
    /\ WF_busVars(Driver) /\ \A d \in Drives : WF_busVars(Drive(d))
-----------------------------------------------------------------------------
(* Properties.                                                              *)

InBytes(words) == [i \in 1..(2 * Len(words)) |-> ToLe(words[(i + 1) \div 2])[2 - (i % 2)]]

(* Whether a call's write has been handed over, and lost again since.       *)
Stage ==
    IF req.op # "write" \/ pc # "moved" THEN "asked"
    ELSE IF "ERR" \in Status THEN "failed" ELSE "handed_over"

OwedBy(d) ==
    IF task[d].cmd = "WritePio" /\ Received(d)
    THEN [block |-> task[d].lba, data |-> InBytes(task[d].words)] ELSE NoWrite

(* The state of BlockDevice that a state of the bus stands for.             *)
Supported    == {d \in Drives : kind[d] = "pata"}
DeviceMedium == [d \in Drives |-> [b \in Blocks |-> InBytes(medium[d][b])]]
DeviceCall   ==
    IF req = NoCall THEN NoCall
    ELSE [op |-> req.op, drive |-> req.drive, block |-> req.block, data |-> req.data,
          stage |-> Stage]
Owed         == [d \in Drives |-> OwedBy(d)]

Device == INSTANCE BlockDevice WITH
    supported <- Supported, medium <- DeviceMedium, call <- DeviceCall, owed <- Owed

(* The driver implements BlockDevice: a read that succeeds returns the      *)
(* contents of the block of the drive it was asked for, a write changes     *)
(* that block only, what fails changes nothing unless it was handed over,   *)
(* and only a PATA drive is opened, whatever the two drives do meanwhile    *)
(* (bus.rs:126-272).                                                        *)
IsBlockDevice == Device!Spec

(* While the driver moves data the drive it is for asks for it, works on    *)
(* this very call, and has as many words to go as the driver: no word is    *)
(* read from a floating port and none is left behind (bus.rs:205, 247).     *)
InStep ==
    pc = "data" =>
        /\ Selected = req.drive /\ "DRQ" \in Status
        /\ heard /\ task[Selected].lba = req.block
        /\ IF req.op = "write" THEN Len(buf) = 2 * Len(task[Selected].words)
           ELSE Len(buf) + 2 * Len(task[Selected].words) = 2 * SectorWords

(* Every call ends, though poll has no bound: the kernel spins for ever     *)
(* only if the drive has fallen silent, or did not hear the command because *)
(* it was still busy with an earlier write or with data left unread.        *)
CallsEnd == pc # "idle" ~> (pc = "idle" \/ Selected \in silent \/ ~heard)
=============================================================================
