--------------------------- MODULE ProcessManager ---------------------------
(***************************************************************************)
(* The process manager of the kernel: the process table, the ready queue,  *)
(* the processes waiting for an exit, the semaphores of each vfork family, *)
(* and the system calls and the clock interrupt that change them.          *)
(*                                                                         *)
(* Source: src/pkg/kernel/src/proc/.  One processor; every handler runs    *)
(* with interrupts disabled, so a handler is one action.  What a user      *)
(* program does between two system calls is invisible here: at any moment  *)
(* the clock may tick or the current process may issue any system call.    *)
(***************************************************************************)
EXTENDS Naturals, Sequences, FiniteSets, Semaphore

CONSTANTS
    MaxPid,       \* bound: at most this many processes are ever created
    Keys,         \* semaphore keys the programs use
    SemValues,    \* initial values they give to semaphores
    SemMax,       \* bound: a signal that would bank more tokens is not issued
    ExitCodes,    \* codes passed to exit()
    KillCode,     \* the exit code of a killed process (0xdead)
    NoCode,       \* "no exit code yet" (None)
    NoRet,        \* a saved rax that holds no result of a system call
    KillArgs,     \* arguments of sys_kill: registers, wider than a pid
    Killable,     \* statuses in which programs kill each other
    DropBusySems  \* may programs re-create or remove a semaphore with waiters

KERNEL == 1
SHELL  == 2                    \* the first process the kernel spawns
Pids   == 1..MaxPid
NoPid  == 0

ASSUME BoundAssumption == MaxPid \in Nat /\ MaxPid >= 2
ASSUME CodeAssumption  == /\ NoCode \notin ExitCodes \cup {KillCode}
                          /\ Keys \subseteq Nat
                          /\ SemValues \subseteq Nat
                          /\ SemMax \in Nat
                          /\ KillArgs \subseteq Nat
                          /\ DropBusySems \in BOOLEAN

VARIABLES
    status,     \* ProcessInner.status, "Absent" before the process exists
    exitCode,   \* ProcessInner.exit_code
    parent,     \* ProcessInner.parent (a Weak; the table keeps every process)
    children,   \* ProcessInner.children: the processes it has vforked
    data,       \* family whose ProcessData the process shares; NoPid: dropped
    rax,        \* rax in the saved context
    call,       \* the blocking system call the program is inside
    sems,       \* the SemaphoreSet of each family
    ready,      \* ProcessManager.ready_queue
    waitq,      \* ProcessManager.wait_queue
    cur,        \* the processor's current pid
    nextPid,    \* ProcessId::NEXT_PID
    mode        \* "up", "off" after shutdown, "panic" after a kernel panic

procVars == <<status, exitCode, parent, children, data, rax, call>>
vars == <<procVars, sems, ready, waitq, cur, nextPid, mode>>

Statuses == {"Absent", "Running", "Ready", "Blocked", "Dead"}
Codes    == ExitCodes \cup {KillCode}
RaxValues == {NoRet} \cup Codes \cup (0..MaxPid)

(* proc_vm and proc_data are both Some from creation until kill takes both, *)
(* so one variable stands for the two.                                      *)
HasVm(dt, p) == dt[p] # NoPid

NoCall == [op |-> "none", arg |-> 0]
WaitCall(p) == [op |-> "wait_pid", arg |-> p]
SemCall(k)  == [op |-> "sem_wait", arg |-> k]
Calls == {NoCall} \cup {WaitCall(p) : p \in Pids} \cup {SemCall(k) : k \in Keys}

Exists(p) == status[p] # "Absent"
Alive(p)  == status[p] \in {"Running", "Ready", "Blocked"} /\ HasVm(data, p)
Exited(p) == exitCode[p] # NoCode
Queued(p) == \E i \in DOMAIN ready : ready[i] = p

-----------------------------------------------------------------------------
(* proc::init and kernel_main before the shell is spawned: only the kernel  *)
(* process, running.                                                        *)
Init ==
    /\ status   = [p \in Pids |-> IF p = KERNEL THEN "Running" ELSE "Absent"]
    /\ exitCode = [p \in Pids |-> NoCode]
    /\ parent   = [p \in Pids |-> NoPid]
    /\ children = [p \in Pids |-> {}]
    /\ data     = [p \in Pids |-> IF p = KERNEL THEN KERNEL ELSE NoPid]
    /\ rax      = [p \in Pids |-> NoRet]
    /\ call     = [p \in Pids |-> NoCall]
    /\ sems     = [p \in Pids |-> NoSems]
    /\ ready    = <<>>
    /\ waitq    = [p \in Pids |-> {}]
    /\ cur      = KERNEL
    /\ nextPid  = KERNEL + 1
    /\ mode     = "up"

-----------------------------------------------------------------------------
(* ProcessManager::switch_next, from the statuses st, the queue rq, the     *)
(* saved results rx, the open calls cl and the address spaces dt that the   *)
(* rest of the handler has left.  Entries that are not Ready are popped and *)
(* dropped.  A queue without a Ready process leaves the current one on the  *)
(* processor whatever its status; restoring a process that has lost its     *)
(* address space is a panic (vm() unwraps None).                            *)
MutRunnableAnyStatus(st, rq) == DOMAIN rq             \* is_ready() not checked

Runnable(st, rq) == {i \in DOMAIN rq : st[rq[i]] = "Ready"}

KeepCurrent(st, rx, cl) ==
    /\ status' = st /\ rax' = rx /\ call' = cl
    /\ UNCHANGED <<cur, mode>>

(* restore: the saved registers, rax included, go to the processor and the  *)
(* program returns from its system call.                                    *)
Restore(p, st, rx, cl) ==
    /\ cur'    = p
    /\ status' = [st EXCEPT ![p] = "Running"]
    /\ rax'    = [rx EXCEPT ![p] = NoRet]
    /\ call'   = [cl EXCEPT ![p] = NoCall]
    /\ UNCHANGED mode

RestorePanics(st, rx, cl) ==
    /\ mode' = "panic"
    /\ status' = st /\ rax' = rx /\ call' = cl
    /\ UNCHANGED cur

SwitchNext(st, rq, rx, cl, dt) ==
    \/ /\ Runnable(st, rq) = {}
       /\ ready' = <<>>
       /\ KeepCurrent(st, rx, cl)
    \/ \E n \in Runnable(st, rq) :
         /\ \A i \in Runnable(st, rq) : n <= i
         /\ ready' = SubSeq(rq, n + 1, Len(rq))
         /\ \/ rq[n] = cur /\ KeepCurrent(st, rx, cl)
            \/ rq[n] # cur /\ HasVm(dt, rq[n]) /\ Restore(rq[n], st, rx, cl)
            \/ rq[n] # cur /\ ~HasVm(dt, rq[n]) /\ RestorePanics(st, rx, cl)

(* save_current (status Ready, registers saved) and the push to the ready   *)
(* queue or the block that follows it.                                      *)
Saved(p, s) == [status EXCEPT ![p] = s]

-----------------------------------------------------------------------------
(* Bound: nothing is said of what a program does that goes on although it   *)
(* has just been blocked or killed.                                         *)
Astray == status[cur] \notin {"Running", "Ready"} \/ ~HasVm(data, cur)

Up   == mode = "up" /\ ~Astray
User == Up /\ cur # KERNEL

MutClockNoPush ==                              \* push_ready(pid) forgotten
    /\ Up
    /\ SwitchNext(Saved(cur, "Ready"), ready, [rax EXCEPT ![cur] = NoRet], call, data)
    /\ UNCHANGED <<exitCode, parent, children, data, sems, waitq, nextPid>>

MutClockPushFront ==                           \* push_front for push_back
    /\ Up
    /\ SwitchNext(Saved(cur, "Ready"), <<cur>> \o ready,
                  [rax EXCEPT ![cur] = NoRet], call, data)
    /\ UNCHANGED <<exitCode, parent, children, data, sems, waitq, nextPid>>

(* The clock interrupt: proc::switch.                                       *)
ClockSwitch ==
    /\ Up
    /\ SwitchNext(Saved(cur, "Ready"), Append(ready, cur),
                  [rax EXCEPT ![cur] = NoRet], call, data)
    /\ UNCHANGED <<exitCode, parent, children, data, sems, waitq, nextPid>>

(* ProcessId::new, below the bound.                                         *)
TakePid(p) == p = nextPid /\ p \in Pids /\ nextPid' = p + 1

(* elf_spawn.  The kernel spawns the shell and nothing else.  The child has *)
(* fresh data and is not recorded among the children of its parent; its     *)
(* page table is a copy of the kernel's, which must still be there.         *)
Spawn ==
    /\ Up /\ HasVm(data, KERNEL)
    /\ cur = KERNEL => nextPid = SHELL
    /\ \E c \in Pids :
         /\ TakePid(c)
         /\ status' = [status EXCEPT ![c] = "Ready"]
         /\ parent' = [parent EXCEPT ![c] = cur]
         /\ data'   = [data EXCEPT ![c] = c]
         /\ ready'  = Append(ready, c)
    /\ UNCHANGED <<exitCode, children, rax, call, sems, waitq, cur, mode>>

SpawnPanics ==
    /\ User /\ ~HasVm(data, KERNEL)
    /\ mode' = "panic"
    /\ UNCHANGED <<procVars, sems, ready, waitq, cur, nextPid>>

(* What vfork gives the child: the data of its parent, whose children list  *)
(* it enters, and 0 as the result of the call that gives the parent c.      *)
ForkData(c)     == [data EXCEPT ![c] = data[cur]]
ForkChildren(c) == [children EXCEPT ![cur] = @ \cup {c}]
ForkStatus(c)   == [status EXCEPT ![cur] = "Ready", ![c] = "Ready"]
ForkRax(c)      == [rax EXCEPT ![cur] = c, ![c] = 0]

(* proc::vfork: the child is queued before its parent.                      *)
VFork ==
    /\ User
    /\ \E c \in Pids :
         /\ TakePid(c)
         /\ parent'   = [parent EXCEPT ![c] = cur]
         /\ children' = ForkChildren(c)
         /\ data'     = ForkData(c)
         /\ SwitchNext(ForkStatus(c), ready \o <<c, cur>>, ForkRax(c), call, data')
    /\ UNCHANGED <<exitCode, sems, waitq>>

-----------------------------------------------------------------------------
(* ProcessInner::kill on the family tree.  Only an existing parent hands    *)
(* the children on; a parent that is still alive also forgets the process,  *)
(* but does not record its new children.                                    *)
ParentAlive(q) == parent[q] # NoPid /\ ~Exited(parent[q])

ParentsAfterKill(q) ==
    [p \in Pids |->
        IF p \in children[q] /\ parent[q] # NoPid
        THEN IF ParentAlive(q) THEN parent[q] ELSE NoPid
        ELSE parent[p]]

MutChildrenKept(q) == children                 \* remove_child forgotten

ChildrenAfterKill(q) ==
    [p \in Pids |->
        IF ParentAlive(q) /\ p = parent[q] THEN children[p] \ {q} ELSE children[p]]

DataAfterKill(q) == [data EXCEPT ![q] = NoPid]

(* The set of semaphores goes with the last process that shares it.         *)
SemsAfterKill(q) ==
    [g \in Pids |->
        IF \E p \in Pids : DataAfterKill(q)[p] = g THEN sems[g] ELSE NoSems]

(* The waiters of q are woken in the order of a BTreeSet.                   *)
Ascending(S) ==
    {w \in [1..Cardinality(S) -> S] :
        \A i, j \in 1..Cardinality(S) : i < j => w[i] < w[j]}

MutStatusNoWake(q) ==                          \* waiters queued, not made Ready
    [p \in Pids |-> IF p = q THEN "Dead" ELSE status[p]]

(* wake_up looks at no status: a waiter killed meanwhile becomes Ready.     *)
StatusAfterKill(q) ==
    [p \in Pids |->
        IF p \in waitq[q] THEN "Ready" ELSE IF p = q THEN "Dead" ELSE status[p]]

MutRaxLost(q, ret) == rax                      \* set_return forgotten

RaxAfterKill(q, ret) ==
    [p \in Pids |-> IF p \in waitq[q] THEN ret ELSE rax[p]]

WaitqAfterKill(q) == [waitq EXCEPT ![q] = {}]

(* ProcessManager::kill, up to the statuses, the queue and the saved rax,   *)
(* which its callers finish.  Killing a dead process again runs it all.     *)
KillProcess(q, ret) ==
    /\ exitCode' = [exitCode EXCEPT ![q] = ret]
    /\ parent'   = ParentsAfterKill(q)
    /\ children' = ChildrenAfterKill(q)
    /\ data'     = DataAfterKill(q)
    /\ sems'     = SemsAfterKill(q)
    /\ waitq'    = WaitqAfterKill(q)
    /\ UNCHANGED nextPid

(* kill_self and switch_next, for exit and for a process that kills itself. *)
ExitWith(ret) ==
    /\ User
    /\ KillProcess(cur, ret)
    /\ \E w \in Ascending(waitq[cur]) :
         SwitchNext(StatusAfterKill(cur), ready \o w, RaxAfterKill(cur, ret),
                    call, DataAfterKill(cur))

Exit == \E ret \in ExitCodes : ExitWith(ret)

(* sys_kill refuses the kernel by the whole register and then cuts it to a  *)
(* u16, so 1 + 65536 names the kernel and is not refused.                   *)
PidOf(arg) == arg % 65536

MutKillTargets == {PidOf(arg) : arg \in KillArgs}     \* the guard dropped

KillTargets == {PidOf(arg) : arg \in KillArgs \ {KERNEL}}

KillSelf == cur \in KillTargets /\ ExitWith(KillCode)

(* sys_kill of another process.  An unknown pid only logs a warning, which  *)
(* changes nothing.                                                         *)
KillOther ==
    /\ User
    /\ \E q \in (KillTargets \cap Pids) \ {cur} :
         /\ Exists(q) /\ status[q] \in Killable
         /\ KillProcess(q, KillCode)
         /\ \E w \in Ascending(waitq[q]) : ready' = ready \o w
         /\ status' = StatusAfterKill(q)
         /\ rax'    = RaxAfterKill(q, KillCode)
    /\ UNCHANGED <<call, cur, mode>>

-----------------------------------------------------------------------------
(* save_current, block, switch_next: the tail of wait_pid and of sem_wait.  *)
MutBlockIn(c) ==                               \* block forgotten
    SwitchNext(Saved(cur, "Ready"), Append(ready, cur), [rax EXCEPT ![cur] = NoRet],
               [call EXCEPT ![cur] = c], data)

BlockIn(c) ==
    SwitchNext(Saved(cur, "Blocked"), ready, [rax EXCEPT ![cur] = NoRet],
               [call EXCEPT ![cur] = c], data)

MutMustWait(q) == TRUE                         \* exit code not looked up first

MustWait(q) == ~Exited(q)

JoinWaiters(q) == [waitq EXCEPT ![q] = @ \cup {cur}]

(* proc::wait_pid on a process that has not exited: itself, the kernel and  *)
(* a pid nobody has yet are accepted too.  The exit code of a process that  *)
(* has exited is returned at once, which changes nothing here.              *)
WaitPid ==
    /\ User
    /\ \E q \in Pids :
         /\ MustWait(q)
         /\ waitq' = JoinWaiters(q)
         /\ BlockIn(WaitCall(q))
    /\ UNCHANGED <<exitCode, parent, children, data, sems, nextPid>>

-----------------------------------------------------------------------------
(* sys_sem.  MySems: the set the current process shares with its family.    *)
MySems == sems[data[cur]]
SetMySems(set) == sems' = [sems EXCEPT ![data[cur]] = set]

MayDrop(k) ==
    (InSet(MySems, k) /\ HasWaiters(MySems[k])) => DropBusySems

SemNew ==
    /\ User
    /\ \E k \in Keys, v \in SemValues :
         MayDrop(k) /\ SetMySems(Insert(MySems, k, v))
    /\ UNCHANGED <<procVars, ready, waitq, cur, nextPid, mode>>

SemRemove ==
    /\ User
    /\ \E k \in Keys :
         InSet(MySems, k) /\ MayDrop(k) /\ SetMySems(Discard(MySems, k))
    /\ UNCHANGED <<procVars, ready, waitq, cur, nextPid, mode>>

(* A wait that finds a token returns at once; otherwise the caller blocks.  *)
SemTake ==
    /\ User
    /\ \E k \in Keys :
         /\ InSet(MySems, k) /\ ~WouldBlock(MySems[k])
         /\ SetMySems([MySems EXCEPT ![k] = Take(@)])
    /\ UNCHANGED <<procVars, ready, waitq, cur, nextPid, mode>>

SemBlock ==
    /\ User
    /\ \E k \in Keys :
         /\ InSet(MySems, k) /\ WouldBlock(MySems[k])
         /\ SetMySems([MySems EXCEPT ![k] = Enqueue(@, cur)])
         /\ BlockIn(SemCall(k))
    /\ UNCHANGED <<exitCode, parent, children, data, waitq, nextPid>>

SemGive ==
    /\ User
    /\ \E k \in Keys :
         /\ InSet(MySems, k) /\ ~HasWaiters(MySems[k])
         /\ MySems[k].count < SemMax
         /\ SetMySems([MySems EXCEPT ![k] = Give(@)])
    /\ UNCHANGED <<procVars, ready, waitq, cur, nextPid, mode>>

(* A signal with waiters wakes the first one, again whatever its status; no *)
(* result is written to its saved rax.                                      *)
SemWake ==
    /\ User
    /\ \E k \in Keys :
         /\ InSet(MySems, k) /\ HasWaiters(MySems[k])
         /\ SetMySems([MySems EXCEPT ![k] = Dequeue(@)])
         /\ status' = [status EXCEPT ![FirstWaiter(MySems[k])] = "Ready"]
         /\ ready'  = Append(ready, FirstWaiter(MySems[k]))
    /\ UNCHANGED <<exitCode, parent, children, data, rax, call, waitq, cur,
                   nextPid, mode>>

-----------------------------------------------------------------------------
MutShutdown ==                       \* a killed shell not taken for an exited one
    /\ Up /\ cur = KERNEL /\ exitCode[SHELL] \in ExitCodes
    /\ mode' = "off"
    /\ UNCHANGED <<procVars, sems, ready, waitq, cur, nextPid>>

(* kernel_main: the kernel process polls for the exit of the shell and then *)
(* shuts the machine down.                                                  *)
Shutdown ==
    /\ Up /\ cur = KERNEL /\ Exited(SHELL)
    /\ mode' = "off"
    /\ UNCHANGED <<procVars, sems, ready, waitq, cur, nextPid>>

Next ==
    \/ ClockSwitch \/ Spawn \/ SpawnPanics \/ VFork
    \/ Exit \/ KillSelf \/ KillOther \/ WaitPid
    \/ SemNew \/ SemRemove \/ SemTake \/ SemBlock \/ SemGive \/ SemWake
    \/ Shutdown

Spec == Init /\ [][Next]_vars

(* The timer interrupts again and again (system calls run with interrupts   *)
(* off but end), and a time slice of the kernel is long enough for one turn *)
(* of its polling loop.                                                     *)
Fairness == WF_vars(ClockSwitch) /\ SF_vars(Shutdown)
FairSpec == Spec /\ Fairness
-----------------------------------------------------------------------------
(* Properties.                                                              *)

(* Every variable has its type.                                             *)
TypeOK ==
    /\ status   \in [Pids -> Statuses]
    /\ exitCode \in [Pids -> Codes \cup {NoCode}]
    /\ parent   \in [Pids -> Pids \cup {NoPid}]
    /\ children \in [Pids -> SUBSET Pids]
    /\ data     \in [Pids -> Pids \cup {NoPid}]
    /\ rax      \in [Pids -> RaxValues]
    /\ call     \in [Pids -> Calls]
    /\ sems = [g \in Pids |-> sems[g]]
    /\ \A g \in Pids : IsSemaphoreSet(sems[g], Keys, Pids)
    /\ ready    \in Seq(Pids)
    /\ waitq    \in [Pids -> SUBSET Pids]
    /\ cur      \in Pids
    /\ nextPid  \in 2..(MaxPid + 1)
    /\ mode     \in {"up", "off", "panic"}

(* The process on the processor is neither blocked nor dead and still owns  *)
(* its address space, though switch_next, when it finds no Ready process,   *)
(* would let exactly such a process go on (manager.rs:134-154); only with   *)
(* the kernel killed does that happen.                                      *)
OnlyRunnableRuns ==
    (mode = "up" /\ ~Exited(KERNEL)) =>
        status[cur] \in {"Running", "Ready"} /\ HasVm(data, cur)

(* The programs kill by the sys_kill of the user library, which takes a u16.*)
LibraryKills == \A arg \in KillArgs : arg < 65536

(* The kernel process is never out of the scheduler's reach, on the         *)
(* processor or Ready in the queue, unless it is killed; and the guard of   *)
(* sys_kill (service.rs:77), which sees more bits than the kill it guards,  *)
(* protects it from all arguments of the user library.                      *)
KernelSchedulable ==
    IF Exited(KERNEL) THEN ~LibraryKills
    ELSE /\ HasVm(data, KERNEL)
         /\ cur = KERNEL \/ (status[KERNEL] = "Ready" /\ Queued(KERNEL))

(* The places that can give a process the processor back: the processor,    *)
(* positions of the ready queue, and the queues of waiters.                 *)
ReadySeats(p) == {<<"ready", i, 0, 0>> : i \in {j \in DOMAIN ready : ready[j] = p}}
WaitSeats(p)  == {<<"wait", q, 0, 0>> : q \in {t \in Pids : p \in waitq[t]}}
SemSeats(p)   ==
    UNION {UNION {{<<"sem", g, k, i>> :
                      i \in {j \in DOMAIN sems[g][k].queue : sems[g][k].queue[j] = p}}
                  : k \in DOMAIN sems[g]} : g \in Pids}
Seats(p) == (IF cur = p THEN {<<"cpu", 0, 0, 0>>} ELSE {})
            \cup ReadySeats(p) \cup WaitSeats(p) \cup SemSeats(p)

(* A process that has not been killed sits in at most one of these places,  *)
(* so it is never queued twice or woken for two reasons; and in at least    *)
(* one unless a semaphore was dropped under it, so no handler loses it.     *)
(* It is Blocked exactly when it waits.                                     *)
OneSeat ==
    Up => \A p \in Pids : HasVm(data, p) =>
        /\ Cardinality(Seats(p)) <= 1
        /\ ~DropBusySems => Seats(p) # {}
        /\ status[p] = "Blocked" <=> (cur # p /\ ReadySeats(p) = {})

(* No exit is missed: nobody waits for a process that already has its exit  *)
(* code, and a process blocked in wait_pid is in the queue of its target.   *)
NoLostExit ==
    \A p, q \in Pids :
        /\ Exited(q) => waitq[q] = {}
        /\ (HasVm(data, p) /\ status[p] = "Blocked" /\ call[p] = WaitCall(q))
              => p \in waitq[q]

(* A semaphore never has tokens and waiters at once, and its queue holds,   *)
(* besides killed processes, only members of the family blocked on that key.*)
SemaphoreDiscipline ==
    \A g \in Pids : \A k \in DOMAIN sems[g] :
        /\ sems[g][k].count > 0 => ~HasWaiters(sems[g][k])
        /\ \A p \in Waiters(sems[g][k]) : HasVm(data, p) =>
              data[p] = g /\ status[p] = "Blocked" /\ call[p] = SemCall(k)

(* Whoever the children list of a living process names is alive and has it  *)
(* as parent; the length of the list places the next vforked stack.         *)
FamilyTree ==
    \A p \in Pids : HasVm(data, p) =>
        \A c \in children[p] : HasVm(data, c) /\ parent[c] = p

(* The kernel never restores a process that has lost its address space      *)
(* (process.rs:168-170 unwraps it).                                         *)
NoPanic == mode # "panic"

(* What of a process ProcessLife speaks about: its exit code once it is     *)
(* Dead, and the wait_pid it is inside, with the result its saved context   *)
(* holds once it has been woken.                                            *)
LifeOf(p) ==
    CASE status[p] = "Absent" -> <<"unborn">>
      [] status[p] = "Dead"   -> <<"ended", exitCode[p]>>
      [] OTHER                -> <<"alive">>

WaitOf(p) ==
    IF ~HasVm(data, p) \/ call[p].op # "wait_pid" THEN <<"idle">>
    ELSE IF status[p] = "Blocked" THEN <<"blocked", call[p].arg>>
    ELSE <<"told", rax[p]>>

Lives == [p \in Pids |-> LifeOf(p)]
Waits == [p \in Pids |-> WaitOf(p)]

Life == INSTANCE ProcessLife WITH
            Procs <- Pids, First <- KERNEL, life <- Lives, wait <- Waits

(* The process manager implements ProcessLife: nobody comes back from the   *)
(* dead or changes its exit code, nobody blocks on a process that has       *)
(* exited, and each caller of wait_pid leaves it only after the exit of its *)
(* target and with that exit code in rax, however exits, kills, wake-ups    *)
(* and switches fall together in one handler (manager.rs:134-240).          *)
LifeCycle == Life!Spec

(* Round robin starves nobody: a process that is Ready and alive runs, or   *)
(* is killed, or the machine stops.                                         *)
ReadyRuns ==
    \A p \in Pids :
        (status[p] = "Ready" /\ HasVm(data, p))
            ~> (cur = p \/ ~HasVm(data, p) \/ ~Up)

WaitsForExited(p) == \E q \in Pids : call[p] = WaitCall(q) /\ Exited(q)

(* Whoever waits for a process that exits comes back from wait_pid, unless  *)
(* killed meanwhile.                                                        *)
WaiterResumes ==
    \A p \in Pids :
        (HasVm(data, p) /\ WaitsForExited(p))
            ~> (call[p] = NoCall \/ ~HasVm(data, p) \/ ~Up)

(* When the shell has exited the machine shuts down.                        *)
ShellExitShutsDown == Exited(SHELL) ~> mode = "off"
=============================================================================
