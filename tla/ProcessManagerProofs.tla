------------------------ MODULE ProcessManagerProofs ------------------------
(***************************************************************************)
(* Theorems about ProcessManager and ProcessFamilies, for every value of   *)
(* their constants.                                                        *)
(***************************************************************************)
EXTENDS ProcessFamilies, FiniteSetTheorems, TLAPS

-----------------------------------------------------------------------------
(* The semaphore operators keep semaphore sets well typed.                  *)

(* insert: a fresh semaphore under a key, in sync.rs:81-89.                 *)
LEMMA InsertType ==
    ASSUME NEW K, NEW P, NEW set, IsSemaphoreSet(set, K, P),
           NEW key \in K, NEW value \in Nat
    PROVE  IsSemaphoreSet(Insert(set, key, value), K, P)
<1>1. NewSemaphore(value) \in Semaphores(P)
  BY DEF NewSemaphore, Semaphores
<1>2. QED
  BY <1>1 DEF IsSemaphoreSet, Insert

(* remove: one key fewer, in sync.rs:91-96.                                 *)
LEMMA DiscardType ==
    ASSUME NEW K, NEW P, NEW set, IsSemaphoreSet(set, K, P), NEW key
    PROVE  IsSemaphoreSet(Discard(set, key), K, P)
  BY DEF IsSemaphoreSet, Discard

(* wait and signal change one semaphore in place, in sync.rs:43-72.         *)
LEMMA UpdateType ==
    ASSUME NEW K, NEW P, NEW set, IsSemaphoreSet(set, K, P),
           NEW key \in DOMAIN set, NEW s \in Semaphores(P)
    PROVE  IsSemaphoreSet([set EXCEPT ![key] = s], K, P)
  BY DEF IsSemaphoreSet

(* The pieces of Semaphore::wait, signal (sync.rs:43-72) give semaphores.    *)
LEMMA SemaphoreStepType ==
    ASSUME NEW P, NEW s \in Semaphores(P), NEW pid \in P
    PROVE  /\ ~WouldBlock(s) => Take(s) \in Semaphores(P)
           /\ Enqueue(s, pid) \in Semaphores(P)
           /\ HasWaiters(s) => FirstWaiter(s) \in P /\ Dequeue(s) \in Semaphores(P)
           /\ Give(s) \in Semaphores(P)
<1>1. s.count \in Nat /\ s.queue \in Seq(P) /\ s = [count |-> s.count, queue |-> s.queue]
  BY DEF Semaphores
<1>2. ~WouldBlock(s) => Take(s) \in Semaphores(P)
  <2>1. ~WouldBlock(s) => s.count - 1 \in Nat
    BY <1>1 DEF WouldBlock
  <2>2. QED
    BY <1>1, <2>1 DEF Take, Semaphores
<1>3. Enqueue(s, pid) \in Semaphores(P)
  <2>1. Append(s.queue, pid) \in Seq(P)
    BY <1>1
  <2>2. QED
    BY <1>1, <2>1 DEF Enqueue, Semaphores
<1>4. HasWaiters(s) => FirstWaiter(s) \in P /\ Dequeue(s) \in Semaphores(P)
  <2>1. HasWaiters(s) => Head(s.queue) \in P /\ Tail(s.queue) \in Seq(P)
    BY <1>1 DEF HasWaiters
  <2>2. QED
    BY <1>1, <2>1 DEF FirstWaiter, Dequeue, Semaphores
<1>5. Give(s) \in Semaphores(P)
  BY <1>1 DEF Give, Semaphores
<1>6. QED
  BY <1>2, <1>3, <1>4, <1>5

(* A process spawned without data gets an empty set (data.rs:14-22).         *)
LEMMA NoSemsType == ASSUME NEW K, NEW P PROVE IsSemaphoreSet(NoSems, K, P)
  BY DEF NoSems, IsSemaphoreSet

-----------------------------------------------------------------------------
(* Waiters come out of the BTreeSet as a finite sequence of process ids.    *)
LEMMA AscendingType ==
    ASSUME NEW S \in SUBSET Pids, NEW w \in Ascending(S)
    PROVE  w \in Seq(Pids) /\ \A i \in DOMAIN w : w[i] \in S
<1>1. IsFiniteSet(Pids)
  BY FS_Interval, BoundAssumption DEF Pids
<1>2. Cardinality(S) \in Nat
  BY <1>1, FS_Subset, FS_CardinalityType
<1>3. w \in [1..Cardinality(S) -> S]
  BY DEF Ascending
<1>4. QED
  BY <1>2, <1>3

(* Pushing to the ready queue loses nobody and adds only who is pushed.     *)
LEMMA ConcatMembers ==
    ASSUME NEW s \in Seq(Pids), NEW t \in Seq(Pids)
    PROVE  /\ \A p : (\E i \in DOMAIN s : s[i] = p) => \E i \in DOMAIN (s \o t) : (s \o t)[i] = p
           /\ \A p : (\E i \in DOMAIN t : t[i] = p) => \E i \in DOMAIN (s \o t) : (s \o t)[i] = p
           /\ \A i \in DOMAIN (s \o t) : \/ \E j \in DOMAIN s : (s \o t)[i] = s[j]
                                         \/ \E j \in DOMAIN t : (s \o t)[i] = t[j]
<1>1. DOMAIN (s \o t) = 1..(Len(s) + Len(t)) /\ DOMAIN s = 1..Len(s) /\ DOMAIN t = 1..Len(t)
  OBVIOUS
<1>2. \A i \in 1..Len(s) : (s \o t)[i] = s[i] /\ i \in 1..(Len(s) + Len(t))
  OBVIOUS
<1>3. \A i \in 1..Len(t) : (s \o t)[Len(s) + i] = t[i] /\ Len(s) + i \in 1..(Len(s) + Len(t))
  OBVIOUS
<1>4. \A i \in 1..(Len(s) + Len(t)) : i \notin 1..Len(s) =>
         i - Len(s) \in 1..Len(t) /\ (s \o t)[i] = t[i - Len(s)]
  OBVIOUS
<1>5. QED
  BY <1>1, <1>2, <1>3, <1>4

(* push_back keeps the members of a queue and adds one.                      *)
LEMMA AppendMembers ==
    ASSUME NEW s \in Seq(Pids), NEW q \in Pids
    PROVE  /\ \A p : (\E i \in DOMAIN s : s[i] = p) => \E i \in DOMAIN Append(s, q) : Append(s, q)[i] = p
           /\ \E i \in DOMAIN Append(s, q) : Append(s, q)[i] = q
           /\ \A i \in DOMAIN Append(s, q) : \/ \E j \in DOMAIN s : Append(s, q)[i] = s[j]
                                            \/ Append(s, q)[i] = q
<1>1. DOMAIN Append(s, q) = 1..(Len(s) + 1) /\ DOMAIN s = 1..Len(s)
  OBVIOUS
<1>2. \A i \in 1..Len(s) : Append(s, q)[i] = s[i] /\ i \in 1..(Len(s) + 1)
  OBVIOUS
<1>3. Append(s, q)[Len(s) + 1] = q /\ Len(s) + 1 \in 1..(Len(s) + 1)
  OBVIOUS
<1>4. QED
  BY <1>1, <1>2, <1>3

-----------------------------------------------------------------------------
(* What switch_next may do (manager.rs:134-154), for the statuses, queue,   *)
(* saved results, calls and address spaces its caller has left.             *)

(* The kernel has pid 1 and the shell 2; pid 0 is nobody (pid.rs:8).         *)
LEMMA PidFacts == KERNEL \in Pids /\ SHELL \in Pids /\ NoPid \notin Pids /\ Pids \subseteq Nat
  BY BoundAssumption DEF KERNEL, SHELL, Pids, NoPid

(* The blocking system calls a program can be inside.                        *)
LEMMA CallTypes ==
    /\ NoCall \in Calls
    /\ \A p \in Pids : WaitCall(p) \in Calls
    /\ \A k \in Keys : SemCall(k) \in Calls
  BY DEF Calls

(* It keeps every variable it writes in its type.                           *)
LEMMA SwitchNextType ==
    ASSUME NEW st \in [Pids -> Statuses], NEW rq \in Seq(Pids),
           NEW rx \in [Pids -> RaxValues], NEW cl \in [Pids -> Calls], NEW dt,
           cur \in Pids, mode \in {"up", "off", "panic"},
           SwitchNext(st, rq, rx, cl, dt)
    PROVE  /\ status' \in [Pids -> Statuses] /\ ready' \in Seq(Pids)
           /\ rax' \in [Pids -> RaxValues]   /\ call' \in [Pids -> Calls]
           /\ cur' \in Pids /\ mode' \in {"up", "off", "panic"}
<1>1. CASE Runnable(st, rq) = {} /\ ready' = <<>> /\ KeepCurrent(st, rx, cl)
  BY <1>1 DEF KeepCurrent
<1>2. ASSUME NEW n \in Runnable(st, rq), ready' = SubSeq(rq, n + 1, Len(rq)),
             \/ rq[n] = cur /\ KeepCurrent(st, rx, cl)
             \/ rq[n] # cur /\ HasVm(dt, rq[n]) /\ Restore(rq[n], st, rx, cl)
             \/ rq[n] # cur /\ ~HasVm(dt, rq[n]) /\ RestorePanics(st, rx, cl)
      PROVE  /\ status' \in [Pids -> Statuses] /\ ready' \in Seq(Pids)
             /\ rax' \in [Pids -> RaxValues]   /\ call' \in [Pids -> Calls]
             /\ cur' \in Pids /\ mode' \in {"up", "off", "panic"}
  <2>1. n \in 1..Len(rq) /\ rq[n] \in Pids
    BY DEF Runnable
  <2>2. ready' \in Seq(Pids)
    BY <1>2, <2>1
  <2>3. CASE KeepCurrent(st, rx, cl)
    BY <2>2, <2>3 DEF KeepCurrent
  <2>4. CASE Restore(rq[n], st, rx, cl)
    <3>1. NoRet \in RaxValues /\ NoCall \in Calls /\ "Running" \in Statuses
      BY CallTypes DEF RaxValues, Statuses
    <3>2. QED
      BY <2>1, <2>2, <2>4, <3>1 DEF Restore
  <2>5. CASE RestorePanics(st, rx, cl)
    BY <2>2, <2>5 DEF RestorePanics
  <2>6. QED
    BY <1>2, <2>3, <2>4, <2>5
<1>3. QED
  BY <1>1, <1>2 DEF SwitchNext

(* It resumes at most the process it puts on the processor, which was Ready *)
(* in the queue and has an address space; everybody else keeps status and   *)
(* call.                                                                    *)
LEMMA SwitchNextFrame ==
    ASSUME NEW st \in [Pids -> Statuses], NEW rq \in Seq(Pids), NEW rx,
           NEW cl \in [Pids -> Calls], NEW dt, SwitchNext(st, rq, rx, cl, dt)
    PROVE  /\ \A p \in Pids : st[p] # "Ready" =>
                 status'[p] = st[p] /\ call'[p] = cl[p]
           /\ \A p \in Pids : st[p] = "Ready" => status'[p] \in {"Ready", "Running"}
           /\ \/ cur' = cur
              \/ cur' \in Pids /\ HasVm(dt, cur') /\ status'[cur'] = "Running"
           /\ \A i \in DOMAIN ready' : \E j \in DOMAIN rq : ready'[i] = rq[j]
           /\ cur' = cur \/ \E j \in DOMAIN rq : cur' = rq[j]
           /\ mode' \in {mode, "panic"}
<1> DEFINE Goal ==
           /\ \A p \in Pids : st[p] # "Ready" =>
                 status'[p] = st[p] /\ call'[p] = cl[p]
           /\ \A p \in Pids : st[p] = "Ready" => status'[p] \in {"Ready", "Running"}
           /\ \/ cur' = cur
              \/ cur' \in Pids /\ HasVm(dt, cur') /\ status'[cur'] = "Running"
           /\ \A i \in DOMAIN ready' : \E j \in DOMAIN rq : ready'[i] = rq[j]
           /\ cur' = cur \/ \E j \in DOMAIN rq : cur' = rq[j]
           /\ mode' \in {mode, "panic"}
<1>1. CASE Runnable(st, rq) = {} /\ ready' = <<>> /\ KeepCurrent(st, rx, cl)
  BY <1>1 DEF KeepCurrent
<1>2. ASSUME NEW n \in Runnable(st, rq), ready' = SubSeq(rq, n + 1, Len(rq)),
             \/ rq[n] = cur /\ KeepCurrent(st, rx, cl)
             \/ rq[n] # cur /\ HasVm(dt, rq[n]) /\ Restore(rq[n], st, rx, cl)
             \/ rq[n] # cur /\ ~HasVm(dt, rq[n]) /\ RestorePanics(st, rx, cl)
      PROVE  Goal
  <2>1. n \in 1..Len(rq) /\ rq[n] \in Pids /\ st[rq[n]] = "Ready"
    BY DEF Runnable
  <2>2. \A i \in DOMAIN ready' : \E j \in DOMAIN rq : ready'[i] = rq[j]
    <3>1. \A i \in 1..(Len(rq) - n) : ready'[i] = rq[n + i] /\ n + i \in 1..Len(rq)
      BY <1>2, <2>1
    <3>2. DOMAIN ready' = 1..(Len(rq) - n)
      BY <1>2, <2>1
    <3>3. QED
      BY <3>1, <3>2
  <2>3. CASE KeepCurrent(st, rx, cl)
    BY <2>2, <2>3 DEF KeepCurrent
  <2>4. CASE HasVm(dt, rq[n]) /\ Restore(rq[n], st, rx, cl)
    BY <2>1, <2>2, <2>4 DEF Restore
  <2>5. CASE RestorePanics(st, rx, cl)
    BY <2>2, <2>5 DEF RestorePanics
  <2>6. QED
    BY <1>2, <2>3, <2>4, <2>5
<1>3. QED
  BY <1>1, <1>2 DEF SwitchNext

-----------------------------------------------------------------------------
(* Type correctness.                                                        *)

(* kill keeps the type of what it changes (process.rs:212-235).              *)
LEMMA KillTypes ==
    ASSUME TypeOK, NEW q \in Pids, NEW ret \in Codes, KillProcess(q, ret)
    PROVE  /\ exitCode' \in [Pids -> Codes \cup {NoCode}]
           /\ parent'   \in [Pids -> Pids \cup {NoPid}]
           /\ children' \in [Pids -> SUBSET Pids]
           /\ data'     \in [Pids -> Pids \cup {NoPid}]
           /\ sems' = [g \in Pids |-> sems'[g]]
           /\ \A g \in Pids : IsSemaphoreSet(sems'[g], Keys, Pids)
           /\ waitq'    \in [Pids -> SUBSET Pids]
           /\ StatusAfterKill(q)   \in [Pids -> Statuses]
           /\ RaxAfterKill(q, ret) \in [Pids -> RaxValues]
           /\ DataAfterKill(q)     \in [Pids -> Pids \cup {NoPid}]
<1>1. exitCode' \in [Pids -> Codes \cup {NoCode}]
  BY DEF TypeOK, KillProcess
<1>2. parent' \in [Pids -> Pids \cup {NoPid}]
  BY DEF TypeOK, KillProcess, ParentsAfterKill
<1>3. children' \in [Pids -> SUBSET Pids]
  BY DEF TypeOK, KillProcess, ChildrenAfterKill
<1>4. DataAfterKill(q) \in [Pids -> Pids \cup {NoPid}] /\ data' = DataAfterKill(q)
  BY DEF TypeOK, KillProcess, DataAfterKill
<1>5. sems' = [g \in Pids |-> sems'[g]] /\ \A g \in Pids : sems'[g] \in {sems[g], NoSems}
  BY DEF KillProcess, SemsAfterKill
<1>6. \A g \in Pids : IsSemaphoreSet(sems'[g], Keys, Pids)
  BY <1>5, NoSemsType DEF TypeOK
<1>7. waitq' \in [Pids -> SUBSET Pids]
  BY DEF TypeOK, KillProcess, WaitqAfterKill
<1>8. StatusAfterKill(q) \in [Pids -> Statuses]
  BY DEF TypeOK, StatusAfterKill, Statuses
<1>9. RaxAfterKill(q, ret) \in [Pids -> RaxValues]
  BY DEF TypeOK, RaxAfterKill, RaxValues
<1>10. QED
  BY <1>1, <1>2, <1>3, <1>4, <1>5, <1>6, <1>7, <1>8, <1>9

(* The current process of a live family works on that family's semaphores.  *)
LEMMA MySemsType ==
    ASSUME TypeOK, NEW set, IsSemaphoreSet(set, Keys, Pids), SetMySems(set)
    PROVE  /\ sems' = [g \in Pids |-> sems'[g]]
           /\ \A g \in Pids : IsSemaphoreSet(sems'[g], Keys, Pids)
<1>1. /\ sems' = [g \in Pids |-> sems'[g]]
      /\ \A g \in Pids : sems'[g] \in {sems[g], set}
  BY DEF TypeOK, SetMySems
<1>2. QED
  BY <1>1 DEF TypeOK

(* The state kernel_main starts from has its type.                           *)
LEMMA InitType == Init => TypeOK
<1> SUFFICES ASSUME Init PROVE TypeOK
  OBVIOUS
<1>1. /\ status \in [Pids -> Statuses] /\ exitCode \in [Pids -> Codes \cup {NoCode}]
      /\ parent \in [Pids -> Pids \cup {NoPid}] /\ children \in [Pids -> SUBSET Pids]
      /\ data \in [Pids -> Pids \cup {NoPid}]
  BY PidFacts DEF Init, Statuses
<1>2. rax \in [Pids -> RaxValues] /\ call \in [Pids -> Calls]
  BY CallTypes DEF Init, RaxValues
<1>3. /\ sems = [g \in Pids |-> sems[g]]
      /\ \A g \in Pids : IsSemaphoreSet(sems[g], Keys, Pids)
  BY NoSemsType DEF Init
<1>4. /\ ready \in Seq(Pids) /\ waitq \in [Pids -> SUBSET Pids] /\ cur \in Pids
      /\ mode \in {"up", "off", "panic"}
  BY PidFacts DEF Init
<1>5. nextPid \in 2..(MaxPid + 1)
  BY BoundAssumption DEF Init, KERNEL
<1>6. QED
  BY <1>1, <1>2, <1>3, <1>4, <1>5 DEF TypeOK

(* The clock interrupt (mod.rs:55-62).                                       *)
LEMMA ClockSwitchType == TypeOK /\ ClockSwitch => TypeOK'
<1> SUFFICES ASSUME TypeOK, ClockSwitch PROVE TypeOK'
  OBVIOUS
<1> DEFINE rx == [rax EXCEPT ![cur] = NoRet]
<1>1. /\ Saved(cur, "Ready") \in [Pids -> Statuses] /\ Append(ready, cur) \in Seq(Pids)
      /\ rx \in [Pids -> RaxValues]
  BY DEF TypeOK, Saved, Statuses, RaxValues
<1>2. SwitchNext(Saved(cur, "Ready"), Append(ready, cur), rx, call, data)
  BY DEF ClockSwitch
<1>3. cur \in Pids /\ mode \in {"up", "off", "panic"} /\ call \in [Pids -> Calls]
  BY DEF TypeOK
<1> HIDE DEF rx
<1>4. /\ status' \in [Pids -> Statuses] /\ ready' \in Seq(Pids)
      /\ rax' \in [Pids -> RaxValues]   /\ call' \in [Pids -> Calls]
      /\ cur' \in Pids /\ mode' \in {"up", "off", "panic"}
  BY <1>1, <1>2, <1>3, SwitchNextType
<1>5. QED
  BY <1>4 DEF TypeOK, ClockSwitch

(* A spawn (manager.rs:156-181).                                             *)
LEMMA SpawnType == TypeOK /\ Spawn => TypeOK'
<1> SUFFICES ASSUME TypeOK, Spawn PROVE TypeOK'
  OBVIOUS
<1>1. PICK c \in Pids : /\ TakePid(c)
                        /\ status' = [status EXCEPT ![c] = "Ready"]
                        /\ parent' = [parent EXCEPT ![c] = cur]
                        /\ data'   = [data EXCEPT ![c] = c]
                        /\ ready'  = Append(ready, c)
  BY DEF Spawn
<1>2. nextPid' \in 2..(MaxPid + 1)
  BY <1>1, BoundAssumption DEF TypeOK, TakePid, Pids
<1>3. /\ status' \in [Pids -> Statuses] /\ parent' \in [Pids -> Pids \cup {NoPid}]
      /\ data' \in [Pids -> Pids \cup {NoPid}] /\ ready' \in Seq(Pids)
  BY <1>1 DEF TypeOK, Statuses
<1>4. QED
  BY <1>2, <1>3 DEF TypeOK, Spawn

(* A vfork (mod.rs:188-196).                                                 *)
LEMMA VForkType == TypeOK /\ VFork => TypeOK'
<1> SUFFICES ASSUME TypeOK, VFork PROVE TypeOK'
  OBVIOUS
<1> DEFINE st(c) == [status EXCEPT ![cur] = "Ready", ![c] = "Ready"]
           rx(c) == [rax EXCEPT ![cur] = c, ![c] = 0]
<1>1. PICK c \in Pids : /\ TakePid(c)
                        /\ parent'   = [parent EXCEPT ![c] = cur]
                        /\ children' = [children EXCEPT ![cur] = @ \cup {c}]
                        /\ data'     = [data EXCEPT ![c] = data[cur]]
                        /\ SwitchNext(st(c), ready \o <<c, cur>>, rx(c), call, data')
  BY DEF VFork, ForkData, ForkChildren, ForkStatus, ForkRax
<1>2. nextPid' \in 2..(MaxPid + 1)
  BY <1>1, BoundAssumption DEF TypeOK, TakePid, Pids
<1>3. /\ parent' \in [Pids -> Pids \cup {NoPid}] /\ children' \in [Pids -> SUBSET Pids]
      /\ data' \in [Pids -> Pids \cup {NoPid}]
  BY <1>1 DEF TypeOK
<1>4. st(c) \in [Pids -> Statuses] /\ ready \o <<c, cur>> \in Seq(Pids)
  BY DEF TypeOK, Statuses
<1>5. rx(c) \in [Pids -> RaxValues]
  <2>1. c \in RaxValues /\ 0 \in RaxValues
    BY BoundAssumption DEF RaxValues, Pids
  <2>2. QED
    BY <2>1 DEF TypeOK
<1>6. cur \in Pids /\ mode \in {"up", "off", "panic"} /\ call \in [Pids -> Calls]
  BY DEF TypeOK
<1> HIDE DEF st, rx
<1>7. /\ status' \in [Pids -> Statuses] /\ ready' \in Seq(Pids)
      /\ rax' \in [Pids -> RaxValues]   /\ call' \in [Pids -> Calls]
      /\ cur' \in Pids /\ mode' \in {"up", "off", "panic"}
  BY <1>1, <1>4, <1>5, <1>6, SwitchNextType
<1>8. QED
  BY <1>2, <1>3, <1>7 DEF TypeOK, VFork

(* An exit, or a process killing itself (mod.rs:76-83, 117-123).             *)
LEMMA ExitWithType == ASSUME NEW ret \in Codes PROVE TypeOK /\ ExitWith(ret) => TypeOK'
<1> SUFFICES ASSUME TypeOK, ExitWith(ret) PROVE TypeOK'
  OBVIOUS
<1>1. cur \in Pids /\ mode \in {"up", "off", "panic"} /\ call \in [Pids -> Calls]
  BY DEF TypeOK
<1>2. KillProcess(cur, ret)
  BY DEF ExitWith
<1>3. PICK w \in Ascending(waitq[cur]) :
         SwitchNext(StatusAfterKill(cur), ready \o w, RaxAfterKill(cur, ret),
                    call, DataAfterKill(cur))
  BY DEF ExitWith
<1>4. waitq[cur] \in SUBSET Pids
  BY <1>1 DEF TypeOK
<1>5. ready \o w \in Seq(Pids)
  <2>1. w \in Seq(Pids) /\ ready \in Seq(Pids)
    BY <1>4, AscendingType DEF TypeOK
  <2>2. QED
    BY <2>1
<1>6. /\ status' \in [Pids -> Statuses] /\ ready' \in Seq(Pids)
      /\ rax' \in [Pids -> RaxValues]   /\ call' \in [Pids -> Calls]
      /\ cur' \in Pids /\ mode' \in {"up", "off", "panic"}
  BY <1>1, <1>2, <1>3, <1>5, KillTypes, SwitchNextType
<1>7. nextPid' \in 2..(MaxPid + 1)
  BY <1>2 DEF KillProcess, TypeOK
<1>8. QED
  BY <1>1, <1>2, <1>6, <1>7, KillTypes DEF TypeOK

(* A kill of another process (mod.rs:117-127).                               *)
LEMMA KillOtherType == TypeOK /\ KillOther => TypeOK'
<1> SUFFICES ASSUME TypeOK, KillOther PROVE TypeOK'
  OBVIOUS
<1>1. PICK q \in Pids : /\ KillProcess(q, KillCode)
                        /\ \E w \in Ascending(waitq[q]) : ready' = ready \o w
                        /\ status' = StatusAfterKill(q)
                        /\ rax'    = RaxAfterKill(q, KillCode)
  BY DEF KillOther, KillTargets
<1>2. KillCode \in Codes
  BY DEF Codes
<1>3. waitq[q] \in SUBSET Pids
  BY DEF TypeOK
<1>4. ready' \in Seq(Pids)
  <2>1. PICK w \in Ascending(waitq[q]) : ready' = ready \o w
    BY <1>1
  <2>2. w \in Seq(Pids) /\ ready \in Seq(Pids)
    BY <1>3, AscendingType DEF TypeOK
  <2>3. QED
    BY <2>1, <2>2
<1>5. nextPid' \in 2..(MaxPid + 1) /\ UNCHANGED <<call, cur, mode>>
  BY <1>1 DEF KillProcess, KillOther, TypeOK
<1>6. QED
  BY <1>1, <1>2, <1>4, <1>5, KillTypes DEF TypeOK

(* Saving and blocking the caller (mod.rs:92-94, 224-226).                   *)
LEMMA BlockInType ==
    ASSUME TypeOK, NEW c \in Calls, BlockIn(c)
    PROVE  /\ status' \in [Pids -> Statuses] /\ ready' \in Seq(Pids)
           /\ rax' \in [Pids -> RaxValues]   /\ call' \in [Pids -> Calls]
           /\ cur' \in Pids /\ mode' \in {"up", "off", "panic"}
<1> DEFINE rx == [rax EXCEPT ![cur] = NoRet]
           cl == [call EXCEPT ![cur] = c]
<1>1. /\ Saved(cur, "Blocked") \in [Pids -> Statuses] /\ ready \in Seq(Pids)
      /\ rx \in [Pids -> RaxValues] /\ cl \in [Pids -> Calls]
      /\ cur \in Pids /\ mode \in {"up", "off", "panic"}
  BY DEF TypeOK, Saved, Statuses, RaxValues
<1>2. SwitchNext(Saved(cur, "Blocked"), ready, rx, cl, data)
  BY DEF BlockIn
<1> HIDE DEF rx, cl
<1>3. QED
  BY <1>1, <1>2, SwitchNextType

(* A wait for an exit (mod.rs:85-97).                                        *)
LEMMA WaitPidType == TypeOK /\ WaitPid => TypeOK'
<1> SUFFICES ASSUME TypeOK, WaitPid PROVE TypeOK'
  OBVIOUS
<1>1. PICK q \in Pids : /\ waitq' = [waitq EXCEPT ![q] = @ \cup {cur}]
                        /\ BlockIn(WaitCall(q))
  BY DEF WaitPid, JoinWaiters
<1>2. waitq' \in [Pids -> SUBSET Pids]
  BY <1>1 DEF TypeOK
<1>3. WaitCall(q) \in Calls
  BY CallTypes
<1>4. QED
  BY <1>1, <1>2, <1>3, BlockInType DEF TypeOK, WaitPid

(* One semaphore operation: the key is in the set of the family.            *)
LEMMA MySemaphoreType ==
    ASSUME TypeOK, data[cur] \in Pids, NEW k, InSet(MySems, k)
    PROVE  /\ IsSemaphoreSet(MySems, Keys, Pids)
           /\ k \in Keys /\ k \in DOMAIN MySems /\ MySems[k] \in Semaphores(Pids)
  BY DEF TypeOK, MySems, InSet, IsSemaphoreSet

-----------------------------------------------------------------------------
(* The inductive invariant.                                                 *)

(* A living process is in the queue of the waiters of q exactly while it is *)
(* blocked in wait_pid(q).                                                  *)
WaitersExact(st, cl, dt, wq) ==
    \A p, q \in Pids : HasVm(dt, p) =>
        (p \in wq[q] <=> st[p] = "Blocked" /\ cl[p] = WaitCall(q))

(* A semaphore of family g under key k: no tokens while somebody waits,     *)
(* nobody queued twice, and the living ones are blocked on it.              *)
SemSound(s, g, k, st, cl, dt) ==
    /\ s.count > 0 => ~HasWaiters(s)
    /\ \A i, j \in DOMAIN s.queue : s.queue[i] = s.queue[j] => i = j
    /\ \A p \in Waiters(s) : HasVm(dt, p) =>
          dt[p] = g /\ st[p] = "Blocked" /\ cl[p] = SemCall(k)

SemsSound(st, cl, dt, sm) ==
    \A g \in Pids : \A k \in DOMAIN sm[g] : SemSound(sm[g][k], g, k, st, cl, dt)

(* Pids not given out yet are nowhere in the queues.                        *)
OnlySeenPids(np, rq, wq, sm) ==
    /\ \A i \in DOMAIN rq : rq[i] < np
    /\ \A q \in Pids : \A p \in wq[q] : p < np
    /\ \A g \in Pids : \A k \in DOMAIN sm[g] : \A p \in Waiters(sm[g][k]) : p < np

(* The queue of an exited process is empty.                                 *)
NoLateWaiters == \A q \in Pids : Exited(q) => waitq[q] = {}

IInv ==
    /\ TypeOK
    /\ OnlyRunnableRuns
    /\ KernelSchedulable
    /\ WaitersExact(status, call, data, waitq)
    /\ NoLateWaiters
    /\ SemsSound(status, call, data, sems)
    /\ OnlySeenPids(nextPid, ready, waitq, sems)
    /\ cur < nextPid

(* The kernel process, Ready in the queue that is being popped, comes out   *)
(* current or stays in the queue; so the queue is never exhausted and the   *)
(* process on the processor can run.                                        *)
LEMMA SwitchNextKernel ==
    ASSUME NEW st \in [Pids -> Statuses], NEW rq \in Seq(Pids), NEW rx, NEW cl, NEW dt,
           SwitchNext(st, rq, rx, cl, dt), cur \in Pids,
           st[KERNEL] = "Ready", \E i \in DOMAIN rq : rq[i] = KERNEL,
           HasVm(dt, KERNEL), st[cur] = "Ready" => HasVm(dt, cur)
    PROVE  /\ \/ cur' = KERNEL
              \/ status'[KERNEL] = "Ready" /\ \E i \in DOMAIN ready' : ready'[i] = KERNEL
           /\ mode' = "up" => status'[cur'] \in {"Running", "Ready"} /\ HasVm(dt, cur')
<1>1. PICK i \in DOMAIN rq : rq[i] = KERNEL
  OBVIOUS
<1>2. i \in Runnable(st, rq)
  BY <1>1 DEF Runnable
<1>3. PICK n \in Runnable(st, rq) :
         /\ \A j \in Runnable(st, rq) : n <= j
         /\ ready' = SubSeq(rq, n + 1, Len(rq))
         /\ \/ rq[n] = cur /\ KeepCurrent(st, rx, cl)
            \/ rq[n] # cur /\ HasVm(dt, rq[n]) /\ Restore(rq[n], st, rx, cl)
            \/ rq[n] # cur /\ ~HasVm(dt, rq[n]) /\ RestorePanics(st, rx, cl)
  BY <1>2 DEF SwitchNext
<1>4. n \in 1..Len(rq) /\ i \in 1..Len(rq) /\ n <= i /\ rq[n] \in Pids /\ st[rq[n]] = "Ready"
  BY <1>2, <1>3 DEF Runnable
<1>5. \/ cur' = KERNEL
      \/ status'[KERNEL] = "Ready" /\ \E j \in DOMAIN ready' : ready'[j] = KERNEL
  <2>1. CASE rq[n] = KERNEL
    BY <1>3, <2>1 DEF KeepCurrent, Restore
  <2>2. CASE rq[n] # KERNEL
    <3>1. n < i
      BY <1>1, <1>4, <2>2
    <3>2. DOMAIN ready' = 1..(Len(rq) - n) /\ i - n \in 1..(Len(rq) - n)
      BY <1>3, <1>4, <3>1
    <3>3. ready'[i - n] = rq[i]
      <4>1. \A j \in 1..(Len(rq) - n) : ready'[j] = rq[n + j]
        BY <1>3, <1>4
      <4>2. n + (i - n) = i
        BY <1>4
      <4>3. QED
        BY <3>2, <4>1, <4>2
    <3>4. status'[KERNEL] = "Ready"
      BY <1>3, <1>4, <2>2, PidFacts DEF KeepCurrent, Restore, RestorePanics
    <3>5. QED
      BY <1>1, <3>2, <3>3, <3>4
  <2>3. QED
    BY <2>1, <2>2
<1>6. mode' = "up" => status'[cur'] \in {"Running", "Ready"} /\ HasVm(dt, cur')
  BY <1>3, <1>4 DEF KeepCurrent, Restore, RestorePanics
<1>7. QED
  BY <1>5, <1>6

(* It unblocks nobody, so the waiters stay as its caller has left them.     *)
LEMMA SwitchNextKeepsWaiters ==
    ASSUME NEW st \in [Pids -> Statuses], NEW rq \in Seq(Pids), NEW rx,
           NEW cl \in [Pids -> Calls], NEW dt, SwitchNext(st, rq, rx, cl, dt),
           NEW wq \in [Pids -> SUBSET Pids], WaitersExact(st, cl, dt, wq),
           NEW sm, \A g \in Pids : IsSemaphoreSet(sm[g], Keys, Pids),
           SemsSound(st, cl, dt, sm)
    PROVE  /\ WaitersExact(status', call', dt, wq)
           /\ SemsSound(status', call', dt, sm)
<1>1. \A p \in Pids : /\ st[p] = "Blocked" <=> status'[p] = "Blocked"
                      /\ st[p] = "Blocked" => call'[p] = cl[p]
  <2>1. /\ \A p \in Pids : st[p] # "Ready" => status'[p] = st[p] /\ call'[p] = cl[p]
        /\ \A p \in Pids : st[p] = "Ready" => status'[p] \in {"Ready", "Running"}
    BY SwitchNextFrame
  <2>2. QED
    BY <2>1
<1>2. WaitersExact(status', call', dt, wq)
  BY <1>1 DEF WaitersExact
<1>3. SemsSound(status', call', dt, sm)
  <2> SUFFICES ASSUME NEW g \in Pids, NEW k \in DOMAIN sm[g],
                      NEW p \in Waiters(sm[g][k]), HasVm(dt, p)
               PROVE  dt[p] = g /\ status'[p] = "Blocked" /\ call'[p] = SemCall(k)
    BY DEF SemsSound, SemSound
  <2>1. sm[g][k] \in Semaphores(Pids)
    BY DEF IsSemaphoreSet
  <2>2. p \in Pids
    BY <2>1 DEF Waiters, Semaphores
  <2>3. dt[p] = g /\ st[p] = "Blocked" /\ cl[p] = SemCall(k)
    BY DEF SemsSound, SemSound
  <2>4. QED
    BY <1>1, <2>2, <2>3
<1>4. QED
  BY <1>2, <1>3

(* What a handler leaves to switch_next of a kernel process that is not on  *)
(* the processor any more.                                                  *)
KernelWaiting(st, rq, dt) ==
    st[KERNEL] = "Ready" /\ HasVm(dt, KERNEL) /\ \E i \in DOMAIN rq : rq[i] = KERNEL

(* While a program runs the kernel waits for its turn, unless it is killed. *)
LEMMA KernelWaits ==
    ASSUME IInv, cur # KERNEL
    PROVE  /\ ~Exited(KERNEL) => KernelWaiting(status, ready, data)
           /\ Exited(KERNEL) => ~LibraryKills
  BY DEF IInv, KernelSchedulable, KernelWaiting, Queued

(* A handler that ends in switch_next keeps the invariant if what it leaves *)
(* to switch_next satisfies it, with the kernel process, unless it is       *)
(* killed, Ready in the queue.                                              *)
LEMMA SwitchStep ==
    ASSUME TypeOK, TypeOK',
           NEW st \in [Pids -> Statuses], NEW rq \in Seq(Pids),
           NEW rx \in [Pids -> RaxValues], NEW cl \in [Pids -> Calls],
           NEW dt, dt = data', SwitchNext(st, rq, rx, cl, dt),
           Exited(KERNEL)' => ~LibraryKills,
           ~Exited(KERNEL)' => KernelWaiting(st, rq, dt),
           st[cur] = "Ready" => HasVm(dt, cur),
           NEW wq, wq = waitq', NEW sm, sm = sems', NEW np, np = nextPid',
           WaitersExact(st, cl, dt, wq), NoLateWaiters', SemsSound(st, cl, dt, sm),
           OnlySeenPids(np, rq, wq, sm), cur < np
    PROVE  IInv'
<1>1. cur \in Pids /\ nextPid' \in Nat
  BY BoundAssumption DEF TypeOK
<1>2. ~Exited(KERNEL)' =>
         /\ HasVm(dt, KERNEL)
         /\ \/ cur' = KERNEL
            \/ status'[KERNEL] = "Ready" /\ \E i \in DOMAIN ready' : ready'[i] = KERNEL
         /\ mode' = "up" => status'[cur'] \in {"Running", "Ready"} /\ HasVm(dt, cur')
  BY <1>1, SwitchNextKernel DEF KernelWaiting
<1>3. KernelSchedulable' /\ OnlyRunnableRuns'
  BY <1>2 DEF KernelSchedulable, OnlyRunnableRuns, Exited, Queued, HasVm
<1>4. waitq' \in [Pids -> SUBSET Pids] /\ \A g \in Pids : IsSemaphoreSet(sems'[g], Keys, Pids)
  BY DEF TypeOK
<1>5. WaitersExact(status', call', dt, wq) /\ SemsSound(status', call', dt, sm)
  BY <1>4, SwitchNextKeepsWaiters
<1>6. WaitersExact(status, call, data, waitq)' /\ SemsSound(status, call, data, sems)'
  BY <1>5 DEF WaitersExact, SemsSound, SemSound
<1>7. /\ \A i \in DOMAIN ready' : \E j \in DOMAIN rq : ready'[i] = rq[j]
      /\ cur' = cur \/ \E j \in DOMAIN rq : cur' = rq[j]
  BY SwitchNextFrame
<1>8. OnlySeenPids(nextPid, ready, waitq, sems)' /\ (cur < nextPid)'
  <2>1. \A i \in DOMAIN ready' : ready'[i] < nextPid'
    BY <1>7 DEF OnlySeenPids
  <2>2. cur' < nextPid'
    BY <1>7 DEF OnlySeenPids
  <2>3. QED
    BY <2>1, <2>2 DEF OnlySeenPids
<1>9. QED
  BY <1>3, <1>6, <1>8 DEF IInv

(* The first state: only the kernel exists, no queue has a member.           *)
LEMMA InitInv == Init => IInv
<1> SUFFICES ASSUME Init PROVE IInv
  OBVIOUS
<1>1. TypeOK
  BY InitType
<1>2. OnlyRunnableRuns /\ KernelSchedulable
  BY PidFacts DEF Init, OnlyRunnableRuns, KernelSchedulable, HasVm, Exited, KERNEL, NoPid
<1>3. WaitersExact(status, call, data, waitq) /\ NoLateWaiters
  BY DEF Init, WaitersExact, NoLateWaiters
<1>4. \A g \in Pids : DOMAIN sems[g] = {}
  BY DEF Init, NoSems
<1>5. SemsSound(status, call, data, sems)
  BY <1>4 DEF SemsSound
<1>6. OnlySeenPids(nextPid, ready, waitq, sems) /\ cur < nextPid
  BY <1>4 DEF Init, OnlySeenPids, KERNEL
<1>7. QED
  BY <1>1, <1>2, <1>3, <1>5, <1>6 DEF IInv

(* The preempted process is Ready and queued before switch_next.             *)
LEMMA ClockSwitchInv == IInv /\ ClockSwitch => IInv'
<1> SUFFICES ASSUME IInv, ClockSwitch PROVE IInv'
  OBVIOUS
<1> DEFINE st == Saved(cur, "Ready")
           rq == Append(ready, cur)
           rx == [rax EXCEPT ![cur] = NoRet]
<1>1. TypeOK /\ TypeOK' /\ cur \in Pids /\ Up
  BY ClockSwitchType DEF IInv, TypeOK, ClockSwitch
<1>2. /\ st \in [Pids -> Statuses] /\ rq \in Seq(Pids) /\ rx \in [Pids -> RaxValues]
      /\ call \in [Pids -> Calls]
  BY <1>1 DEF TypeOK, Saved, Statuses, RaxValues
<1>3. SwitchNext(st, rq, rx, call, data)
  BY DEF ClockSwitch
<1>4. UNCHANGED <<exitCode, data, sems, waitq, nextPid>>
  BY DEF ClockSwitch
<1>5. /\ ~Exited(KERNEL)' => KernelWaiting(st, rq, data)
      /\ Exited(KERNEL)' => ~LibraryKills
  <2>1. Exited(KERNEL)' <=> Exited(KERNEL)
    BY <1>4 DEF Exited
  <2>2. ASSUME ~Exited(KERNEL)
        PROVE  st[KERNEL] = "Ready" /\ HasVm(data, KERNEL)
    BY <1>1, <2>2, PidFacts DEF IInv, KernelSchedulable, Saved, TypeOK
  <2>3. ASSUME ~Exited(KERNEL)
        PROVE  \E i \in DOMAIN rq : rq[i] = KERNEL
    <3>1. ready \in Seq(Pids)
      BY <1>1 DEF TypeOK
    <3>2. QED
      BY <1>1, <2>3, <3>1, AppendMembers, SMTT(30) DEF IInv, KernelSchedulable, Queued
  <2>4. QED
    BY <2>1, <2>2, <2>3 DEF IInv, KernelSchedulable, KernelWaiting
<1>6. HasVm(data, cur) /\ status[cur] \in {"Running", "Ready"}
  BY <1>1 DEF Up, Astray
<1>7. WaitersExact(st, call, data, waitq) /\ SemsSound(st, call, data, sems)
  <2>1. \A p \in Pids : st[p] = "Blocked" <=> status[p] = "Blocked"
    BY <1>1, <1>6 DEF Saved, TypeOK
  <2>2. WaitersExact(st, call, data, waitq)
    BY <2>1 DEF IInv, WaitersExact
  <2>3. \A g \in Pids : \A k \in DOMAIN sems[g] : Waiters(sems[g][k]) \subseteq Pids
    BY <1>1 DEF TypeOK, IsSemaphoreSet, Semaphores, Waiters
  <2>4. SemsSound(st, call, data, sems)
    BY <2>1, <2>3 DEF IInv, SemsSound, SemSound
  <2>5. QED
    BY <2>2, <2>4
<1>8. OnlySeenPids(nextPid, rq, waitq, sems) /\ cur < nextPid
  BY <1>1 DEF IInv, OnlySeenPids, TypeOK
<1>9. NoLateWaiters'
  BY <1>4 DEF IInv, NoLateWaiters, Exited
<1> HIDE DEF st, rq, rx
<1>10. QED
  BY <1>1, <1>2, <1>3, <1>4, <1>5, <1>6, <1>7, <1>8, <1>9, SwitchStep

(* The two blocking calls and no call at all are told apart.                 *)
LEMMA CallsDiffer == \A q, k : WaitCall(q) # SemCall(k) /\ WaitCall(q) # NoCall /\ SemCall(k) # NoCall
  BY DEF WaitCall, SemCall, NoCall

(* A blocking call determines what it waits for.                             *)
LEMMA CallsInjective ==
    /\ \A p, q : WaitCall(p) = WaitCall(q) => p = q
    /\ \A j, k : SemCall(j) = SemCall(k) => j = k
  BY DEF WaitCall, SemCall

(* The waiters of a semaphore are processes.                                 *)
LEMMA WaiterTypes ==
    ASSUME TypeOK
    PROVE  \A g \in Pids : \A k \in DOMAIN sems[g] :
              /\ sems[g][k] \in Semaphores(Pids)
              /\ Waiters(sems[g][k]) \subseteq Pids
  BY DEF TypeOK, IsSemaphoreSet, Semaphores, Waiters

(* Giving out one more pid keeps every queue within the pids given out.     *)
LEMMA SeenGrows ==
    ASSUME TypeOK, nextPid \in Nat, OnlySeenPids(nextPid, ready, waitq, sems), cur < nextPid
    PROVE  OnlySeenPids(nextPid + 1, ready, waitq, sems) /\ cur < nextPid + 1
<1>1. \A p \in Pids : p < nextPid => p < nextPid + 1
  BY PidFacts
<1>2. \A i \in DOMAIN ready : ready[i] < nextPid + 1
  BY <1>1 DEF TypeOK, OnlySeenPids
<1>3. \A q \in Pids : \A p \in waitq[q] : p < nextPid + 1
  BY <1>1 DEF TypeOK, OnlySeenPids
<1>4. \A g \in Pids : \A k \in DOMAIN sems[g] : \A p \in Waiters(sems[g][k]) : p < nextPid + 1
  <2> SUFFICES ASSUME NEW g \in Pids, NEW k \in DOMAIN sems[g], NEW p \in Waiters(sems[g][k])
               PROVE  p < nextPid + 1
    OBVIOUS
  <2>1. p \in Pids
    BY WaiterTypes
  <2>2. QED
    BY <1>1, <2>1 DEF OnlySeenPids
<1>5. cur < nextPid + 1
  BY <1>1 DEF TypeOK
<1>6. QED
  BY <1>2, <1>3, <1>4, <1>5 DEF OnlySeenPids

(* NEXT_PID counts up from 2.                                                *)
LEMMA NextPidType == TypeOK => nextPid \in Nat
  BY BoundAssumption DEF TypeOK

(* The next pid waits for nobody: all waiters have smaller ones.            *)
LEMMA NewPidUnseen ==
  ASSUME NEW n \in Nat, NEW rq, NEW wq, NEW sm, OnlySeenPids(n, rq, wq, sm)
  PROVE  /\ \A q \in Pids : n \notin wq[q]
         /\ \A g \in Pids : \A k \in DOMAIN sm[g] : n \notin Waiters(sm[g][k])
<1>1. ~(n < n)
  OBVIOUS
<1>2. \A q \in Pids : n \notin wq[q]
  BY <1>1 DEF OnlySeenPids
<1>3. \A g \in Pids : \A k \in DOMAIN sm[g] : n \notin Waiters(sm[g][k])
  BY <1>1 DEF OnlySeenPids
<1>4. QED
  BY <1>2, <1>3

(* A spawned process is Ready, queued, and in no queue of waiters.           *)
LEMMA SpawnInv == IInv /\ Spawn => IInv'
<1> SUFFICES ASSUME IInv, Spawn PROVE IInv'
  OBVIOUS
<1>1. PICK c \in Pids : /\ TakePid(c)
                        /\ status' = [status EXCEPT ![c] = "Ready"]
                        /\ parent' = [parent EXCEPT ![c] = cur]
                        /\ data'   = [data EXCEPT ![c] = c]
                        /\ ready'  = Append(ready, c)
  BY DEF Spawn
<1>2. TypeOK /\ TypeOK' /\ cur \in Pids /\ ready \in Seq(Pids) /\ nextPid \in Nat
  <2>1. TypeOK /\ TypeOK'
    BY SpawnType DEF IInv
  <2>2. QED
    BY <2>1, NextPidType DEF TypeOK
<1>3. UNCHANGED <<exitCode, call, sems, waitq, cur, mode>>
  BY DEF Spawn
<1>4. c = nextPid /\ nextPid' = nextPid + 1 /\ c # NoPid /\ c # KERNEL /\ c # cur
  BY <1>1, <1>2, PidFacts DEF TakePid, IInv, TypeOK, KERNEL
<1>5. OnlyRunnableRuns'
  BY <1>1, <1>2, <1>3, <1>4 DEF IInv, OnlyRunnableRuns, TypeOK, HasVm, Exited
<1>6. KernelSchedulable'
  <2>1. Queued(KERNEL) => Queued(KERNEL)'
    <3>1. \A i \in DOMAIN ready :
             i \in DOMAIN Append(ready, c) /\ Append(ready, c)[i] = ready[i]
      BY <1>2
    <3>2. QED
      BY <1>1, <3>1 DEF Queued
  <2>2. QED
    BY <1>1, <1>2, <1>3, <1>4, <2>1, PidFacts
       DEF IInv, KernelSchedulable, TypeOK, HasVm, Exited
<1>7. (\A q \in Pids : c \notin waitq[q]) /\ \A g \in Pids : \A k \in DOMAIN sems[g] : c \notin Waiters(sems[g][k])
  <2>1. OnlySeenPids(nextPid, ready, waitq, sems) /\ nextPid \in Nat
    BY <1>2 DEF IInv
  <2>2. /\ \A q \in Pids : nextPid \notin waitq[q]
        /\ \A g \in Pids : \A k \in DOMAIN sems[g] : nextPid \notin Waiters(sems[g][k])
    BY <2>1, NewPidUnseen
  <2>3. QED
    BY <1>4, <2>2
<1>8. WaitersExact(status, call, data, waitq)'
  BY <1>1, <1>2, <1>3, <1>7 DEF IInv, WaitersExact, TypeOK, HasVm
<1>9. SemsSound(status, call, data, sems)'
  BY <1>1, <1>2, <1>3, <1>7, WaiterTypes DEF IInv, SemsSound, SemSound, TypeOK, HasVm
<1>10. OnlySeenPids(nextPid, ready, waitq, sems)' /\ (cur < nextPid)'
  <2>1. OnlySeenPids(nextPid + 1, ready, waitq, sems) /\ cur < nextPid + 1
    BY <1>2, SeenGrows DEF IInv
  <2>2. c < nextPid + 1
    BY <1>2, <1>4
  <2>3. \A i \in DOMAIN Append(ready, c) : Append(ready, c)[i] < nextPid + 1
    <3>1. \A i \in DOMAIN Append(ready, c) :
             (\E j \in DOMAIN ready : Append(ready, c)[i] = ready[j]) \/ Append(ready, c)[i] = c
      BY <1>2, AppendMembers
    <3>2. QED
      BY <2>1, <2>2, <3>1 DEF OnlySeenPids
  <2>4. QED
    BY <1>1, <1>3, <1>4, <2>1, <2>3 DEF OnlySeenPids
<1>11. NoLateWaiters'
  BY <1>3 DEF IInv, NoLateWaiters, Exited
<1>12. QED
  BY <1>2, <1>5, <1>6, <1>8, <1>9, <1>10, <1>11 DEF IInv

(* A vforked process shares its parent's data and waits for nothing.         *)
LEMMA VForkInv == IInv /\ VFork => IInv'
<1> SUFFICES ASSUME IInv, VFork PROVE IInv'
  OBVIOUS
<1> DEFINE St(c) == [status EXCEPT ![cur] = "Ready", ![c] = "Ready"]
           Rx(c) == [rax EXCEPT ![cur] = c, ![c] = 0]
<1>1. PICK c \in Pids : /\ TakePid(c)
                        /\ data'   = [data EXCEPT ![c] = data[cur]]
                        /\ SwitchNext(St(c), ready \o <<c, cur>>, Rx(c), call, data')
  BY DEF VFork, ForkData, ForkStatus, ForkRax
<1> DEFINE st == St(c)
           rx == Rx(c)
           rq == ready \o <<c, cur>>
<1>2. TypeOK /\ TypeOK' /\ cur \in Pids /\ ready \in Seq(Pids) /\ nextPid \in Nat /\ Up
  <2>1. TypeOK /\ TypeOK'
    BY VForkType DEF IInv
  <2>2. Up
    BY DEF VFork, User
  <2>3. QED
    BY <2>1, <2>2, NextPidType DEF TypeOK
<1>3. UNCHANGED <<exitCode, sems, waitq>> /\ cur # KERNEL
  BY DEF VFork, User
<1>4. c = nextPid /\ nextPid' = nextPid + 1 /\ c # NoPid /\ c # KERNEL /\ c # cur
  BY <1>1, <1>2, PidFacts DEF TakePid, IInv, TypeOK, KERNEL
<1>5. status[cur] \in {"Running", "Ready"} /\ HasVm(data, cur)
  BY <1>2 DEF Up, Astray
<1>6. st \in [Pids -> Statuses] /\ rq \in Seq(Pids) /\ call \in [Pids -> Calls]
  <2>1. status \in [Pids -> Statuses] /\ call \in [Pids -> Calls]
    BY <1>2 DEF TypeOK
  <2>2. st \in [Pids -> Statuses]
    BY <2>1 DEF Statuses
  <2>3. rq \in Seq(Pids)
    BY <1>2
  <2>4. QED
    BY <2>1, <2>2, <2>3
<1>7. rx \in [Pids -> RaxValues]
  <2>1. c \in RaxValues /\ 0 \in RaxValues
    BY BoundAssumption DEF RaxValues, Pids
  <2>2. QED
    BY <1>2, <2>1 DEF TypeOK
<1>8. /\ ~Exited(KERNEL)' => KernelWaiting(st, rq, data')
      /\ Exited(KERNEL)' => ~LibraryKills
  <2>1. /\ Exited(KERNEL)' <=> Exited(KERNEL)
        /\ ~Exited(KERNEL) => KernelWaiting(status, ready, data)
        /\ Exited(KERNEL) => ~LibraryKills
    BY <1>3, KernelWaits DEF Exited
  <2>2. ASSUME ~Exited(KERNEL) PROVE KernelWaiting(st, rq, data')
    <3>1. <<c, cur>> \in Seq(Pids)
      BY <1>2
    <3>2. \E i \in DOMAIN rq : rq[i] = KERNEL
      BY <1>2, <2>1, <2>2, <3>1, ConcatMembers DEF KernelWaiting
    <3>3. st[KERNEL] = "Ready"
      BY <1>2, <1>4, <2>1, <2>2, PidFacts DEF KernelWaiting, TypeOK
    <3>4. HasVm(data', KERNEL)
      BY <1>1, <1>2, <1>4, <2>1, <2>2, PidFacts DEF KernelWaiting, TypeOK, HasVm
    <3>5. QED
      BY <3>2, <3>3, <3>4 DEF KernelWaiting
  <2>3. QED
    BY <2>1, <2>2
<1>9. HasVm(data', cur)
  BY <1>1, <1>2, <1>4, <1>5 DEF TypeOK, HasVm
<1>10. (\A q \in Pids : c \notin waitq[q]) /\ \A g \in Pids : \A k \in DOMAIN sems[g] : c \notin Waiters(sems[g][k])
  <2>1. OnlySeenPids(nextPid, ready, waitq, sems) /\ nextPid \in Nat
    BY <1>2 DEF IInv
  <2>2. /\ \A q \in Pids : nextPid \notin waitq[q]
        /\ \A g \in Pids : \A k \in DOMAIN sems[g] : nextPid \notin Waiters(sems[g][k])
    BY <2>1, NewPidUnseen
  <2>3. QED
    BY <1>4, <2>2
<1>11. WaitersExact(st, call, data', waitq)
  BY <1>1, <1>2, <1>4, <1>5, <1>10 DEF IInv, WaitersExact, TypeOK, HasVm
<1>12. SemsSound(st, call, data', sems)
  BY <1>1, <1>2, <1>4, <1>5, <1>10, WaiterTypes DEF IInv, SemsSound, SemSound, TypeOK, HasVm
<1>13. OnlySeenPids(nextPid', rq, waitq, sems) /\ cur < nextPid'
  <2>1. OnlySeenPids(nextPid + 1, ready, waitq, sems) /\ cur < nextPid + 1
    BY <1>2, SeenGrows DEF IInv
  <2>2. c < nextPid + 1
    BY <1>2, <1>4
  <2>3. \A i \in DOMAIN rq : rq[i] < nextPid + 1
    <3>1. <<c, cur>> \in Seq(Pids) /\ \A i \in DOMAIN <<c, cur>> : <<c, cur>>[i] \in {c, cur}
      BY <1>2
    <3>2. \A i \in DOMAIN rq : (\E j \in DOMAIN ready : rq[i] = ready[j]) \/ rq[i] \in {c, cur}
      BY <1>2, <3>1, ConcatMembers
    <3>3. QED
      BY <2>1, <2>2, <3>2 DEF OnlySeenPids
  <2>4. QED
    BY <1>4, <2>1, <2>3 DEF OnlySeenPids
<1>14. NoLateWaiters'
  BY <1>3 DEF IInv, NoLateWaiters, Exited
<1>15. SwitchNext(st, rq, rx, call, data')
  BY <1>1
<1>16. waitq = waitq' /\ sems = sems'
  BY <1>3
<1> HIDE DEF St, Rx, st, rq, rx
<1>17. QED
  BY <1>2, <1>6, <1>7, <1>8, <1>9, <1>11, <1>12, <1>13, <1>14, <1>15, <1>16, SwitchStep

(* What kill leaves behind (manager.rs:207-222, process.rs:212-235): the    *)
(* woken are no longer blocked, the others wait where they waited.          *)
LEMMA KillKeepsWaiters ==
    ASSUME IInv, NEW q \in Pids, NEW ret \in Codes, KillProcess(q, ret)
    PROVE  /\ WaitersExact(StatusAfterKill(q), call, DataAfterKill(q), waitq')
           /\ SemsSound(StatusAfterKill(q), call, DataAfterKill(q), sems')
           /\ NoLateWaiters'
<1> DEFINE st == StatusAfterKill(q)
           dt == DataAfterKill(q)
<1>1. TypeOK
  BY DEF IInv
<1>2. \A p \in Pids : HasVm(dt, p) => p # q /\ HasVm(data, p) /\ dt[p] = data[p]
  BY <1>1 DEF DataAfterKill, HasVm, TypeOK
<1>3. \A p \in Pids : /\ p \in waitq[q] => st[p] = "Ready"
                      /\ p \notin waitq[q] /\ p # q => st[p] = status[p]
  BY DEF StatusAfterKill
<1>4. \A t \in Pids : waitq'[t] = IF t = q THEN {} ELSE waitq[t]
  BY <1>1 DEF KillProcess, WaitqAfterKill, TypeOK
<1> HIDE DEF st, dt
<1>5. WaitersExact(st, call, dt, waitq')
  <2> SUFFICES ASSUME NEW p \in Pids, NEW t \in Pids, HasVm(dt, p)
               PROVE  p \in waitq'[t] <=> st[p] = "Blocked" /\ call[p] = WaitCall(t)
    BY DEF WaitersExact
  <2>1. \A r \in Pids : p \in waitq[r] <=> status[p] = "Blocked" /\ call[p] = WaitCall(r)
    BY <1>2 DEF IInv, WaitersExact
  <2>2. CASE p \in waitq[q]
    BY <1>3, <1>4, <2>1, <2>2, CallsInjective
  <2>3. CASE p \notin waitq[q]
    BY <1>2, <1>3, <1>4, <2>1, <2>3
  <2>4. QED
    BY <2>2, <2>3
<1>6. SemsSound(st, call, dt, sems')
  <2> SUFFICES ASSUME NEW g \in Pids, NEW k \in DOMAIN sems'[g]
               PROVE  SemSound(sems'[g][k], g, k, st, call, dt)
    BY DEF SemsSound
  <2>1. sems'[g] = sems[g] /\ k \in DOMAIN sems[g]
    BY DEF KillProcess, SemsAfterKill, NoSems
  <2>2. SemSound(sems[g][k], g, k, status, call, data)
    BY <2>1 DEF IInv, SemsSound
  <2>3. ASSUME NEW p \in Waiters(sems[g][k]), HasVm(dt, p)
        PROVE  dt[p] = g /\ st[p] = "Blocked" /\ call[p] = SemCall(k)
    <3>1. p \in Pids
      BY <1>1, <2>1, WaiterTypes
    <3>2. data[p] = g /\ status[p] = "Blocked" /\ call[p] = SemCall(k)
      BY <1>2, <2>2, <2>3, <3>1 DEF SemSound
    <3>3. p \notin waitq[q]
      BY <1>2, <2>3, <3>1, <3>2, CallsDiffer DEF IInv, WaitersExact
    <3>4. QED
      BY <1>2, <1>3, <2>3, <3>1, <3>2, <3>3
  <2>4. QED
    BY <2>1, <2>2, <2>3 DEF SemSound
<1>7. NoLateWaiters'
  <2>1. \A t \in Pids \ {q} : exitCode'[t] = exitCode[t]
    BY <1>1 DEF KillProcess, TypeOK
  <2>2. QED
    BY <1>4, <2>1 DEF IInv, NoLateWaiters, Exited
<1>8. QED
  BY <1>5, <1>6, <1>7 DEF st, dt

(* kill queues only waiters, who are processes already seen.                 *)
LEMMA KillKeepsSeen ==
    ASSUME IInv, NEW q \in Pids, NEW ret \in Codes, KillProcess(q, ret),
           NEW w \in Ascending(waitq[q])
    PROVE  ready \o w \in Seq(Pids) /\ OnlySeenPids(nextPid', ready \o w, waitq', sems')
<1>1. TypeOK
  BY DEF IInv
<1>2. ready \in Seq(Pids) /\ waitq[q] \in SUBSET Pids
  BY <1>1 DEF TypeOK
<1>3. w \in Seq(Pids) /\ \A i \in DOMAIN w : w[i] \in waitq[q]
  BY <1>2, AscendingType
<1>4. \A i \in DOMAIN (ready \o w) : (ready \o w)[i] < nextPid
  <2>1. \A i \in DOMAIN (ready \o w) : \/ \E j \in DOMAIN ready : (ready \o w)[i] = ready[j]
                                       \/ \E j \in DOMAIN w : (ready \o w)[i] = w[j]
    BY <1>2, <1>3, ConcatMembers
  <2>2. QED
    BY <1>3, <2>1 DEF IInv, OnlySeenPids
<1>5. \A t \in Pids : waitq'[t] \subseteq waitq[t]
  BY <1>1 DEF KillProcess, WaitqAfterKill, TypeOK
<1>6. \A g \in Pids : \A k \in DOMAIN sems'[g] : k \in DOMAIN sems[g] /\ sems'[g][k] = sems[g][k]
  BY DEF KillProcess, SemsAfterKill, NoSems
<1>7. nextPid' = nextPid
  BY DEF KillProcess
<1>8. QED
  BY <1>2, <1>3, <1>4, <1>5, <1>6, <1>7 DEF IInv, OnlySeenPids

(* A kill of another process leaves the kernel waiting for its turn; the    *)
(* kernel itself is killed only past the guard of sys_kill.                 *)
LEMMA KillKeepsKernel ==
    ASSUME IInv, cur # KERNEL, NEW q \in Pids, NEW ret \in Codes, KillProcess(q, ret),
           q = KERNEL => ~LibraryKills, NEW w \in Ascending(waitq[q])
    PROVE  /\ ~Exited(KERNEL)' => KernelWaiting(StatusAfterKill(q), ready \o w, DataAfterKill(q))
           /\ Exited(KERNEL)' => ~LibraryKills
<1>1. /\ ~Exited(KERNEL) => KernelWaiting(status, ready, data)
      /\ Exited(KERNEL) => ~LibraryKills
  BY KernelWaits
<1>2. exitCode' = [exitCode EXCEPT ![q] = ret] /\ exitCode \in [Pids -> Codes \cup {NoCode}]
  BY DEF KillProcess, IInv, TypeOK
<1>3. NoCode \notin Codes
  BY CodeAssumption DEF Codes
<1>4. Exited(KERNEL)' <=> Exited(KERNEL) \/ q = KERNEL
  BY <1>2, <1>3, PidFacts DEF Exited
<1>5. ASSUME ~Exited(KERNEL), q # KERNEL
      PROVE  KernelWaiting(StatusAfterKill(q), ready \o w, DataAfterKill(q))
  <2>1. KernelWaiting(status, ready, data)
    BY <1>1, <1>5
  <2>2. StatusAfterKill(q)[KERNEL] = "Ready" /\ HasVm(DataAfterKill(q), KERNEL)
    BY <1>5, <2>1, PidFacts DEF KernelWaiting, StatusAfterKill, DataAfterKill, HasVm, IInv, TypeOK
  <2>3. ready \in Seq(Pids) /\ w \in Seq(Pids)
    <3>1. ready \in Seq(Pids) /\ waitq[q] \in SUBSET Pids
      BY DEF IInv, TypeOK
    <3>2. QED
      BY <3>1, AscendingType
  <2>4. \E i \in DOMAIN (ready \o w) : (ready \o w)[i] = KERNEL
    BY <2>1, <2>3, ConcatMembers DEF KernelWaiting
  <2>5. QED
    BY <2>2, <2>4 DEF KernelWaiting
<1>6. QED
  BY <1>1, <1>4, <1>5

(* sys_kill cuts its argument to a pid after the guard: without an argument *)
(* beyond 16 bits the kernel is no target.                                  *)
LEMMA KernelIsNoTarget == LibraryKills => KERNEL \notin KillTargets
<1> SUFFICES ASSUME LibraryKills, NEW arg \in KillArgs, arg # KERNEL
             PROVE  PidOf(arg) # KERNEL
  BY DEF KillTargets
<1>1. arg \in Nat /\ arg < 65536
  BY CodeAssumption DEF LibraryKills
<1>2. arg % 65536 = arg
  BY <1>1
<1>3. QED
  BY <1>2 DEF PidOf

(* An exit: the waiters leave the wait queue of the dead process.            *)
LEMMA ExitWithInv == ASSUME NEW ret \in Codes PROVE IInv /\ ExitWith(ret) => IInv'
<1> SUFFICES ASSUME IInv, ExitWith(ret) PROVE IInv'
  OBVIOUS
<1> DEFINE st == StatusAfterKill(cur)
           dt == DataAfterKill(cur)
           rx == RaxAfterKill(cur, ret)
<1>1. TypeOK /\ TypeOK' /\ cur \in Pids /\ cur # KERNEL /\ Up /\ KillProcess(cur, ret)
  <2>1. TypeOK /\ TypeOK'
    BY ExitWithType DEF IInv
  <2>2. QED
    BY <2>1 DEF ExitWith, User, TypeOK
<1>2. PICK w \in Ascending(waitq[cur]) : SwitchNext(st, ready \o w, rx, call, dt)
  BY DEF ExitWith
<1>3. st \in [Pids -> Statuses] /\ rx \in [Pids -> RaxValues] /\ call \in [Pids -> Calls]
  BY <1>1, KillTypes DEF TypeOK
<1>4. ready \o w \in Seq(Pids) /\ OnlySeenPids(nextPid', ready \o w, waitq', sems')
  BY <1>1, KillKeepsSeen
<1>5. WaitersExact(st, call, dt, waitq') /\ SemsSound(st, call, dt, sems') /\ NoLateWaiters'
  BY <1>1, KillKeepsWaiters
<1>6. /\ ~Exited(KERNEL)' => KernelWaiting(st, ready \o w, dt)
      /\ Exited(KERNEL)' => ~LibraryKills
  BY <1>1, KillKeepsKernel
<1>7. st[cur] # "Ready"
  <2>1. HasVm(data, cur) /\ status[cur] # "Blocked"
    BY <1>1 DEF Up, Astray
  <2>2. cur \notin waitq[cur]
    BY <1>1, <2>1 DEF IInv, WaitersExact
  <2>3. QED
    BY <1>1, <2>2 DEF StatusAfterKill
<1>8. dt = data' /\ cur < nextPid'
  BY <1>1 DEF KillProcess, IInv
<1> HIDE DEF st, dt, rx
<1>9. QED
  BY <1>1, <1>2, <1>3, <1>4, <1>5, <1>6, <1>7, <1>8, SwitchStep

(* A kill of another process, be it the kernel.                              *)
LEMMA KillOtherInv == IInv /\ KillOther => IInv'
<1> SUFFICES ASSUME IInv, KillOther PROVE IInv'
  OBVIOUS
<1>1. TypeOK /\ TypeOK'
  BY KillOtherType DEF IInv
<1>2. PICK q \in (KillTargets \cap Pids) \ {cur} :
         /\ KillProcess(q, KillCode)
         /\ \E w \in Ascending(waitq[q]) : ready' = ready \o w
         /\ status' = StatusAfterKill(q)
  BY DEF KillOther
<1>3. PICK w \in Ascending(waitq[q]) : ready' = ready \o w
  BY <1>2
<1>4. /\ q \in Pids /\ q # cur /\ cur # KERNEL /\ cur \in Pids /\ Up
      /\ KillCode \in Codes /\ UNCHANGED <<call, cur, mode>>
  BY <1>1 DEF KillOther, User, TypeOK, Codes
<1>5. data' = DataAfterKill(q)
  BY <1>2 DEF KillProcess
<1>6. /\ WaitersExact(StatusAfterKill(q), call, DataAfterKill(q), waitq')
      /\ SemsSound(StatusAfterKill(q), call, DataAfterKill(q), sems') /\ NoLateWaiters'
  BY <1>2, <1>4, KillKeepsWaiters
<1>7. WaitersExact(status, call, data, waitq)' /\ SemsSound(status, call, data, sems)'
  BY <1>2, <1>4, <1>5, <1>6 DEF WaitersExact, SemsSound, SemSound
<1>8. ready \o w \in Seq(Pids) /\ OnlySeenPids(nextPid', ready \o w, waitq', sems')
  BY <1>2, <1>4, KillKeepsSeen
<1>9. OnlySeenPids(nextPid, ready, waitq, sems)' /\ (cur < nextPid)'
  BY <1>2, <1>3, <1>4, <1>8 DEF OnlySeenPids, KillProcess, IInv
<1>10. OnlyRunnableRuns'
  <2>1. HasVm(data, cur) /\ status[cur] \in {"Running", "Ready"}
    BY <1>4 DEF Up, Astray
  <2>2. QED
    BY <1>1, <1>2, <1>4, <1>5, <2>1
       DEF OnlyRunnableRuns, StatusAfterKill, DataAfterKill, HasVm, TypeOK
<1>11. KernelSchedulable'
  <2>1. q = KERNEL => ~LibraryKills
    BY KernelIsNoTarget
  <2>2. /\ ~Exited(KERNEL)' => KernelWaiting(status', ready', data')
        /\ Exited(KERNEL)' => ~LibraryKills
    BY <1>2, <1>3, <1>4, <1>5, <2>1, KillKeepsKernel
  <2>3. QED
    BY <2>2 DEF KernelSchedulable, KernelWaiting, Queued, HasVm
<1>12. QED
  BY <1>1, <1>6, <1>7, <1>9, <1>10, <1>11 DEF IInv

(* The end of the machine, by a shutdown or a panic, touches no process.     *)
Stops ==
    /\ UNCHANGED <<procVars, sems, ready, waitq, cur, nextPid>>
    /\ mode' \in {"off", "panic"}

LEMMA StopsInv == IInv /\ Stops => IInv'
<1> SUFFICES ASSUME IInv, Stops PROVE IInv'
  OBVIOUS
<1>1. UNCHANGED <<status, exitCode, parent, children, data, rax, call, sems, ready,
                  waitq, cur, nextPid>> /\ mode' \in {"off", "panic"}
  BY DEF Stops, procVars
<1>2. TypeOK'
  BY <1>1 DEF IInv, TypeOK
<1>3. QED
  BY <1>1, <1>2 DEF IInv, OnlyRunnableRuns, KernelSchedulable, WaitersExact, NoLateWaiters,
     SemsSound, SemSound, OnlySeenPids, Exited, Queued

(* The tail that wait_pid and sem_wait share.  The caller is not the kernel *)
(* and is in the one queue its call names.                                  *)
LEMMA BlockInStep ==
    ASSUME IInv, TypeOK', User, NEW c \in Calls, BlockIn(c),
           UNCHANGED <<exitCode, data, nextPid>>,
           NEW wq, wq = waitq', NEW sm, sm = sems',
           WaitersExact(Saved(cur, "Blocked"), [call EXCEPT ![cur] = c], data, wq),
           SemsSound(Saved(cur, "Blocked"), [call EXCEPT ![cur] = c], data, sm),
           NoLateWaiters', OnlySeenPids(nextPid, ready, wq, sm)
    PROVE  IInv'
<1> DEFINE st == Saved(cur, "Blocked")
           rx == [rax EXCEPT ![cur] = NoRet]
           cl == [call EXCEPT ![cur] = c]
<1>1. TypeOK /\ cur \in Pids /\ cur # KERNEL
  BY DEF IInv, TypeOK, User
<1>2. /\ st \in [Pids -> Statuses] /\ ready \in Seq(Pids) /\ rx \in [Pids -> RaxValues]
      /\ cl \in [Pids -> Calls]
  BY <1>1 DEF TypeOK, Saved, Statuses, RaxValues
<1>3. SwitchNext(st, ready, rx, cl, data)
  BY DEF BlockIn
<1>4. ~Exited(KERNEL)' => KernelWaiting(st, ready, data)
  BY <1>1, KernelWaits, PidFacts DEF KernelWaiting, Exited, Saved, TypeOK
<1>5. Exited(KERNEL)' => ~LibraryKills
  BY <1>1, KernelWaits DEF Exited
<1>6. st[cur] # "Ready"
  BY <1>1 DEF Saved, TypeOK
<1>7. nextPid = nextPid' /\ data = data' /\ cur < nextPid
  BY DEF IInv
<1> HIDE DEF st, rx, cl
<1>8. WaitersExact(st, cl, data, wq) /\ SemsSound(st, cl, data, sm)
  BY DEF st, cl
<1>9. QED
  BY <1>1, <1>2, <1>3, <1>4, <1>5, <1>6, <1>7, <1>8, SwitchStep

(* The caller enters the wait queue of a target without exit code.           *)
LEMMA WaitPidInv == IInv /\ WaitPid => IInv'
<1> SUFFICES ASSUME IInv, WaitPid PROVE IInv'
  OBVIOUS
<1>1. PICK q \in Pids : /\ MustWait(q)
                        /\ waitq' = [waitq EXCEPT ![q] = @ \cup {cur}]
                        /\ BlockIn(WaitCall(q))
  BY DEF WaitPid, JoinWaiters
<1>2. TypeOK /\ TypeOK' /\ User /\ UNCHANGED <<exitCode, data, sems, nextPid>>
  BY WaitPidType DEF IInv, WaitPid
<1>3. cur \in Pids /\ HasVm(data, cur) /\ status[cur] # "Blocked" /\ WaitCall(q) \in Calls
  BY <1>2, CallTypes DEF TypeOK, User, Up, Astray
<1> DEFINE st == Saved(cur, "Blocked")
           cl == [call EXCEPT ![cur] = WaitCall(q)]
<1>4. /\ st[cur] = "Blocked" /\ cl[cur] = WaitCall(q)
      /\ \A p \in Pids \ {cur} : st[p] = status[p] /\ cl[p] = call[p]
  BY <1>2, <1>3 DEF Saved, TypeOK
<1>5. \A t \in Pids : waitq'[t] = IF t = q THEN waitq[t] \cup {cur} ELSE waitq[t]
  BY <1>1, <1>2 DEF TypeOK
<1> HIDE DEF st, cl
<1>6. WaitersExact(st, cl, data, waitq')
  <2> SUFFICES ASSUME NEW p \in Pids, NEW t \in Pids, HasVm(data, p)
               PROVE  p \in waitq'[t] <=> st[p] = "Blocked" /\ cl[p] = WaitCall(t)
    BY DEF WaitersExact
  <2>1. p \in waitq[t] <=> status[p] = "Blocked" /\ call[p] = WaitCall(t)
    BY DEF IInv, WaitersExact
  <2>2. CASE p = cur
    BY <1>3, <1>4, <1>5, <2>1, <2>2, CallsInjective
  <2>3. CASE p # cur
    BY <1>4, <1>5, <2>1, <2>3
  <2>4. QED
    BY <2>2, <2>3
<1>7. SemsSound(st, cl, data, sems')
  <2> SUFFICES ASSUME NEW g \in Pids, NEW k \in DOMAIN sems[g]
               PROVE  SemSound(sems[g][k], g, k, st, cl, data)
    BY <1>2 DEF SemsSound
  <2>1. SemSound(sems[g][k], g, k, status, call, data)
    BY DEF IInv, SemsSound
  <2>2. Waiters(sems[g][k]) \subseteq Pids
    BY <1>2, WaiterTypes
  <2>3. cur \notin Waiters(sems[g][k])
    BY <1>3, <2>1 DEF SemSound
  <2>4. QED
    BY <1>4, <2>1, <2>2, <2>3 DEF SemSound
<1>8. NoLateWaiters'
  BY <1>1, <1>2, <1>5 DEF IInv, NoLateWaiters, Exited, MustWait
<1>9. OnlySeenPids(nextPid, ready, waitq', sems')
  BY <1>2, <1>5 DEF IInv, OnlySeenPids
<1>10. WaitersExact(Saved(cur, "Blocked"), [call EXCEPT ![cur] = WaitCall(q)], data, waitq')
  BY <1>6 DEF st, cl
<1>11. SemsSound(Saved(cur, "Blocked"), [call EXCEPT ![cur] = WaitCall(q)], data, sems')
  BY <1>7 DEF st, cl
<1>12. QED
  BY <1>1, <1>2, <1>3, <1>8, <1>9, <1>10, <1>11, BlockInStep

-----------------------------------------------------------------------------
(* The semaphore calls.                                                     *)

(* A signal takes the longest waiter out of the queue (sync.rs:60-72), and  *)
(* as nobody is queued twice, out of the semaphore.                         *)
LEMMA DequeueFacts ==
    ASSUME NEW P, NEW s \in Semaphores(P), HasWaiters(s),
           \A i, j \in DOMAIN s.queue : s.queue[i] = s.queue[j] => i = j
    PROVE  /\ Dequeue(s).count = s.count
           /\ \A i, j \in DOMAIN Dequeue(s).queue :
                 Dequeue(s).queue[i] = Dequeue(s).queue[j] => i = j
           /\ Waiters(Dequeue(s)) \subseteq Waiters(s)
           /\ FirstWaiter(s) \in Waiters(s) /\ FirstWaiter(s) \notin Waiters(Dequeue(s))
<1> DEFINE q == s.queue
           t == Tail(q)
<1>1. q \in Seq(P) /\ q # <<>>
  BY DEF Semaphores, HasWaiters
<1>2. Dequeue(s).count = s.count /\ Dequeue(s).queue = t
  BY DEF Dequeue, Semaphores
<1>3. DOMAIN q = 1..Len(q) /\ Len(q) \in Nat /\ Len(q) >= 1 /\ Head(q) = q[1]
  BY <1>1
<1>4. DOMAIN t = 1..(Len(q) - 1) /\ \A i \in DOMAIN t : t[i] = q[i + 1] /\ i + 1 \in DOMAIN q
  BY <1>1, <1>3
<1>5. \A i, j \in DOMAIN q : q[i] = q[j] => i = j
  OBVIOUS
<1> HIDE DEF q, t
<1>6. \A i, j \in DOMAIN t : t[i] = t[j] => i = j
  <2> SUFFICES ASSUME NEW i \in DOMAIN t, NEW j \in DOMAIN t, t[i] = t[j] PROVE i = j
    OBVIOUS
  <2>1. i + 1 = j + 1
    BY <1>4, <1>5
  <2>2. QED
    BY <1>3, <1>4, <2>1
<1>7. \A i \in DOMAIN t : t[i] # q[1]
  <2> SUFFICES ASSUME NEW i \in DOMAIN t, t[i] = q[1] PROVE FALSE
    OBVIOUS
  <2>1. 1 \in DOMAIN q
    BY <1>3
  <2>2. i + 1 = 1
    BY <1>4, <1>5, <2>1
  <2>3. QED
    BY <1>3, <1>4, <2>2
<1>8. 1 \in DOMAIN q
  BY <1>3
<1>9. FirstWaiter(s) = q[1] /\ Waiters(s) = {q[i] : i \in DOMAIN q}
      /\ Waiters(Dequeue(s)) = {t[i] : i \in DOMAIN t}
  BY <1>2, <1>3 DEF q, FirstWaiter, Waiters
<1>10. QED
  BY <1>2, <1>4, <1>6, <1>7, <1>8, <1>9

(* A wait adds the caller at the end.                                       *)
LEMMA EnqueueFacts ==
    ASSUME NEW P, NEW s \in Semaphores(P), NEW pid \in P, pid \notin Waiters(s),
           \A i, j \in DOMAIN s.queue : s.queue[i] = s.queue[j] => i = j
    PROVE  /\ Enqueue(s, pid).count = s.count
           /\ \A i, j \in DOMAIN Enqueue(s, pid).queue :
                 Enqueue(s, pid).queue[i] = Enqueue(s, pid).queue[j] => i = j
           /\ Waiters(Enqueue(s, pid)) = Waiters(s) \cup {pid}
<1> DEFINE q == s.queue
           t == Append(q, pid)
<1>1. q \in Seq(P)
  BY DEF Semaphores
<1>2. Enqueue(s, pid).count = s.count /\ Enqueue(s, pid).queue = t
  BY DEF Enqueue, Semaphores
<1>3. /\ DOMAIN q = 1..Len(q) /\ Len(q) \in Nat /\ DOMAIN t = 1..(Len(q) + 1)
      /\ t[Len(q) + 1] = pid /\ \A i \in 1..Len(q) : t[i] = q[i]
  BY <1>1
<1>4. \A i \in DOMAIN q : q[i] # pid
  BY DEF Waiters
<1>5. \A i, j \in DOMAIN q : q[i] = q[j] => i = j
  OBVIOUS
<1>6. Waiters(Enqueue(s, pid)) = {t[i] : i \in DOMAIN t} /\ Waiters(s) = {q[i] : i \in DOMAIN q}
  BY <1>2 DEF Waiters
<1> HIDE DEF q, t
<1>7. \A i \in DOMAIN t : i = Len(q) + 1 \/ i \in DOMAIN q
  BY <1>3
<1>8. \A i \in DOMAIN q : i \in DOMAIN t
  BY <1>3
<1>9. \A i, j \in DOMAIN t : t[i] = t[j] => i = j
  BY <1>3, <1>4, <1>5, <1>7
<1>10. Len(q) + 1 \in DOMAIN t
  BY <1>3
<1>11. {t[i] : i \in DOMAIN t} = {q[i] : i \in DOMAIN q} \cup {pid}
  BY <1>3, <1>7, <1>8, <1>10
<1>12. QED
  BY <1>2, <1>6, <1>9, <1>11

(* The family of the process on the processor.                              *)
LEMMA CurrentFamily ==
    ASSUME IInv, User
    PROVE  cur \in Pids /\ data[cur] \in Pids /\ status[cur] # "Blocked"
  BY DEF IInv, TypeOK, User, Up, Astray, HasVm

(* A call that replaces the set of the current family by one whose          *)
(* semaphores are sound leaves every family with sound semaphores.          *)
LEMMA SetMySemsSound ==
    ASSUME TypeOK, data[cur] \in Pids, NEW set, SetMySems(set), NEW st, NEW cl,
           \A g \in Pids \ {data[cur]} : \A k \in DOMAIN sems[g] :
               SemSound(sems[g][k], g, k, st, cl, data),
           \A k \in DOMAIN set : SemSound(set[k], data[cur], k, st, cl, data)
    PROVE  SemsSound(st, cl, data, sems')
<1>1. \A g \in Pids : sems'[g] = IF g = data[cur] THEN set ELSE sems[g]
  BY DEF TypeOK, SetMySems
<1>2. QED
  BY <1>1 DEF SemsSound

(* A change of one family's semaphores queues only processes seen.           *)
LEMMA SetMySemsSeen ==
    ASSUME IInv, data[cur] \in Pids, NEW set, SetMySems(set),
           \A k \in DOMAIN set : \A p \in Waiters(set[k]) : p < nextPid
    PROVE  OnlySeenPids(nextPid, ready, waitq, sems')
<1>1. \A g \in Pids : sems'[g] = IF g = data[cur] THEN set ELSE sems[g]
  BY DEF IInv, TypeOK, SetMySems
<1>2. QED
  BY <1>1 DEF IInv, OnlySeenPids

(* A semaphore call that returns at once changes nothing but the set.       *)
LEMMA QuietSemStep ==
    ASSUME IInv, User, NEW set, IsSemaphoreSet(set, Keys, Pids), SetMySems(set),
           UNCHANGED <<procVars, ready, waitq, cur, nextPid, mode>>,
           \A k \in DOMAIN set : SemSound(set[k], data[cur], k, status, call, data),
           \A k \in DOMAIN set : \A p \in Waiters(set[k]) : p < nextPid
    PROVE  IInv'
<1>1. TypeOK /\ data[cur] \in Pids
  BY CurrentFamily DEF IInv
<1>2. UNCHANGED <<status, exitCode, parent, children, data, rax, call, ready, waitq,
                  cur, nextPid, mode>>
  BY DEF procVars
<1>3. TypeOK'
  BY <1>1, <1>2, MySemsType DEF TypeOK
<1>4. SemsSound(status, call, data, sems')
  <2>1. \A g \in Pids : \A k \in DOMAIN sems[g] :
           SemSound(sems[g][k], g, k, status, call, data)
    BY DEF IInv, SemsSound
  <2>2. QED
    BY <1>1, <2>1, SetMySemsSound
<1>5. SemsSound(status, call, data, sems)'
  BY <1>2, <1>4 DEF SemsSound, SemSound
<1>6. OnlySeenPids(nextPid, ready, waitq, sems')
  BY <1>1, SetMySemsSeen
<1>7. OnlySeenPids(nextPid, ready, waitq, sems)' /\ (cur < nextPid)'
  BY <1>2, <1>6 DEF OnlySeenPids, IInv
<1>8. OnlyRunnableRuns' /\ KernelSchedulable' /\ NoLateWaiters'
  BY <1>2 DEF IInv, OnlyRunnableRuns, KernelSchedulable, NoLateWaiters, Exited, Queued
<1>9. WaitersExact(status, call, data, waitq)'
  BY <1>2 DEF IInv, WaitersExact
<1>10. QED
  BY <1>3, <1>5, <1>7, <1>8, <1>9 DEF IInv

(* What the invariant says of the semaphores of the current family.         *)
LEMMA MySemsSound ==
    ASSUME IInv, User
    PROVE  \A k \in DOMAIN MySems :
              /\ MySems[k] \in Semaphores(Pids)
              /\ SemSound(MySems[k], data[cur], k, status, call, data)
              /\ \A p \in Waiters(MySems[k]) : p \in Pids /\ p < nextPid
<1>1. TypeOK /\ data[cur] \in Pids
  BY CurrentFamily DEF IInv
<1>2. QED
  BY <1>1, WaiterTypes DEF IInv, SemsSound, OnlySeenPids, MySems

(* A new semaphore has no waiters; those it replaces are dropped.            *)
LEMMA SemNewInv == IInv /\ SemNew => IInv'
<1> SUFFICES ASSUME IInv, SemNew PROVE IInv'
  OBVIOUS
<1>1. PICK k \in Keys, v \in SemValues : SetMySems(Insert(MySems, k, v))
  BY DEF SemNew
<1>2. User /\ UNCHANGED <<procVars, ready, waitq, cur, nextPid, mode>>
  BY DEF SemNew
<1>3. v \in Nat
  BY CodeAssumption
<1>4. IsSemaphoreSet(MySems, Keys, Pids)
  BY <1>2, CurrentFamily DEF IInv, TypeOK, MySems
<1>5. \A j \in DOMAIN Insert(MySems, k, v) :
         \/ j \in DOMAIN MySems /\ Insert(MySems, k, v)[j] = MySems[j]
         \/ Insert(MySems, k, v)[j] = NewSemaphore(v)
  BY DEF Insert
<1>6. /\ \A j : SemSound(NewSemaphore(v), data[cur], j, status, call, data)
      /\ Waiters(NewSemaphore(v)) = {}
  BY DEF SemSound, NewSemaphore, Waiters, HasWaiters
<1>7. IsSemaphoreSet(Insert(MySems, k, v), Keys, Pids)
  BY <1>3, <1>4, InsertType
<1>8. \A j \in DOMAIN Insert(MySems, k, v) :
         /\ SemSound(Insert(MySems, k, v)[j], data[cur], j, status, call, data)
         /\ \A p \in Waiters(Insert(MySems, k, v)[j]) : p < nextPid
  BY <1>2, <1>5, <1>6, MySemsSound
<1>9. QED
  BY <1>1, <1>2, <1>7, <1>8, QuietSemStep

(* A removed semaphore drops its waiters.                                    *)
LEMMA SemRemoveInv == IInv /\ SemRemove => IInv'
<1> SUFFICES ASSUME IInv, SemRemove PROVE IInv'
  OBVIOUS
<1>1. PICK k \in Keys : SetMySems(Discard(MySems, k))
  BY DEF SemRemove
<1>2. User /\ UNCHANGED <<procVars, ready, waitq, cur, nextPid, mode>>
  BY DEF SemRemove
<1>3. IsSemaphoreSet(MySems, Keys, Pids)
  BY <1>2, CurrentFamily DEF IInv, TypeOK, MySems
<1>4. IsSemaphoreSet(Discard(MySems, k), Keys, Pids)
  BY <1>3, DiscardType
<1>5. \A j \in DOMAIN Discard(MySems, k) : j \in DOMAIN MySems /\ Discard(MySems, k)[j] = MySems[j]
  BY DEF Discard
<1>6. \A j \in DOMAIN Discard(MySems, k) :
         /\ SemSound(Discard(MySems, k)[j], data[cur], j, status, call, data)
         /\ \A p \in Waiters(Discard(MySems, k)[j]) : p < nextPid
  BY <1>2, <1>5, MySemsSound
<1>7. QED
  BY <1>1, <1>2, <1>4, <1>6, QuietSemStep

(* Take and give change the count of one semaphore and nobody's place.      *)
LEMMA CountStepInv ==
    ASSUME IInv, User, NEW k, InSet(MySems, k),
           NEW s \in Semaphores(Pids), s.queue = MySems[k].queue,
           s.count > 0 => ~HasWaiters(s),
           SetMySems([MySems EXCEPT ![k] = s]),
           UNCHANGED <<procVars, ready, waitq, cur, nextPid, mode>>
    PROVE  IInv'
<1> DEFINE set == [MySems EXCEPT ![k] = s]
<1>1. TypeOK /\ data[cur] \in Pids
  BY CurrentFamily DEF IInv
<1>2. IsSemaphoreSet(MySems, Keys, Pids) /\ k \in DOMAIN MySems
  BY <1>1, MySemaphoreType
<1>3. IsSemaphoreSet(set, Keys, Pids)
  BY <1>2, UpdateType
<1>4. DOMAIN set = DOMAIN MySems /\ set[k] = s /\ \A j \in DOMAIN MySems \ {k} : set[j] = MySems[j]
  BY <1>2
<1>5. SemSound(MySems[k], data[cur], k, status, call, data)
  BY <1>2, MySemsSound
<1>6. SemSound(s, data[cur], k, status, call, data) /\ Waiters(s) = Waiters(MySems[k])
  BY <1>5 DEF SemSound, Waiters
<1> HIDE DEF set
<1>7. \A j \in DOMAIN set : /\ SemSound(set[j], data[cur], j, status, call, data)
                            /\ \A p \in Waiters(set[j]) : p < nextPid
  <2> SUFFICES ASSUME NEW j \in DOMAIN set
               PROVE  /\ SemSound(set[j], data[cur], j, status, call, data)
                      /\ \A p \in Waiters(set[j]) : p < nextPid
    OBVIOUS
  <2>1. CASE j = k
    BY <1>2, <1>4, <1>6, <2>1, MySemsSound
  <2>2. CASE j # k
    BY <1>4, <2>2, MySemsSound
  <2>3. QED
    BY <2>1, <2>2
<1>8. SetMySems(set)
  BY DEF set
<1>9. QED
  BY <1>3, <1>7, <1>8, QuietSemStep

(* A wait that takes a token: the queue was empty and stays so.              *)
LEMMA SemTakeInv == IInv /\ SemTake => IInv'
<1> SUFFICES ASSUME IInv, SemTake PROVE IInv'
  OBVIOUS
<1>1. PICK k \in Keys : /\ InSet(MySems, k) /\ ~WouldBlock(MySems[k])
                        /\ SetMySems([MySems EXCEPT ![k] = Take(@)])
  BY DEF SemTake
<1>2. User /\ UNCHANGED <<procVars, ready, waitq, cur, nextPid, mode>>
  BY DEF SemTake
<1>3. MySems[k] \in Semaphores(Pids) /\ SemSound(MySems[k], data[cur], k, status, call, data)
  BY <1>1, <1>2, MySemsSound DEF InSet
<1>4. Take(MySems[k]) \in Semaphores(Pids)
  <2>1. 1 \in Pids
    BY PidFacts DEF KERNEL
  <2>2. QED
    BY <1>1, <1>3, <2>1, SemaphoreStepType
<1>5. Take(MySems[k]).queue = MySems[k].queue /\ MySems[k].count > 0
  BY <1>1, <1>3 DEF Take, Semaphores, WouldBlock
<1>6. ~HasWaiters(Take(MySems[k]))
  BY <1>3, <1>5 DEF SemSound, HasWaiters
<1>7. SetMySems([MySems EXCEPT ![k] = Take(MySems[k])])
  BY <1>1
<1>8. QED
  BY <1>1, <1>2, <1>4, <1>5, <1>6, <1>7, CountStepInv

(* A signal without waiters banks its token.                                 *)
LEMMA SemGiveInv == IInv /\ SemGive => IInv'
<1> SUFFICES ASSUME IInv, SemGive PROVE IInv'
  OBVIOUS
<1>1. PICK k \in Keys : /\ InSet(MySems, k) /\ ~HasWaiters(MySems[k])
                        /\ SetMySems([MySems EXCEPT ![k] = Give(@)])
  BY DEF SemGive
<1>2. User /\ UNCHANGED <<procVars, ready, waitq, cur, nextPid, mode>>
  BY DEF SemGive
<1>3. MySems[k] \in Semaphores(Pids)
  BY <1>1, <1>2, MySemsSound DEF InSet
<1>4. Give(MySems[k]) \in Semaphores(Pids)
  <2>1. 1 \in Pids
    BY PidFacts DEF KERNEL
  <2>2. QED
    BY <1>3, <2>1, SemaphoreStepType
<1>5. Give(MySems[k]).queue = MySems[k].queue
  BY <1>3 DEF Give, Semaphores
<1>6. ~HasWaiters(Give(MySems[k]))
  BY <1>1, <1>5 DEF HasWaiters
<1>7. SetMySems([MySems EXCEPT ![k] = Give(MySems[k])])
  BY <1>1
<1>8. QED
  BY <1>1, <1>2, <1>4, <1>5, <1>6, <1>7, CountStepInv

(* The semaphore of a blocking or waking call, once changed.                *)
LEMMA MySemsUpdate ==
    ASSUME IInv, User, NEW k, InSet(MySems, k), NEW s \in Semaphores(Pids),
           SetMySems([MySems EXCEPT ![k] = s]),
           \A p \in Waiters(s) : p < nextPid
    PROVE  /\ sems' = [g \in Pids |-> sems'[g]]
           /\ \A g \in Pids : IsSemaphoreSet(sems'[g], Keys, Pids)
           /\ OnlySeenPids(nextPid, ready, waitq, sems')
           /\ \A g \in Pids : /\ DOMAIN sems'[g] = DOMAIN sems[g]
                              /\ \A j \in DOMAIN sems[g] :
                                    sems'[g][j] = IF g = data[cur] /\ j = k THEN s ELSE sems[g][j]
<1> DEFINE set == [MySems EXCEPT ![k] = s]
<1>1. TypeOK /\ data[cur] \in Pids
  BY CurrentFamily DEF IInv
<1>2. IsSemaphoreSet(MySems, Keys, Pids) /\ k \in DOMAIN MySems
  BY <1>1, MySemaphoreType
<1>3. IsSemaphoreSet(set, Keys, Pids)
  BY <1>2, UpdateType
<1>4. DOMAIN set = DOMAIN MySems /\ \A j \in DOMAIN MySems : set[j] = IF j = k THEN s ELSE MySems[j]
  BY <1>2
<1>5. SetMySems(set)
  OBVIOUS
<1> HIDE DEF set
<1>6. /\ sems' = [g \in Pids |-> sems'[g]]
      /\ \A g \in Pids : IsSemaphoreSet(sems'[g], Keys, Pids)
  BY <1>1, <1>3, <1>5, MySemsType
<1>7. \A j \in DOMAIN set : \A p \in Waiters(set[j]) : p < nextPid
  <2> SUFFICES ASSUME NEW j \in DOMAIN set, NEW p \in Waiters(set[j]) PROVE p < nextPid
    OBVIOUS
  <2>1. CASE j = k
    BY <1>4, <2>1
  <2>2. CASE j # k
    BY <1>4, <2>2, MySemsSound
  <2>3. QED
    BY <2>1, <2>2
<1>8. OnlySeenPids(nextPid, ready, waitq, sems')
  BY <1>1, <1>5, <1>7, SetMySemsSeen
<1>9. \A g \in Pids : sems'[g] = IF g = data[cur] THEN set ELSE sems[g]
  BY <1>1, <1>5 DEF TypeOK, SetMySems
<1>10. QED
  BY <1>4, <1>6, <1>8, <1>9 DEF MySems

(* A wait without a token: the caller is Blocked and enqueued as such.       *)
LEMMA SemBlockInv == IInv /\ SemBlock => IInv'
<1> SUFFICES ASSUME IInv, SemBlock PROVE IInv'
  OBVIOUS
<1>1. PICK k \in Keys : /\ InSet(MySems, k) /\ WouldBlock(MySems[k])
                        /\ SetMySems([MySems EXCEPT ![k] = Enqueue(@, cur)])
                        /\ BlockIn(SemCall(k))
  BY DEF SemBlock
<1> DEFINE s == Enqueue(MySems[k], cur)
           st == Saved(cur, "Blocked")
           cl == [call EXCEPT ![cur] = SemCall(k)]
<1>2. User /\ UNCHANGED <<exitCode, parent, children, data, waitq, nextPid>>
  BY DEF SemBlock
<1>3. TypeOK /\ cur \in Pids /\ data[cur] \in Pids /\ HasVm(data, cur) /\ status[cur] # "Blocked"
      /\ SemCall(k) \in Calls
  BY <1>2, CurrentFamily, CallTypes DEF IInv, User, Up, Astray
<1>4. /\ MySems[k] \in Semaphores(Pids)
      /\ SemSound(MySems[k], data[cur], k, status, call, data)
      /\ \A p \in Waiters(MySems[k]) : p \in Pids /\ p < nextPid
  BY <1>1, <1>2, MySemsSound DEF InSet
<1>5. cur \notin Waiters(MySems[k])
  BY <1>3, <1>4 DEF SemSound
<1>6. /\ s \in Semaphores(Pids) /\ s.count = MySems[k].count
      /\ \A i, j \in DOMAIN s.queue : s.queue[i] = s.queue[j] => i = j
      /\ Waiters(s) = Waiters(MySems[k]) \cup {cur}
  <2>1. s \in Semaphores(Pids)
    BY <1>3, <1>4, SemaphoreStepType
  <2>2. \A i, j \in DOMAIN MySems[k].queue : MySems[k].queue[i] = MySems[k].queue[j] => i = j
    BY <1>4 DEF SemSound
  <2>3. /\ s.count = MySems[k].count
        /\ \A i, j \in DOMAIN s.queue : s.queue[i] = s.queue[j] => i = j
        /\ Waiters(s) = Waiters(MySems[k]) \cup {cur}
    BY <1>3, <1>4, <1>5, <2>2, EnqueueFacts
  <2>4. QED
    BY <2>1, <2>3
<1>7. s.count = 0
  BY <1>1, <1>6 DEF WouldBlock
<1>8. SetMySems([MySems EXCEPT ![k] = s])
  BY <1>1
<1>9. /\ st[cur] = "Blocked" /\ cl[cur] = SemCall(k)
      /\ \A p \in Pids \ {cur} : st[p] = status[p] /\ cl[p] = call[p]
  BY <1>3 DEF Saved, TypeOK
<1> HIDE DEF s, st, cl
<1>10. \A p \in Waiters(s) : p < nextPid
  BY <1>4, <1>6 DEF IInv
<1>11. /\ sems' = [g \in Pids |-> sems'[g]]
       /\ \A g \in Pids : IsSemaphoreSet(sems'[g], Keys, Pids)
       /\ OnlySeenPids(nextPid, ready, waitq, sems')
       /\ \A g \in Pids : /\ DOMAIN sems'[g] = DOMAIN sems[g]
                          /\ \A j \in DOMAIN sems[g] :
                                sems'[g][j] = IF g = data[cur] /\ j = k THEN s ELSE sems[g][j]
  BY <1>1, <1>2, <1>6, <1>8, <1>10, MySemsUpdate
<1>12. TypeOK'
  BY <1>1, <1>2, <1>3, <1>11, BlockInType DEF TypeOK
<1>13. SemsSound(st, cl, data, sems')
  <2> SUFFICES ASSUME NEW g \in Pids, NEW j \in DOMAIN sems[g]
               PROVE  SemSound(sems'[g][j], g, j, st, cl, data)
    BY <1>11 DEF SemsSound
  <2>1. SemSound(sems[g][j], g, j, status, call, data) /\ Waiters(sems[g][j]) \subseteq Pids
    BY <1>3, WaiterTypes DEF IInv, SemsSound
  <2>2. cur \notin Waiters(sems[g][j])
    BY <1>3, <2>1 DEF SemSound
  <2>3. CASE g = data[cur] /\ j = k
    <3>1. \A p \in Waiters(s) : HasVm(data, p) =>
             data[p] = g /\ st[p] = "Blocked" /\ cl[p] = SemCall(j)
      BY <1>4, <1>6, <1>9, <2>3 DEF SemSound
    <3>2. ~(s.count > 0)
      BY <1>7
    <3>3. QED
      BY <1>6, <1>11, <2>3, <3>1, <3>2 DEF SemSound
  <2>4. CASE ~(g = data[cur] /\ j = k)
    BY <1>9, <1>11, <2>1, <2>2, <2>4 DEF SemSound
  <2>5. QED
    BY <2>3, <2>4
<1>14. WaitersExact(st, cl, data, waitq')
  <2> SUFFICES ASSUME NEW p \in Pids, NEW t \in Pids, HasVm(data, p)
               PROVE  p \in waitq'[t] <=> st[p] = "Blocked" /\ cl[p] = WaitCall(t)
    BY DEF WaitersExact
  <2>1. waitq' = waitq /\ (p \in waitq[t] <=> status[p] = "Blocked" /\ call[p] = WaitCall(t))
    BY <1>2 DEF IInv, WaitersExact
  <2>2. QED
    BY <1>3, <1>9, <2>1, CallsDiffer
<1>15. NoLateWaiters'
  BY <1>2 DEF IInv, NoLateWaiters, Exited
<1>16. OnlySeenPids(nextPid, ready, waitq', sems')
  BY <1>2, <1>11
<1>17. /\ WaitersExact(Saved(cur, "Blocked"), [call EXCEPT ![cur] = SemCall(k)], data, waitq')
       /\ SemsSound(Saved(cur, "Blocked"), [call EXCEPT ![cur] = SemCall(k)], data, sems')
  BY <1>13, <1>14 DEF st, cl
<1>18. QED
  BY <1>1, <1>2, <1>3, <1>12, <1>15, <1>16, <1>17, BlockInStep

(* A signal with waiters: the first leaves as it is made Ready.              *)
LEMMA SemWakeInv == IInv /\ SemWake => IInv'
<1> SUFFICES ASSUME IInv, SemWake PROVE IInv'
  OBVIOUS
<1>1. PICK k \in Keys : /\ InSet(MySems, k) /\ HasWaiters(MySems[k])
                        /\ SetMySems([MySems EXCEPT ![k] = Dequeue(@)])
                        /\ status' = [status EXCEPT ![FirstWaiter(MySems[k])] = "Ready"]
                        /\ ready'  = Append(ready, FirstWaiter(MySems[k]))
  BY DEF SemWake
<1> DEFINE s == Dequeue(MySems[k])
           w == FirstWaiter(MySems[k])
<1>2. User /\ UNCHANGED <<exitCode, parent, children, data, rax, call, waitq, cur, nextPid, mode>>
  BY DEF SemWake
<1>3. TypeOK /\ cur \in Pids /\ cur # KERNEL /\ data[cur] \in Pids /\ Up
      /\ HasVm(data, cur) /\ status[cur] \in {"Running", "Ready"} /\ ready \in Seq(Pids)
  BY <1>2, CurrentFamily DEF IInv, User, Up, Astray, TypeOK
<1>4. /\ MySems[k] \in Semaphores(Pids)
      /\ SemSound(MySems[k], data[cur], k, status, call, data)
      /\ \A p \in Waiters(MySems[k]) : p \in Pids /\ p < nextPid
  BY <1>1, <1>2, MySemsSound DEF InSet
<1>5. /\ s.count = MySems[k].count
      /\ \A i, j \in DOMAIN s.queue : s.queue[i] = s.queue[j] => i = j
      /\ Waiters(s) \subseteq Waiters(MySems[k])
      /\ w \in Waiters(MySems[k]) /\ w \notin Waiters(s)
  BY <1>1, <1>4, DequeueFacts DEF SemSound
<1>6. s \in Semaphores(Pids)
  BY <1>1, <1>3, <1>4, SemaphoreStepType
<1>7. SetMySems([MySems EXCEPT ![k] = s])
  BY <1>1
<1>8. w \in Pids /\ w < nextPid /\ (HasVm(data, w) => status[w] = "Blocked" /\ call[w] = SemCall(k) /\ data[w] = data[cur])
  BY <1>4, <1>5 DEF SemSound
<1>9. status' = [status EXCEPT ![w] = "Ready"] /\ ready' = Append(ready, w)
  BY <1>1
<1> HIDE DEF s, w
<1>10. \A p \in Waiters(s) : p < nextPid
  BY <1>4, <1>5
<1>11. /\ sems' = [g \in Pids |-> sems'[g]]
       /\ \A g \in Pids : IsSemaphoreSet(sems'[g], Keys, Pids)
       /\ OnlySeenPids(nextPid, ready, waitq, sems')
       /\ \A g \in Pids : /\ DOMAIN sems'[g] = DOMAIN sems[g]
                          /\ \A j \in DOMAIN sems[g] :
                                sems'[g][j] = IF g = data[cur] /\ j = k THEN s ELSE sems[g][j]
  <2>1. InSet(MySems, k) /\ User
    BY <1>1, <1>2
  <2>2. QED
    BY <1>6, <1>7, <1>10, <2>1, MySemsUpdate
<1>12. status'[w] = "Ready" /\ \A p \in Pids \ {w} : status'[p] = status[p]
  BY <1>3, <1>8, <1>9 DEF TypeOK
<1>13. TypeOK'
  <2>1. status' \in [Pids -> Statuses] /\ ready' \in Seq(Pids)
    BY <1>3, <1>8, <1>9 DEF TypeOK, Statuses
  <2>2. QED
    BY <1>2, <1>3, <1>11, <2>1 DEF TypeOK
<1>14. OnlyRunnableRuns'
  BY <1>2, <1>3, <1>12 DEF OnlyRunnableRuns, HasVm
<1>15. KernelSchedulable'
  <2>1. /\ Exited(KERNEL)' <=> Exited(KERNEL)
        /\ ~Exited(KERNEL) => KernelWaiting(status, ready, data)
        /\ Exited(KERNEL) => ~LibraryKills
    BY <1>2, <1>3, KernelWaits DEF Exited
  <2>2. \A i \in DOMAIN ready : i \in DOMAIN Append(ready, w) /\ Append(ready, w)[i] = ready[i]
    BY <1>3, <1>8
  <2>3. ~Exited(KERNEL) => \E i \in DOMAIN ready' : ready'[i] = KERNEL
    BY <1>9, <2>1, <2>2 DEF KernelWaiting
  <2>4. ~Exited(KERNEL) => status'[KERNEL] = "Ready"
    BY <1>12, <2>1, PidFacts DEF KernelWaiting
  <2>5. QED
    BY <1>2, <2>1, <2>3, <2>4 DEF KernelSchedulable, KernelWaiting, HasVm, Queued
<1>16. WaitersExact(status', call, data, waitq)
  <2> SUFFICES ASSUME NEW p \in Pids, NEW t \in Pids, HasVm(data, p)
               PROVE  p \in waitq[t] <=> status'[p] = "Blocked" /\ call[p] = WaitCall(t)
    BY DEF WaitersExact
  <2>1. p \in waitq[t] <=> status[p] = "Blocked" /\ call[p] = WaitCall(t)
    BY DEF IInv, WaitersExact
  <2>2. QED
    BY <1>8, <1>12, <2>1, CallsDiffer
<1>17. WaitersExact(status, call, data, waitq)'
  BY <1>2, <1>16 DEF WaitersExact
<1>18. SemsSound(status', call, data, sems')
  <2> SUFFICES ASSUME NEW g \in Pids, NEW j \in DOMAIN sems[g]
               PROVE  SemSound(sems'[g][j], g, j, status', call, data)
    BY <1>11 DEF SemsSound
  <2>1. SemSound(sems[g][j], g, j, status, call, data) /\ Waiters(sems[g][j]) \subseteq Pids
    BY <1>3, WaiterTypes DEF IInv, SemsSound
  <2>2. CASE g = data[cur] /\ j = k
    <3>1. \A p \in Waiters(s) : HasVm(data, p) =>
             data[p] = g /\ status'[p] = "Blocked" /\ call[p] = SemCall(j)
      BY <1>4, <1>5, <1>12, <2>2 DEF SemSound
    <3>2. ~(s.count > 0)
      BY <1>1, <1>4, <1>5 DEF SemSound
    <3>3. QED
      BY <1>5, <1>11, <2>2, <3>1, <3>2 DEF SemSound
  <2>3. CASE ~(g = data[cur] /\ j = k)
    <3>1. \A p \in Waiters(sems[g][j]) : HasVm(data, p) => p # w
      BY <1>8, <2>1, <2>3, CallsInjective DEF SemSound
    <3>2. QED
      BY <1>11, <1>12, <2>1, <2>3, <3>1 DEF SemSound
  <2>4. QED
    BY <2>2, <2>3
<1>19. SemsSound(status, call, data, sems)'
  BY <1>2, <1>18 DEF SemsSound, SemSound
<1>20. OnlySeenPids(nextPid, ready, waitq, sems)' /\ (cur < nextPid)'
  <2>1. \A i \in DOMAIN ready' : ready'[i] < nextPid
    <3>1. \A i \in DOMAIN Append(ready, w) :
             (\E j \in DOMAIN ready : Append(ready, w)[i] = ready[j]) \/ Append(ready, w)[i] = w
      BY <1>3, <1>8, AppendMembers
    <3>2. QED
      BY <1>8, <1>9, <3>1 DEF IInv, OnlySeenPids
  <2>2. QED
    BY <1>2, <1>11, <2>1 DEF IInv, OnlySeenPids
<1>21. NoLateWaiters'
  BY <1>2 DEF IInv, NoLateWaiters, Exited
<1>22. QED
  BY <1>13, <1>14, <1>15, <1>17, <1>19, <1>20, <1>21 DEF IInv

-----------------------------------------------------------------------------
(* The theorems.                                                            *)

(* Every step of the process manager preserves the invariant.                *)
LEMMA NextInv == IInv /\ [Next]_vars => IInv'
<1> SUFFICES ASSUME IInv, [Next]_vars PROVE IInv'
  OBVIOUS
<1>1. CASE ClockSwitch
  BY <1>1, ClockSwitchInv
<1>2. CASE Spawn
  BY <1>2, SpawnInv
<1>3. CASE VFork
  BY <1>3, VForkInv
<1>4. CASE Exit
  <2>1. PICK ret \in ExitCodes : ExitWith(ret)
    BY <1>4 DEF Exit
  <2>2. ret \in Codes
    BY DEF Codes
  <2>3. QED
    BY <2>1, <2>2, ExitWithInv
<1>5. CASE KillSelf
  <2>1. KillCode \in Codes
    BY DEF Codes
  <2>2. QED
    BY <1>5, <2>1, ExitWithInv DEF KillSelf
<1>6. CASE KillOther
  BY <1>6, KillOtherInv
<1>7. CASE WaitPid
  BY <1>7, WaitPidInv
<1>8. CASE SemNew
  BY <1>8, SemNewInv
<1>9. CASE SemRemove
  BY <1>9, SemRemoveInv
<1>10. CASE SemTake
  BY <1>10, SemTakeInv
<1>11. CASE SemBlock
  BY <1>11, SemBlockInv
<1>12. CASE SemGive
  BY <1>12, SemGiveInv
<1>13. CASE SemWake
  BY <1>13, SemWakeInv
<1>14. CASE Shutdown \/ SpawnPanics
  BY <1>14, StopsInv DEF Shutdown, SpawnPanics, Stops
<1>15. CASE UNCHANGED vars
  <2>1. UNCHANGED <<status, exitCode, parent, children, data, rax, call, sems, ready,
                    waitq, cur, nextPid, mode>>
    BY <1>15 DEF vars, procVars
  <2>2. TypeOK'
    BY <2>1 DEF IInv, TypeOK
  <2>3. WaitersExact(status, call, data, waitq)' /\ SemsSound(status, call, data, sems)'
    BY <2>1 DEF IInv, WaitersExact, SemsSound, SemSound
  <2>4. OnlyRunnableRuns' /\ KernelSchedulable' /\ NoLateWaiters'
    BY <2>1 DEF IInv, OnlyRunnableRuns, KernelSchedulable, NoLateWaiters, Exited, Queued
  <2>5. OnlySeenPids(nextPid, ready, waitq, sems)' /\ (cur < nextPid)'
    BY <2>1 DEF IInv, OnlySeenPids
  <2>6. QED
    BY <2>2, <2>3, <2>4, <2>5 DEF IInv
<1>16. QED
  BY <1>1, <1>2, <1>3, <1>4, <1>5, <1>6, <1>7, <1>8, <1>9, <1>10, <1>11, <1>12, <1>13,
     <1>14, <1>15 DEF Next

(* Every reachable state of the process manager satisfies the inductive     *)
(* invariant: kills, vforks and semaphores in any order.                    *)
THEOREM Invariant == Spec => []IInv
<1>1. Init => IInv
  BY InitInv
<1>2. IInv /\ [Next]_vars => IInv'
  BY NextInv
<1>3. QED
  BY <1>1, <1>2, PTL DEF Spec

(* The process table, the queues and the semaphores keep their types.       *)
THEOREM TypeCorrect == Spec => []TypeOK
<1>1. IInv => TypeOK
  BY DEF IInv
<1>2. QED
  BY <1>1, Invariant, PTL

(* switch_next leaves no blocked or dead process on the processor           *)
(* (manager.rs:134-154), whoever is killed or waits, while the kernel lives.*)
THEOREM CurrentCanRun == Spec => []OnlyRunnableRuns
<1>1. IInv => OnlyRunnableRuns
  BY DEF IInv
<1>2. QED
  BY <1>1, Invariant, PTL

(* The kernel process stays on the processor or Ready in the queue as long  *)
(* as it is not killed, and it is killed only with an argument beyond the   *)
(* u16 of the user library (syscall/service.rs:76-83).                      *)
THEOREM KernelStaysSchedulable == Spec => []KernelSchedulable
<1>1. IInv => KernelSchedulable
  BY DEF IInv
<1>2. QED
  BY <1>1, Invariant, PTL

(* wait_pid looks the exit code up before it queues its caller, and kill    *)
(* empties the queue: no exit is missed (proc/mod.rs:85-97,                 *)
(* manager.rs:207-222).                                                     *)
THEOREM NoExitIsLost == Spec => []NoLostExit
<1>1. IInv => NoLostExit
  <2> SUFFICES ASSUME IInv, NEW p \in Pids, NEW q \in Pids
               PROVE  /\ Exited(q) => waitq[q] = {}
                      /\ (HasVm(data, p) /\ status[p] = "Blocked" /\ call[p] = WaitCall(q))
                            => p \in waitq[q]
    BY DEF NoLostExit
  <2>1. Exited(q) => waitq[q] = {}
    BY DEF IInv, NoLateWaiters
  <2>2. HasVm(data, p) =>
          (p \in waitq[q] <=> status[p] = "Blocked" /\ call[p] = WaitCall(q))
    BY DEF IInv, WaitersExact
  <2>3. QED
    BY <2>1, <2>2
<1>2. QED
  BY <1>1, Invariant, PTL

(* A semaphore never banks a token while somebody waits for one, and only   *)
(* members of the family blocked on its key wait in it (sync.rs:43-72).     *)
THEOREM SemaphoresAreSound == Spec => []SemaphoreDiscipline
<1>1. IInv => SemaphoreDiscipline
  BY DEF IInv, SemsSound, SemSound, SemaphoreDiscipline
<1>2. QED
  BY <1>1, Invariant, PTL

-----------------------------------------------------------------------------
(* The family tree.  Nobody enters a second children list, nobody enters    *)
(* one before being created, and whoever has an address space has not       *)
(* exited: with these FamilyTree is inductive.  Parents, the adopting ones  *)
(* too, are older than their children, so the tree has no circle.           *)
ListsDisjoint == \A p, q \in Pids : \A c \in children[p] : c \in children[q] => p = q

ChildrenSeen == \A p \in Pids : \A c \in children[p] : c < nextPid

LivingSeen == \A p \in Pids : HasVm(data, p) => ~Exited(p) /\ p < nextPid

(* A pid that has not been given out has no process.                        *)
Unborn ==
    \A p \in Pids : ~(p < nextPid) =>
        status[p] = "Absent" /\ exitCode[p] = NoCode /\ children[p] = {}

Elders ==
    \A p \in Pids : /\ parent[p] # NoPid => parent[p] < p
                    /\ \A c \in children[p] : p < c

FamilyInv ==
    FamilyTree /\ ListsDisjoint /\ ChildrenSeen /\ LivingSeen /\ Unborn /\ Elders

(* switch_next touches no process that does not exist.                      *)
LEMMA SwitchKeepsAbsent ==
    ASSUME NEW st \in [Pids -> Statuses], NEW rq \in Seq(Pids), NEW rx,
           NEW cl \in [Pids -> Calls], NEW dt, SwitchNext(st, rq, rx, cl, dt),
           NEW p \in Pids, st[p] = "Absent"
    PROVE  status'[p] = "Absent"
<1>1. st[p] # "Ready" => status'[p] = st[p]
  BY SwitchNextFrame
<1>2. QED
  BY <1>1

(* The handlers that create and kill nobody leave the tree alone.           *)
LEMMA QuietFamily ==
    ASSUME FamilyInv, UNCHANGED <<exitCode, parent, children, data, nextPid>>,
           \A p \in Pids : ~(p < nextPid) => status'[p] = "Absent"
    PROVE  FamilyInv'
  BY DEF FamilyInv, FamilyTree, ListsDisjoint, ChildrenSeen, LivingSeen, Unborn, Elders,
         HasVm, Exited

(* A new process has no children and is in no list but that of the parent   *)
(* who vforks it.                                                           *)
LEMMA SpawnFamily == IInv /\ FamilyInv /\ Spawn => FamilyInv'
<1> SUFFICES ASSUME IInv, FamilyInv, Spawn PROVE FamilyInv'
  OBVIOUS
<1>1. PICK c \in Pids : /\ TakePid(c)
                        /\ status' = [status EXCEPT ![c] = "Ready"]
                        /\ parent' = [parent EXCEPT ![c] = cur]
                        /\ data'   = [data EXCEPT ![c] = c]
  BY DEF Spawn
<1>2. TypeOK /\ nextPid \in Nat /\ UNCHANGED <<exitCode, children>> /\ Pids \subseteq Nat
  BY NextPidType, PidFacts DEF IInv, Spawn
<1>3. c = nextPid /\ nextPid' = nextPid + 1
  BY <1>1 DEF TakePid
<1>4. \A p \in Pids : c \notin children[p]
  BY <1>2, <1>3 DEF FamilyInv, ChildrenSeen
<1>5. FamilyTree'
  <2> SUFFICES ASSUME NEW p \in Pids, HasVm(data, p)', NEW d \in children'[p]
               PROVE  HasVm(data, d)' /\ parent'[d] = p
    BY DEF FamilyTree
  <2>1. d \in children[p] /\ d # c /\ d \in Pids
    BY <1>2, <1>4 DEF TypeOK
  <2>2. p # c
    BY <1>2, <1>3, <2>1 DEF FamilyInv, Unborn
  <2>3. HasVm(data, p)
    BY <1>1, <1>2, <2>2 DEF HasVm, TypeOK
  <2>4. HasVm(data, d) /\ parent[d] = p
    BY <2>1, <2>3 DEF FamilyInv, FamilyTree
  <2>5. QED
    BY <1>1, <1>2, <2>1, <2>4 DEF HasVm, TypeOK
<1>6. ListsDisjoint'
  BY <1>2 DEF FamilyInv, ListsDisjoint
<1>7. ChildrenSeen'
  BY <1>2, <1>3 DEF FamilyInv, ChildrenSeen, TypeOK
<1>8. LivingSeen'
  <2> SUFFICES ASSUME NEW p \in Pids, HasVm(data, p)' PROVE ~Exited(p)' /\ p < nextPid'
    BY DEF LivingSeen
  <2>1. CASE p = c
    BY <1>2, <1>3, <2>1 DEF FamilyInv, Unborn, Exited
  <2>2. CASE p # c
    BY <1>1, <1>2, <1>3, <2>2 DEF FamilyInv, LivingSeen, HasVm, Exited, TypeOK
  <2>3. QED
    BY <2>1, <2>2
<1>9. Unborn'
  BY <1>1, <1>2, <1>3 DEF FamilyInv, Unborn, TypeOK
<1>10. Elders'
  BY <1>1, <1>2, <1>3 DEF FamilyInv, Elders, IInv, TypeOK
<1>11. QED
  BY <1>5, <1>6, <1>7, <1>8, <1>9, <1>10 DEF FamilyInv

(* A new child enters one list; a dead one leaves it, its own are adopted.  *)
LEMMA VForkFamily == IInv /\ FamilyInv /\ VFork => FamilyInv'
<1> SUFFICES ASSUME IInv, FamilyInv, VFork PROVE FamilyInv'
  OBVIOUS
<1>1. PICK c \in Pids :
         /\ TakePid(c)
         /\ parent'   = [parent EXCEPT ![c] = cur]
         /\ children' = ForkChildren(c)
         /\ data'     = ForkData(c)
         /\ SwitchNext(ForkStatus(c), ready \o <<c, cur>>, ForkRax(c), call, data')
  BY DEF VFork
<1>2. TypeOK /\ nextPid \in Nat /\ exitCode' = exitCode /\ Pids \subseteq Nat /\ cur \in Pids
  BY NextPidType, PidFacts DEF IInv, VFork, TypeOK
<1>3. c = nextPid /\ nextPid' = nextPid + 1 /\ c # cur
  BY <1>1, <1>2 DEF TakePid, IInv
<1>4. \A p \in Pids : c \notin children[p]
  BY <1>2, <1>3 DEF FamilyInv, ChildrenSeen
<1>5. HasVm(data, cur)
  BY DEF VFork, User, Up, Astray
<1>6. /\ \A p \in Pids : children'[p] = IF p = cur THEN children[cur] \cup {c} ELSE children[p]
      /\ \A p \in Pids : data'[p] = IF p = c THEN data[cur] ELSE data[p]
      /\ \A p \in Pids : parent'[p] = IF p = c THEN cur ELSE parent[p]
  BY <1>1, <1>2 DEF ForkChildren, ForkData, TypeOK
<1>7. FamilyTree'
  <2> SUFFICES ASSUME NEW p \in Pids, HasVm(data, p)', NEW d \in children'[p]
               PROVE  HasVm(data, d)' /\ parent'[d] = p
    BY DEF FamilyTree
  <2>1. CASE d = c
    BY <1>4, <1>5, <1>6, <2>1 DEF HasVm
  <2>2. CASE d # c
    <3>1. d \in children[p] /\ d \in Pids
      BY <1>2, <1>6, <2>2, ZenonT(60) DEF TypeOK
    <3>2. p # c
      BY <1>2, <1>3, <3>1 DEF FamilyInv, Unborn
    <3>3. HasVm(data, d) /\ parent[d] = p
      BY <1>6, <3>1, <3>2 DEF FamilyInv, FamilyTree, HasVm
    <3>4. QED
      BY <1>6, <2>2, <3>1, <3>3 DEF HasVm
  <2>3. QED
    BY <2>1, <2>2
<1>8. ListsDisjoint'
  <2> SUFFICES ASSUME NEW p \in Pids, NEW q \in Pids, NEW d \in children'[p], d \in children'[q]
               PROVE  p = q
    BY DEF ListsDisjoint
  <2>1. CASE d = c
    BY <1>4, <1>6, <2>1
  <2>2. CASE d # c
    BY <1>6, <2>2 DEF FamilyInv, ListsDisjoint
  <2>3. QED
    BY <2>1, <2>2
<1>9. ChildrenSeen'
  <2> SUFFICES ASSUME NEW p \in Pids, NEW d \in children'[p] PROVE d < nextPid'
    BY DEF ChildrenSeen
  <2>1. d \in Pids /\ (d = c \/ d \in children[p])
    <3>1. children[p] \subseteq Pids
      BY <1>2 DEF TypeOK
    <3>2. QED
      BY <1>6, <3>1
  <2>2. d = nextPid \/ d < nextPid
    BY <1>3, <2>1 DEF FamilyInv, ChildrenSeen
  <2>3. QED
    BY <1>2, <1>3, <2>1, <2>2
<1>10. LivingSeen'
  <2> SUFFICES ASSUME NEW p \in Pids, HasVm(data, p)' PROVE ~Exited(p)' /\ p < nextPid'
    BY DEF LivingSeen
  <2>1. CASE p = c
    BY <1>2, <1>3, <2>1 DEF FamilyInv, Unborn, Exited
  <2>2. CASE p # c
    BY <1>2, <1>3, <1>6, <2>2 DEF FamilyInv, LivingSeen, HasVm, Exited
  <2>3. QED
    BY <2>1, <2>2
<1>11. Unborn'
  <2> SUFFICES ASSUME NEW p \in Pids, ~(p < nextPid')
               PROVE  status'[p] = "Absent" /\ exitCode'[p] = NoCode /\ children'[p] = {}
    BY DEF Unborn
  <2>1. ~(p < nextPid) /\ p # c /\ p # cur
    BY <1>2, <1>3 DEF IInv
  <2>2. status[p] = "Absent" /\ exitCode[p] = NoCode /\ children[p] = {}
    BY <2>1 DEF FamilyInv, Unborn
  <2>3. /\ ForkStatus(c) \in [Pids -> Statuses] /\ call \in [Pids -> Calls]
        /\ ready \o <<c, cur>> \in Seq(Pids)
    <3>1. ready \in Seq(Pids) /\ status \in [Pids -> Statuses] /\ call \in [Pids -> Calls]
      BY <1>2 DEF TypeOK
    <3>2. ForkStatus(c) \in [Pids -> Statuses]
      BY <3>1 DEF ForkStatus, Statuses
    <3>3. QED
      BY <1>2, <3>1, <3>2
  <2>4. ForkStatus(c)[p] = "Absent"
    BY <1>2, <2>1, <2>2 DEF ForkStatus, TypeOK
  <2>5. status'[p] = "Absent"
    BY <1>1, <2>3, <2>4, SwitchKeepsAbsent
  <2>6. QED
    BY <1>2, <1>6, <2>1, <2>2, <2>5
<1>12. Elders'
  <2>1. cur < c
    BY <1>3 DEF IInv
  <2>2. QED
    BY <1>2, <1>6, <2>1 DEF FamilyInv, Elders, TypeOK
<1>13. QED
  BY <1>7, <1>8, <1>9, <1>10, <1>11, <1>12 DEF FamilyInv

(* ProcessInner::kill, once or again (process.rs:212-235): the process      *)
(* leaves the list of a living parent, and its children lists no longer     *)
(* count, since it is not alive.                                            *)
LEMMA KillFamily ==
    ASSUME IInv, FamilyInv, NEW q \in Pids, NEW ret \in Codes, KillProcess(q, ret),
           q < nextPid
    PROVE  FamilyTree' /\ ListsDisjoint' /\ ChildrenSeen' /\ LivingSeen' /\ Elders'
<1>1. TypeOK /\ nextPid' = nextPid
  BY DEF IInv, KillProcess
<1>2. \A p \in Pids : /\ p # q => data'[p] = data[p] /\ exitCode'[p] = exitCode[p]
                      /\ data'[q] = NoPid
  BY <1>1 DEF KillProcess, DataAfterKill, TypeOK
<1>3. \A p \in Pids : children'[p] \subseteq children[p]
  BY DEF KillProcess, ChildrenAfterKill
<1>4. FamilyTree'
  <2> SUFFICES ASSUME NEW p \in Pids, HasVm(data, p)', NEW d \in children'[p]
               PROVE  HasVm(data, d)' /\ parent'[d] = p
    BY DEF FamilyTree
  <2>1. p # q /\ HasVm(data, p) /\ ~Exited(p) /\ d \in children[p] /\ d \in Pids
    BY <1>1, <1>2, <1>3 DEF HasVm, FamilyInv, LivingSeen, TypeOK
  <2>2. HasVm(data, d) /\ parent[d] = p
    BY <2>1 DEF FamilyInv, FamilyTree
  <2>3. d # q
    BY <1>1, <2>1, <2>2, PidFacts DEF KillProcess, ChildrenAfterKill, ParentAlive
  <2>4. d \notin children[q]
    BY <2>1 DEF FamilyInv, ListsDisjoint
  <2>5. parent'[d] = parent[d]
    BY <2>1, <2>4 DEF KillProcess, ParentsAfterKill
  <2>6. QED
    BY <1>2, <2>1, <2>2, <2>3, <2>5 DEF HasVm
<1>5. ListsDisjoint'
  BY <1>3 DEF FamilyInv, ListsDisjoint
<1>6. ChildrenSeen'
  BY <1>1, <1>3 DEF FamilyInv, ChildrenSeen
<1>7. LivingSeen'
  BY <1>1, <1>2 DEF FamilyInv, LivingSeen, HasVm, Exited
<1>8. Elders'
  <2> SUFFICES ASSUME NEW p \in Pids
               PROVE  /\ parent'[p] # NoPid => parent'[p] < p
                      /\ \A c \in children'[p] : p < c
    BY DEF Elders
  <2>1. \A c \in children'[p] : p < c
    BY <1>3 DEF FamilyInv, Elders
  <2>2. parent'[p] \in {parent[p], NoPid} \/ (p \in children[q] /\ parent'[p] = parent[q])
    BY DEF KillProcess, ParentsAfterKill
  <2>3. CASE p \in children[q] /\ parent'[p] = parent[q]
    <3>1. parent[q] \in Pids \cup {NoPid} /\ NoPid \in Nat
      BY <1>1 DEF TypeOK, NoPid
    <3>2. q < p /\ (parent[q] # NoPid => parent[q] < q)
      BY <2>3 DEF FamilyInv, Elders
    <3>3. q \in Nat /\ p \in Nat /\ parent[q] \in Nat
      BY <3>1, PidFacts
    <3>4. QED
      BY <2>1, <2>3, <3>2, <3>3
  <2>4. QED
    BY <2>1, <2>2, <2>3 DEF FamilyInv, Elders
<1>9. QED
  BY <1>4, <1>5, <1>6, <1>7, <1>8

(* kill and the wake-ups it ends with reach only processes that exist.      *)
LEMMA KillUnborn ==
    ASSUME IInv, FamilyInv, NEW q \in Pids, NEW ret \in Codes, KillProcess(q, ret),
           q < nextPid, NEW p \in Pids, ~(p < nextPid')
    PROVE  StatusAfterKill(q)[p] = "Absent" /\ exitCode'[p] = NoCode /\ children'[p] = {}
<1>1. TypeOK /\ nextPid' = nextPid /\ p # q
  BY DEF IInv, KillProcess
<1>2. status[p] = "Absent" /\ exitCode[p] = NoCode /\ children[p] = {}
  BY <1>1 DEF FamilyInv, Unborn
<1>3. p \notin waitq[q]
  BY <1>1 DEF IInv, OnlySeenPids
<1>4. QED
  BY <1>1, <1>2, <1>3 DEF StatusAfterKill, KillProcess, ChildrenAfterKill, TypeOK

LEMMA ExitWithFamily ==
    ASSUME NEW ret \in Codes PROVE IInv /\ FamilyInv /\ ExitWith(ret) => FamilyInv'
<1> SUFFICES ASSUME IInv, FamilyInv, ExitWith(ret) PROVE FamilyInv'
  OBVIOUS
<1>1. TypeOK /\ cur \in Pids /\ cur < nextPid /\ KillProcess(cur, ret)
  BY DEF IInv, TypeOK, ExitWith
<1>2. PICK w \in Ascending(waitq[cur]) :
         SwitchNext(StatusAfterKill(cur), ready \o w, RaxAfterKill(cur, ret),
                    call, DataAfterKill(cur))
  BY DEF ExitWith
<1>3. /\ StatusAfterKill(cur) \in [Pids -> Statuses] /\ ready \o w \in Seq(Pids)
      /\ call \in [Pids -> Calls]
  BY <1>1, KillTypes, KillKeepsSeen DEF TypeOK
<1>4. Unborn'
  <2> SUFFICES ASSUME NEW p \in Pids, ~(p < nextPid')
               PROVE  status'[p] = "Absent" /\ exitCode'[p] = NoCode /\ children'[p] = {}
    BY DEF Unborn
  <2>1. StatusAfterKill(cur)[p] = "Absent" /\ exitCode'[p] = NoCode /\ children'[p] = {}
    BY <1>1, KillUnborn
  <2>2. QED
    BY <1>2, <1>3, <2>1, SwitchKeepsAbsent
<1>5. QED
  BY <1>1, <1>4, KillFamily DEF FamilyInv

LEMMA KillOtherFamily == IInv /\ FamilyInv /\ KillOther => FamilyInv'
<1> SUFFICES ASSUME IInv, FamilyInv, KillOther PROVE FamilyInv'
  OBVIOUS
<1>1. PICK q \in (KillTargets \cap Pids) \ {cur} :
         Exists(q) /\ KillProcess(q, KillCode) /\ status' = StatusAfterKill(q)
  BY DEF KillOther
<1>2. q \in Pids /\ KillCode \in Codes
  BY DEF Codes
<1>3. q < nextPid
  BY <1>1, <1>2 DEF FamilyInv, Unborn, Exists
<1>4. Unborn'
  <2> SUFFICES ASSUME NEW p \in Pids, ~(p < nextPid')
               PROVE  status'[p] = "Absent" /\ exitCode'[p] = NoCode /\ children'[p] = {}
    BY DEF Unborn
  <2>1. QED
    BY <1>1, <1>2, <1>3, KillUnborn
<1>5. QED
  BY <1>1, <1>2, <1>3, <1>4, KillFamily DEF FamilyInv

(* Every step keeps the family tree.                                        *)
LEMMA NextFamily == IInv /\ FamilyInv /\ [Next]_vars => FamilyInv'
<1> SUFFICES ASSUME IInv, FamilyInv, [Next]_vars PROVE FamilyInv'
  OBVIOUS
<1>1. TypeOK /\ cur \in Pids /\ cur < nextPid /\ Pids \subseteq Nat
  BY PidFacts DEF IInv, TypeOK
<1>2. \A p \in Pids : ~(p < nextPid) => status[p] = "Absent" /\ p # cur
  BY <1>1 DEF FamilyInv, Unborn
<1>3. /\ status \in [Pids -> Statuses] /\ call \in [Pids -> Calls] /\ ready \in Seq(Pids)
      /\ \A s \in {"Ready", "Blocked"} : Saved(cur, s) \in [Pids -> Statuses]
      /\ \A s : \A p \in Pids : p # cur => Saved(cur, s)[p] = status[p]
  BY <1>1 DEF TypeOK, Saved, Statuses
<1>4. CASE ClockSwitch
  <2>1. /\ UNCHANGED <<exitCode, parent, children, data, nextPid>>
        /\ SwitchNext(Saved(cur, "Ready"), Append(ready, cur),
                      [rax EXCEPT ![cur] = NoRet], call, data)
    BY <1>4 DEF ClockSwitch
  <2>2. Append(ready, cur) \in Seq(Pids)
    BY <1>1, <1>3
  <2>3. \A p \in Pids : ~(p < nextPid) => status'[p] = "Absent"
    BY <1>2, <1>3, <2>1, <2>2, SwitchKeepsAbsent
  <2>4. QED
    BY <2>1, <2>3, QuietFamily
<1>5. CASE Exit \/ KillSelf
  <2>1. PICK ret \in Codes : ExitWith(ret)
    BY <1>5 DEF Exit, KillSelf, Codes
  <2>2. QED
    BY <2>1, ExitWithFamily
<1>6. ASSUME NEW c \in Calls, BlockIn(c),
             UNCHANGED <<exitCode, parent, children, data, nextPid>>
      PROVE  FamilyInv'
  <2>1. SwitchNext(Saved(cur, "Blocked"), ready, [rax EXCEPT ![cur] = NoRet],
                   [call EXCEPT ![cur] = c], data)
    BY <1>6 DEF BlockIn
  <2>2. [call EXCEPT ![cur] = c] \in [Pids -> Calls]
    BY <1>1, <1>3, <1>6
  <2>3. \A p \in Pids : ~(p < nextPid) => status'[p] = "Absent"
    BY <1>2, <1>3, <2>1, <2>2, SwitchKeepsAbsent
  <2>4. QED
    BY <1>6, <2>3, QuietFamily
<1>7. CASE WaitPid
  <2>1. PICK q \in Pids : BlockIn(WaitCall(q))
    BY <1>7 DEF WaitPid
  <2>2. QED
    BY <1>6, <1>7, <2>1, CallTypes DEF WaitPid
<1>8. CASE SemBlock
  <2>1. PICK k \in Keys : BlockIn(SemCall(k))
    BY <1>8 DEF SemBlock
  <2>2. QED
    BY <1>6, <1>8, <2>1, CallTypes DEF SemBlock
<1>9. CASE SemWake
  <2>1. PICK k \in Keys : /\ InSet(MySems, k) /\ HasWaiters(MySems[k])
                          /\ status' = [status EXCEPT ![FirstWaiter(MySems[k])] = "Ready"]
    BY <1>9 DEF SemWake
  <2>2. UNCHANGED <<exitCode, parent, children, data, nextPid>> /\ User
    BY <1>9 DEF SemWake
  <2>3. FirstWaiter(MySems[k]) < nextPid
    <3>1. /\ MySems[k] \in Semaphores(Pids)
          /\ SemSound(MySems[k], data[cur], k, status, call, data)
          /\ \A p \in Waiters(MySems[k]) : p \in Pids /\ p < nextPid
      BY <2>1, <2>2, MySemsSound DEF InSet
    <3>2. FirstWaiter(MySems[k]) \in Waiters(MySems[k])
      BY <2>1, <3>1, DequeueFacts DEF SemSound
    <3>3. QED
      BY <3>1, <3>2
  <2>4. \A p \in Pids : ~(p < nextPid) => status'[p] = "Absent"
    BY <1>2, <1>3, <2>1, <2>3
  <2>5. QED
    BY <2>2, <2>4, QuietFamily
<1>10. CASE SemNew \/ SemRemove \/ SemTake \/ SemGive \/ Shutdown \/ SpawnPanics \/ UNCHANGED vars
  <2>1. UNCHANGED <<exitCode, parent, children, data, nextPid>> /\ status' = status
    BY <1>10 DEF SemNew, SemRemove, SemTake, SemGive, Shutdown, SpawnPanics, vars, procVars
  <2>2. QED
    BY <1>2, <2>1, QuietFamily
<1>11. QED
  BY <1>4, <1>5, <1>7, <1>8, <1>9, <1>10, SpawnFamily, VForkFamily, KillOtherFamily DEF Next

(* However processes die, and die again, no list of a living process names  *)
(* a dead one, nobody is in two lists, and every parent is older than its   *)
(* children, also the one that adopts them (process.rs:212-235).            *)
THEOREM FamilyInvariant == Spec => []FamilyInv
<1>1. Init => FamilyInv
  <2> SUFFICES ASSUME Init PROVE FamilyInv
    OBVIOUS
  <2>1. /\ \A p \in Pids : children[p] = {} /\ ~Exited(p)
        /\ \A p \in Pids : HasVm(data, p) => p = KERNEL
        /\ \A p \in Pids : p # KERNEL => status[p] = "Absent"
        /\ nextPid = KERNEL + 1 /\ KERNEL = 1 /\ \A p \in Pids : parent[p] = NoPid
    BY DEF Init, Exited, HasVm, KERNEL
  <2>2. QED
    BY <2>1 DEF FamilyInv, FamilyTree, ListsDisjoint, ChildrenSeen, LivingSeen, Unborn, Elders,
       Exited
<1>2. IInv /\ FamilyInv /\ [Next]_vars => FamilyInv'
  BY NextFamily
<1>3. QED
  BY <1>1, <1>2, Invariant, PTL DEF Spec

(* Whoever the children list of a living process names is alive and has it  *)
(* as parent, whatever is killed, and killed again, in between              *)
(* (process.rs:212-235).  Adopted children need not be in the list of their *)
(* new parent.                                                              *)
THEOREM ChildrenListsSound == Spec => []FamilyTree
<1>1. FamilyInv => FamilyTree
  BY DEF FamilyInv
<1>2. QED
  BY <1>1, FamilyInvariant, PTL

-----------------------------------------------------------------------------
(* Seats.  Before switch_next every living process is Ready and once in the *)
(* queue, or Blocked and not in it; afterwards this holds of all but the    *)
(* one on the processor, which is not in the queue.                         *)
InQueue(rq, p) == \E i \in DOMAIN rq : rq[i] = p
OnceIn(rq, p)  == \A i, j \in DOMAIN rq : rq[i] = p /\ rq[j] = p => i = j

QueueSeat(st, rq, p) ==
    /\ st[p] \in {"Ready", "Blocked"}
    /\ st[p] = "Ready" <=> InQueue(rq, p)
    /\ OnceIn(rq, p)

AllQueued(st, rq, dt) == \A p \in Pids : HasVm(dt, p) => QueueSeat(st, rq, p)

SeatedBut(c, st, rq, dt) ==
    \A p \in Pids : HasVm(dt, p) =>
        /\ p = c => ~InQueue(rq, p)
        /\ p # c => QueueSeat(st, rq, p)

(* Who is Blocked is inside a call, and unless semaphores are dropped under *)
(* their waiters, in the queue of the semaphore it waits for.               *)
KeptWaiting(st, cl, dt, sm) ==
    \A p \in Pids : HasVm(dt, p) /\ st[p] = "Blocked" =>
        /\ cl[p] # NoCall
        /\ ~DropBusySems => \A k \in Keys : cl[p] = SemCall(k) =>
              k \in DOMAIN sm[dt[p]] /\ p \in Waiters(sm[dt[p]][k])

SeatInv == Up => SeatedBut(cur, status, ready, data) /\ KeptWaiting(status, call, data, sems)

(* Dropping the entries before the first Ready one drops no living process. *)
LEMMA SubSeqMembers ==
    ASSUME NEW rq \in Seq(Pids), NEW n \in DOMAIN rq
    PROVE  /\ SubSeq(rq, n + 1, Len(rq)) \in Seq(Pids)
           /\ DOMAIN SubSeq(rq, n + 1, Len(rq)) = 1..(Len(rq) - n)
           /\ \A i \in 1..(Len(rq) - n) : /\ SubSeq(rq, n + 1, Len(rq))[i] = rq[n + i]
                                          /\ n + i \in DOMAIN rq
           /\ \A j \in DOMAIN rq : j > n => j - n \in 1..(Len(rq) - n) /\ n + (j - n) = j
<1>1. n \in 1..Len(rq) /\ DOMAIN rq = 1..Len(rq) /\ Len(rq) \in Nat
  OBVIOUS
<1>2. Len(SubSeq(rq, n + 1, Len(rq))) = Len(rq) - n
  BY <1>1
<1>3. SubSeq(rq, n + 1, Len(rq)) \in Seq(Pids)
  BY <1>1
<1>4. \A i \in 1..(Len(rq) - n) : SubSeq(rq, n + 1, Len(rq))[i] = rq[n + i]
  BY <1>1
<1>5. QED
  BY <1>1, <1>2, <1>3, <1>4, SMTT(30)

(* Popping the next process, and appending the woken, keep the seats        *)
(* apart.                                                                   *)
LEMMA PopSeat ==
    ASSUME NEW st, NEW rq \in Seq(Pids), NEW n \in DOMAIN rq, st[rq[n]] = "Ready",
           \A i \in Runnable(st, rq) : n <= i,
           NEW p \in Pids, QueueSeat(st, rq, p)
    PROVE  /\ p = rq[n] => ~InQueue(SubSeq(rq, n + 1, Len(rq)), p)
           /\ p # rq[n] => QueueSeat(st, SubSeq(rq, n + 1, Len(rq)), p)
<1> DEFINE t == SubSeq(rq, n + 1, Len(rq))
<1>1. /\ DOMAIN t = 1..(Len(rq) - n)
      /\ \A i \in DOMAIN t : t[i] = rq[n + i] /\ n + i \in DOMAIN rq
      /\ \A j \in DOMAIN rq : j > n => j - n \in DOMAIN t /\ n + (j - n) = j
      /\ n \in Nat
  <2>1. n \in Nat
    OBVIOUS
  <2>2. QED
    BY <2>1, SubSeqMembers, ZenonT(60)
<1> HIDE DEF t
<1>2. OnceIn(rq, p)
  BY DEF QueueSeat
<1>3. OnceIn(t, p)
  <2> SUFFICES ASSUME NEW i \in DOMAIN t, NEW j \in DOMAIN t, t[i] = p, t[j] = p
               PROVE  i = j
    BY DEF OnceIn
  <2>1. n + i = n + j
    BY <1>1, <1>2 DEF OnceIn
  <2>2. QED
    BY <1>1, <2>1
<1>4. CASE p = rq[n]
  <2> SUFFICES ASSUME NEW i \in DOMAIN t, t[i] = p PROVE FALSE
    BY <1>4 DEF t, InQueue
  <2>1. n + i = n
    BY <1>1, <1>2, <1>4 DEF OnceIn
  <2>2. QED
    BY <1>1, <2>1
<1>5. CASE p # rq[n]
  <2>1. ASSUME InQueue(rq, p) PROVE InQueue(t, p)
    <3>1. PICK j \in DOMAIN rq : rq[j] = p
      BY <2>1 DEF InQueue
    <3>2. st[p] = "Ready"
      BY <2>1 DEF QueueSeat
    <3>3. j \in Runnable(st, rq) /\ j # n
      BY <1>5, <3>1, <3>2 DEF Runnable
    <3>4. j > n
      <4>1. n <= j /\ j \in Nat
        BY <3>3 DEF Runnable
      <4>2. QED
        BY <1>1, <3>3, <4>1
    <3>5. j - n \in DOMAIN t /\ t[j - n] = rq[n + (j - n)] /\ n + (j - n) = j
      BY <1>1, <3>4
    <3>6. QED
      BY <3>1, <3>5 DEF InQueue
  <2>2. InQueue(t, p) => InQueue(rq, p)
    BY <1>1 DEF InQueue
  <2>3. QED
    BY <1>3, <1>5, <2>1, <2>2 DEF QueueSeat, t
<1>6. QED
  BY <1>4, <1>5

(* switch_next seats everybody (manager.rs:134-154).                        *)
LEMMA SwitchSeats ==
    ASSUME NEW st \in [Pids -> Statuses], NEW rq \in Seq(Pids), NEW rx,
           NEW cl \in [Pids -> Calls], NEW dt, SwitchNext(st, rq, rx, cl, dt),
           AllQueued(st, rq, dt), mode' = "up", cur \in Pids
    PROVE  SeatedBut(cur', status', ready', dt)
<1> SUFFICES ASSUME NEW p \in Pids, HasVm(dt, p)
             PROVE  /\ p = cur' => ~InQueue(ready', p)
                    /\ p # cur' => QueueSeat(status', ready', p)
  BY DEF SeatedBut
<1>1. QueueSeat(st, rq, p)
  BY DEF AllQueued
<1>2. CASE Runnable(st, rq) = {} /\ ready' = <<>> /\ KeepCurrent(st, rx, cl)
  <2>1. ~InQueue(rq, p)
    BY <1>1, <1>2 DEF Runnable, InQueue, QueueSeat
  <2>2. ~InQueue(ready', p) /\ OnceIn(ready', p)
    BY <1>2 DEF InQueue, OnceIn
  <2>3. QED
    BY <1>1, <1>2, <2>1, <2>2 DEF QueueSeat, KeepCurrent
<1>3. ASSUME NEW n \in Runnable(st, rq), \A i \in Runnable(st, rq) : n <= i,
             ready' = SubSeq(rq, n + 1, Len(rq)),
             \/ rq[n] = cur /\ KeepCurrent(st, rx, cl)
             \/ rq[n] # cur /\ HasVm(dt, rq[n]) /\ Restore(rq[n], st, rx, cl)
      PROVE  /\ p = cur' => ~InQueue(ready', p)
             /\ p # cur' => QueueSeat(status', ready', p)
  <2>1. n \in DOMAIN rq /\ st[rq[n]] = "Ready" /\ rq[n] \in Pids
    BY DEF Runnable
  <2>2. /\ p = rq[n] => ~InQueue(ready', p)
        /\ p # rq[n] => QueueSeat(st, ready', p)
    BY <1>1, <1>3, <2>1, PopSeat
  <2>3. cur' = rq[n] /\ (p # rq[n] => status'[p] = st[p])
    BY <1>3, <2>1 DEF KeepCurrent, Restore
  <2>4. QED
    BY <2>2, <2>3 DEF QueueSeat
<1>4. CASE \E n \in Runnable(st, rq) : RestorePanics(st, rx, cl)
  BY <1>4 DEF RestorePanics
<1>5. QED
  BY <1>2, <1>3, <1>4 DEF SwitchNext

(* and takes nobody who waits out of a queue of waiters.                    *)
LEMMA SwitchKeepsWaiting ==
    ASSUME NEW st \in [Pids -> Statuses], NEW rq \in Seq(Pids), NEW rx,
           NEW cl \in [Pids -> Calls], NEW dt, SwitchNext(st, rq, rx, cl, dt),
           NEW sm, KeptWaiting(st, cl, dt, sm)
    PROVE  KeptWaiting(status', call', dt, sm)
<1>1. /\ \A p \in Pids : st[p] # "Ready" => status'[p] = st[p] /\ call'[p] = cl[p]
      /\ \A p \in Pids : st[p] = "Ready" => status'[p] \in {"Ready", "Running"}
  BY SwitchNextFrame
<1>2. \A p \in Pids : status'[p] = "Blocked" => st[p] = "Blocked" /\ call'[p] = cl[p]
  BY <1>1
<1>3. QED
  BY <1>2 DEF KeptWaiting

(* A handler that ends in switch_next.                                      *)
LEMMA SwitchSeatStep ==
    ASSUME NEW st \in [Pids -> Statuses], NEW rq \in Seq(Pids), NEW rx,
           NEW cl \in [Pids -> Calls], NEW dt, dt = data', SwitchNext(st, rq, rx, cl, dt),
           NEW sm, sm = sems', cur \in Pids,
           AllQueued(st, rq, dt), KeptWaiting(st, cl, dt, sm)
    PROVE  SeatInv'
<1>1. ASSUME Up' PROVE SeatedBut(cur', status', ready', data')
  BY <1>1, SwitchSeats DEF Up
<1>2. KeptWaiting(status', call', data', sems')
  BY SwitchKeepsWaiting
<1>3. QED
  BY <1>1, <1>2 DEF SeatInv, SeatedBut, KeptWaiting, QueueSeat, InQueue, OnceIn

(* Pushing at the end of the queue, one process or several.                 *)
LEMMA PushSeat ==
    ASSUME NEW rq \in Seq(Pids), NEW c \in Pids, NEW p \in Pids
    PROVE  /\ InQueue(Append(rq, c), p) <=> InQueue(rq, p) \/ p = c
           /\ OnceIn(rq, p) /\ (p = c => ~InQueue(rq, p)) => OnceIn(Append(rq, c), p)
<1>1. /\ DOMAIN Append(rq, c) = 1..(Len(rq) + 1) /\ DOMAIN rq = 1..Len(rq) /\ Len(rq) \in Nat
      /\ \A i \in 1..Len(rq) : Append(rq, c)[i] = rq[i]
      /\ Append(rq, c)[Len(rq) + 1] = c
  OBVIOUS
<1>2. \A i \in 1..(Len(rq) + 1) : i \in 1..Len(rq) \/ i = Len(rq) + 1
  BY <1>1
<1>3. InQueue(Append(rq, c), p) <=> InQueue(rq, p) \/ p = c
  <2>1. InQueue(Append(rq, c), p) => InQueue(rq, p) \/ p = c
    BY <1>1, <1>2 DEF InQueue
  <2>2. InQueue(rq, p) => InQueue(Append(rq, c), p)
    BY <1>1 DEF InQueue
  <2>3. p = c => InQueue(Append(rq, c), p)
    BY <1>1 DEF InQueue
  <2>4. QED
    BY <2>1, <2>2, <2>3
<1>4. ASSUME OnceIn(rq, p), p = c => ~InQueue(rq, p)
      PROVE  OnceIn(Append(rq, c), p)
  <2> SUFFICES ASSUME NEW i \in 1..(Len(rq) + 1), NEW j \in 1..(Len(rq) + 1),
                      Append(rq, c)[i] = p, Append(rq, c)[j] = p
               PROVE  i = j
    BY <1>1 DEF OnceIn
  <2>1. CASE i \in 1..Len(rq) /\ j \in 1..Len(rq)
    BY <1>1, <1>4, <2>1 DEF OnceIn
  <2>2. CASE i = Len(rq) + 1 /\ j \in 1..Len(rq)
    BY <1>1, <1>4, <2>2 DEF InQueue
  <2>3. CASE j = Len(rq) + 1 /\ i \in 1..Len(rq)
    BY <1>1, <1>4, <2>3 DEF InQueue
  <2>4. QED
    BY <1>2, <2>1, <2>2, <2>3
<1>5. QED
  BY <1>3, <1>4

LEMMA ConcatSeat ==
    ASSUME NEW rq \in Seq(Pids), NEW w \in Seq(Pids), NEW p \in Pids
    PROVE  /\ InQueue(rq \o w, p) <=> InQueue(rq, p) \/ InQueue(w, p)
           /\ OnceIn(rq, p) /\ OnceIn(w, p) /\ ~(InQueue(rq, p) /\ InQueue(w, p))
                 => OnceIn(rq \o w, p)
<1>1. /\ DOMAIN (rq \o w) = 1..(Len(rq) + Len(w)) /\ DOMAIN rq = 1..Len(rq)
      /\ DOMAIN w = 1..Len(w) /\ Len(rq) \in Nat /\ Len(w) \in Nat
  OBVIOUS
<1>2. \A i \in 1..(Len(rq) + Len(w)) :
         \/ i \in 1..Len(rq) /\ (rq \o w)[i] = rq[i]
         \/ /\ i - Len(rq) \in 1..Len(w) /\ i \notin 1..Len(rq)
            /\ (rq \o w)[i] = w[i - Len(rq)]
  OBVIOUS
<1>3. InQueue(rq \o w, p) => InQueue(rq, p) \/ InQueue(w, p)
  BY <1>1, <1>2 DEF InQueue
<1>4. InQueue(rq, p) \/ InQueue(w, p) => InQueue(rq \o w, p)
  <2>1. \A i \in 1..Len(rq) : (rq \o w)[i] = rq[i] /\ i \in 1..(Len(rq) + Len(w))
    OBVIOUS
  <2>2. \A i \in 1..Len(w) :
           (rq \o w)[Len(rq) + i] = w[i] /\ Len(rq) + i \in 1..(Len(rq) + Len(w))
    OBVIOUS
  <2>3. QED
    BY <1>1, <2>1, <2>2 DEF InQueue
<1>5. ASSUME OnceIn(rq, p), OnceIn(w, p), ~(InQueue(rq, p) /\ InQueue(w, p))
      PROVE  OnceIn(rq \o w, p)
  <2> SUFFICES ASSUME NEW i \in 1..(Len(rq) + Len(w)), NEW j \in 1..(Len(rq) + Len(w)),
                      (rq \o w)[i] = p, (rq \o w)[j] = p
               PROVE  i = j
    BY <1>1 DEF OnceIn
  <2>1. CASE i \in 1..Len(rq) /\ j \in 1..Len(rq)
    BY <1>1, <1>2, <1>5, <2>1 DEF OnceIn
  <2>2. CASE i \notin 1..Len(rq) /\ j \notin 1..Len(rq)
    <3>1. i - Len(rq) = j - Len(rq)
      BY <1>1, <1>2, <1>5, <2>2 DEF OnceIn
    <3>2. QED
      BY <1>1, <3>1
  <2>3. CASE i \in 1..Len(rq) /\ j \notin 1..Len(rq)
    BY <1>1, <1>2, <1>5, <2>3 DEF InQueue
  <2>4. CASE i \notin 1..Len(rq) /\ j \in 1..Len(rq)
    BY <1>1, <1>2, <1>5, <2>4 DEF InQueue
  <2>5. QED
    BY <2>1, <2>2, <2>3, <2>4
<1>6. QED
  BY <1>3, <1>4, <1>5

(* The waiters come out of the BTreeSet once each, and all of them.         *)
LEMMA AscendingSeat ==
    ASSUME NEW S \in SUBSET Pids, NEW w \in Ascending(S), NEW p \in Pids
    PROVE  OnceIn(w, p) /\ (InQueue(w, p) <=> p \in S)
<1>1. IsFiniteSet(S) /\ Cardinality(S) \in Nat
  <2>1. IsFiniteSet(Pids)
    BY FS_Interval, BoundAssumption DEF Pids
  <2>2. IsFiniteSet(S)
    BY <2>1, FS_Subset
  <2>3. QED
    BY <2>2, FS_CardinalityType
<1> DEFINE n == Cardinality(S)
<1>2. w \in [1..n -> S] /\ \A i, j \in 1..n : i < j => w[i] < w[j]
  BY DEF Ascending
<1>3. \A i, j \in 1..n : w[i] = w[j] => i = j
  <2> SUFFICES ASSUME NEW i \in 1..n, NEW j \in 1..n, w[i] = w[j] PROVE i = j
    OBVIOUS
  <2>1. w[i] \in Nat /\ ~(w[i] < w[i])
    <3>1. w[i] \in S
      BY <1>2
    <3>2. S \subseteq Nat
      BY PidFacts
    <3>3. w[i] \in Nat
      BY <3>1, <3>2
    <3>4. QED
      BY <3>3
  <2>2. QED
    BY <1>1, <1>2, <2>1
<1>4. w \in Injection(1..n, S)
  BY <1>2, <1>3 DEF Injection, IsInjective
<1>5. Cardinality(1..n) = n
  <2>1. 1 \in Int /\ n \in Int
    BY <1>1
  <2>2. Cardinality(1..n) = IF 1 > n THEN 0 ELSE n - 1 + 1
    BY <2>1, FS_Interval
  <2>3. QED
    BY <1>1, <2>2
<1>6. w \in Surjection(1..n, S)
  BY <1>1, <1>4, <1>5, FS_Injection
<1>7. \A t \in S : \E i \in 1..n : w[i] = t
  BY <1>6 DEF Surjection
<1>8. DOMAIN w = 1..n
  BY <1>2
<1>9. OnceIn(w, p)
  BY <1>3, <1>8 DEF OnceIn
<1>10. InQueue(w, p) <=> p \in S
  BY <1>2, <1>7, <1>8 DEF InQueue
<1>11. QED
  BY <1>9, <1>10

(* A signal takes nobody but the first out of the queue.                    *)
LEMMA DequeueKeeps ==
    ASSUME NEW P, NEW s \in Semaphores(P), HasWaiters(s), NEW p \in Waiters(s),
           p # FirstWaiter(s)
    PROVE  p \in Waiters(Dequeue(s))
<1>1. s.queue \in Seq(P) /\ s.queue # <<>> /\ Dequeue(s).queue = Tail(s.queue)
  BY DEF Semaphores, HasWaiters, Dequeue
<1>2. PICK i \in DOMAIN s.queue : s.queue[i] = p
  BY DEF Waiters
<1>3. i # 1
  BY <1>1, <1>2 DEF FirstWaiter
<1>4. i - 1 \in DOMAIN Tail(s.queue) /\ Tail(s.queue)[i - 1] = s.queue[i]
  BY <1>1, <1>2, <1>3
<1>5. QED
  BY <1>1, <1>2, <1>4 DEF Waiters

(* While the machine is up the process on the processor is alive and in no  *)
(* queue.                                                                   *)
LEMMA CurrentSeat ==
    ASSUME IInv, SeatInv, Up
    PROVE  /\ TypeOK /\ cur \in Pids /\ ready \in Seq(Pids)
           /\ status \in [Pids -> Statuses] /\ call \in [Pids -> Calls]
           /\ data \in [Pids -> Pids \cup {NoPid}]
           /\ HasVm(data, cur) /\ status[cur] \in {"Running", "Ready"}
           /\ SeatedBut(cur, status, ready, data) /\ ~InQueue(ready, cur)
           /\ KeptWaiting(status, call, data, sems)
<1>1. TypeOK /\ HasVm(data, cur) /\ status[cur] \in {"Running", "Ready"}
  BY DEF IInv, Up, Astray
<1>2. /\ cur \in Pids /\ ready \in Seq(Pids)
      /\ status \in [Pids -> Statuses] /\ call \in [Pids -> Calls]
      /\ data \in [Pids -> Pids \cup {NoPid}]
  BY <1>1 DEF TypeOK
<1>3. SeatedBut(cur, status, ready, data) /\ KeptWaiting(status, call, data, sems)
  BY DEF SeatInv
<1>4. ~InQueue(ready, cur)
  BY <1>1, <1>2, <1>3 DEF SeatedBut
<1>5. QED
  BY <1>1, <1>2, <1>3, <1>4

(* Each action keeps everybody on one seat.                                 *)
LEMMA ClockSwitchSeat == IInv /\ SeatInv /\ ClockSwitch => SeatInv'
<1> SUFFICES ASSUME IInv, SeatInv, ClockSwitch PROVE SeatInv'
  OBVIOUS
<1> DEFINE st == Saved(cur, "Ready")
           rq == Append(ready, cur)
<1>1. Up /\ UNCHANGED <<data, sems>> /\ SwitchNext(st, rq, [rax EXCEPT ![cur] = NoRet], call, data)
  BY DEF ClockSwitch
<1>2. /\ cur \in Pids /\ ready \in Seq(Pids)
      /\ status \in [Pids -> Statuses] /\ call \in [Pids -> Calls]
      /\ SeatedBut(cur, status, ready, data) /\ ~InQueue(ready, cur)
      /\ KeptWaiting(status, call, data, sems)
  BY <1>1, CurrentSeat
<1>3. /\ st \in [Pids -> Statuses] /\ rq \in Seq(Pids)
      /\ st[cur] = "Ready" /\ \A p \in Pids \ {cur} : st[p] = status[p]
  BY <1>2 DEF Saved, Statuses
<1>4. \A p \in Pids : /\ InQueue(rq, p) <=> InQueue(ready, p) \/ p = cur
                      /\ OnceIn(ready, p) /\ (p = cur => ~InQueue(ready, p)) => OnceIn(rq, p)
  BY <1>2, PushSeat
<1> HIDE DEF st, rq
<1>5. AllQueued(st, rq, data)
  <2> SUFFICES ASSUME NEW p \in Pids, HasVm(data, p) PROVE QueueSeat(st, rq, p)
    BY DEF AllQueued
  <2>1. CASE p = cur
    <3>1. OnceIn(ready, p)
      BY <1>2, <2>1 DEF InQueue, OnceIn
    <3>2. QED
      BY <1>2, <1>3, <1>4, <2>1, <3>1 DEF QueueSeat
  <2>2. CASE p # cur
    BY <1>2, <1>3, <1>4, <2>2 DEF QueueSeat, SeatedBut
  <2>3. QED
    BY <2>1, <2>2
<1>6. KeptWaiting(st, call, data, sems)
  BY <1>2, <1>3 DEF KeptWaiting
<1>7. data = data' /\ sems = sems'
  BY <1>1
<1>8. QED
  BY <1>1, <1>2, <1>3, <1>5, <1>6, <1>7, SwitchSeatStep

LEMMA SpawnSeat == IInv /\ SeatInv /\ Spawn => SeatInv'
<1> SUFFICES ASSUME IInv, SeatInv, Spawn PROVE SeatInv'
  OBVIOUS
<1>1. PICK c \in Pids : /\ TakePid(c)
                        /\ status' = [status EXCEPT ![c] = "Ready"]
                        /\ data'   = [data EXCEPT ![c] = c]
                        /\ ready'  = Append(ready, c)
  BY DEF Spawn
<1>2. Up /\ UNCHANGED <<call, sems, cur>>
  BY DEF Spawn
<1>3. /\ cur \in Pids /\ ready \in Seq(Pids)
      /\ status \in [Pids -> Statuses] /\ data \in [Pids -> Pids \cup {NoPid}]
      /\ SeatedBut(cur, status, ready, data) /\ ~InQueue(ready, cur)
      /\ KeptWaiting(status, call, data, sems)
  BY <1>2, CurrentSeat
<1>4. /\ status'[c] = "Ready"
      /\ \A p \in Pids \ {c} : status'[p] = status[p] /\ data'[p] = data[p]
  BY <1>1, <1>3
<1>5. c # cur /\ ~InQueue(ready, c)
  <2>1. nextPid \in Nat /\ c = nextPid /\ ~(c < c)
    BY <1>1, NextPidType, PidFacts DEF IInv, TakePid
  <2>2. QED
    BY <2>1 DEF IInv, OnlySeenPids, InQueue
<1>6. \A p \in Pids : /\ InQueue(ready', p) <=> InQueue(ready, p) \/ p = c
                      /\ OnceIn(ready, p) /\ (p = c => ~InQueue(ready, p)) => OnceIn(ready', p)
  BY <1>1, <1>3, PushSeat
<1>7. SeatedBut(cur', status', ready', data')
  <2> SUFFICES ASSUME NEW p \in Pids, HasVm(data', p)
               PROVE  /\ p = cur => ~InQueue(ready', p)
                      /\ p # cur => QueueSeat(status', ready', p)
    BY <1>2 DEF SeatedBut
  <2>1. CASE p = c
    <3>1. OnceIn(ready, p)
      BY <1>5, <2>1 DEF InQueue, OnceIn
    <3>2. QED
      BY <1>4, <1>5, <1>6, <2>1, <3>1 DEF QueueSeat
  <2>2. CASE p # c
    BY <1>3, <1>4, <1>6, <2>2 DEF QueueSeat, SeatedBut, HasVm
  <2>3. QED
    BY <2>1, <2>2
<1>8. KeptWaiting(status', call', data', sems')
  <2> SUFFICES ASSUME NEW p \in Pids, HasVm(data', p), status'[p] = "Blocked"
               PROVE  /\ call[p] # NoCall
                      /\ ~DropBusySems => \A k \in Keys : call[p] = SemCall(k) =>
                            k \in DOMAIN sems[data'[p]] /\ p \in Waiters(sems[data'[p]][k])
    BY <1>2 DEF KeptWaiting
  <2>1. p # c /\ status[p] = "Blocked" /\ data'[p] = data[p] /\ HasVm(data, p)
    BY <1>4 DEF HasVm
  <2>2. QED
    BY <1>3, <2>1 DEF KeptWaiting
<1>9. QED
  BY <1>7, <1>8 DEF SeatInv, SeatedBut, KeptWaiting, QueueSeat, InQueue, OnceIn, HasVm

LEMMA VForkSeat == IInv /\ SeatInv /\ VFork => SeatInv'
<1> SUFFICES ASSUME IInv, SeatInv, VFork PROVE SeatInv'
  OBVIOUS
<1>1. PICK c \in Pids :
         /\ TakePid(c)
         /\ data'     = ForkData(c)
         /\ SwitchNext(ForkStatus(c), ready \o <<c, cur>>, ForkRax(c), call, data')
  BY DEF VFork
<1> DEFINE st == ForkStatus(c)
           rq == ready \o <<c, cur>>
<1>2. Up /\ sems' = sems
  BY DEF VFork, User
<1>3. /\ cur \in Pids /\ ready \in Seq(Pids) /\ call \in [Pids -> Calls]
      /\ status \in [Pids -> Statuses] /\ data \in [Pids -> Pids \cup {NoPid}]
      /\ SeatedBut(cur, status, ready, data) /\ ~InQueue(ready, cur)
      /\ KeptWaiting(status, call, data, sems)
  BY <1>2, CurrentSeat
<1>4. c # cur /\ ~InQueue(ready, c)
  <2>1. nextPid \in Nat /\ c = nextPid /\ ~(c < c)
    BY <1>1, NextPidType, PidFacts DEF IInv, TakePid
  <2>2. QED
    BY <2>1 DEF IInv, OnlySeenPids, InQueue
<1>5. /\ st \in [Pids -> Statuses] /\ rq \in Seq(Pids)
      /\ st[c] = "Ready" /\ st[cur] = "Ready"
      /\ \A p \in Pids \ {c, cur} : st[p] = status[p]
      /\ \A p \in Pids \ {c} : data'[p] = data[p]
  <2>1. st \in [Pids -> Statuses] /\ st[c] = "Ready" /\ st[cur] = "Ready"
        /\ \A p \in Pids \ {c, cur} : st[p] = status[p]
    BY <1>3 DEF ForkStatus, Statuses
  <2>2. rq \in Seq(Pids)
    BY <1>3
  <2>3. \A p \in Pids \ {c} : data'[p] = data[p]
    BY <1>1, <1>3 DEF ForkData
  <2>4. QED
    BY <2>1, <2>2, <2>3
<1>6. \A p \in Pids : InQueue(<<c, cur>>, p) <=> p \in {c, cur}
  <2>1. DOMAIN <<c, cur>> = {1, 2} /\ <<c, cur>>[1] = c /\ <<c, cur>>[2] = cur
    OBVIOUS
  <2>2. QED
    BY <2>1 DEF InQueue
<1>7. \A p \in Pids : OnceIn(<<c, cur>>, p)
  <2>1. DOMAIN <<c, cur>> = {1, 2} /\ <<c, cur>>[1] = c /\ <<c, cur>>[2] = cur
    OBVIOUS
  <2>2. QED
    BY <1>4, <2>1 DEF OnceIn
<1>8. ASSUME NEW p \in Pids
      PROVE  /\ InQueue(rq, p) <=> InQueue(ready, p) \/ p \in {c, cur}
             /\ OnceIn(ready, p) => OnceIn(rq, p)
  <2>1. <<c, cur>> \in Seq(Pids)
    BY <1>3
  <2>2. ~(InQueue(ready, p) /\ InQueue(<<c, cur>>, p))
    BY <1>3, <1>4, <1>6
  <2>3. QED
    BY <1>3, <1>6, <1>7, <2>1, <2>2, ConcatSeat
<1> HIDE DEF st, rq
<1>9. AllQueued(st, rq, data')
  <2> SUFFICES ASSUME NEW p \in Pids, HasVm(data', p) PROVE QueueSeat(st, rq, p)
    BY DEF AllQueued
  <2>1. CASE p \in {c, cur}
    <3>1. OnceIn(ready, p)
      BY <1>3, <1>4, <2>1 DEF InQueue, OnceIn
    <3>2. QED
      BY <1>5, <1>8, <2>1, <3>1 DEF QueueSeat
  <2>2. CASE p \notin {c, cur}
    BY <1>3, <1>5, <1>8, <2>2 DEF QueueSeat, SeatedBut, HasVm
  <2>3. QED
    BY <2>1, <2>2
<1>10. KeptWaiting(st, call, data', sems)
  <2> SUFFICES ASSUME NEW p \in Pids, HasVm(data', p), st[p] = "Blocked"
               PROVE  /\ call[p] # NoCall
                      /\ ~DropBusySems => \A k \in Keys : call[p] = SemCall(k) =>
                            k \in DOMAIN sems[data'[p]] /\ p \in Waiters(sems[data'[p]][k])
    BY DEF KeptWaiting
  <2>1. p # c /\ status[p] = "Blocked" /\ data'[p] = data[p] /\ HasVm(data, p)
    BY <1>5 DEF HasVm
  <2>2. QED
    BY <1>3, <2>1 DEF KeptWaiting
<1>11. SwitchNext(st, rq, ForkRax(c), call, data') /\ sems = sems'
  BY <1>1, <1>2 DEF st, rq
<1>12. QED
  BY <1>3, <1>5, <1>9, <1>10, <1>11, SwitchSeatStep

(* kill moves the waiters to the ready queue, where they were not.          *)
LEMMA KillSeats ==
    ASSUME IInv, SeatInv, Up, NEW q \in Pids, NEW ret \in Codes, KillProcess(q, ret),
           NEW w \in Ascending(waitq[q])
    PROVE  /\ SeatedBut(cur, StatusAfterKill(q), ready \o w, DataAfterKill(q))
           /\ KeptWaiting(StatusAfterKill(q), call, DataAfterKill(q), sems')
<1> DEFINE st == StatusAfterKill(q)
           dt == DataAfterKill(q)
           rq == ready \o w
<1>1. /\ TypeOK /\ cur \in Pids /\ ready \in Seq(Pids) /\ waitq[q] \in SUBSET Pids
      /\ SeatedBut(cur, status, ready, data)
      /\ HasVm(data, cur) /\ status[cur] \in {"Running", "Ready"}
      /\ KeptWaiting(status, call, data, sems)
  BY CurrentSeat DEF TypeOK
<1>2. w \in Seq(Pids)
  BY <1>1, AscendingType
<1>3. \A p \in Pids : HasVm(dt, p) => p # q /\ HasVm(data, p) /\ dt[p] = data[p]
  BY <1>1 DEF DataAfterKill, HasVm, TypeOK
<1>4. \A p \in Pids : /\ p \in waitq[q] => st[p] = "Ready"
                      /\ p \notin waitq[q] /\ p # q => st[p] = status[p]
  BY DEF StatusAfterKill
<1>5. \A p \in Pids : OnceIn(w, p) /\ (InQueue(w, p) <=> p \in waitq[q])
  BY <1>1, AscendingSeat
<1>6. \A p \in Pids :
         /\ InQueue(rq, p) <=> InQueue(ready, p) \/ p \in waitq[q]
         /\ OnceIn(ready, p) /\ ~(InQueue(ready, p) /\ p \in waitq[q]) => OnceIn(rq, p)
  <2> TAKE p \in Pids
  <2>1. /\ InQueue(rq, p) <=> InQueue(ready, p) \/ InQueue(w, p)
        /\ OnceIn(ready, p) /\ OnceIn(w, p) /\ ~(InQueue(ready, p) /\ InQueue(w, p))
              => OnceIn(rq, p)
    BY <1>1, <1>2, ConcatSeat
  <2>2. QED
    BY <1>5, <2>1
<1>7. \A p \in Pids : HasVm(data, p) /\ p \in waitq[q] => status[p] = "Blocked"
  BY DEF IInv, WaitersExact
<1>8. sems' = SemsAfterKill(q) /\ dt = DataAfterKill(q)
  BY DEF KillProcess
<1>9. \A p \in Pids : HasVm(dt, p) => sems'[dt[p]] = sems[dt[p]]
  <2> SUFFICES ASSUME NEW p \in Pids, HasVm(dt, p) PROVE sems'[dt[p]] = sems[dt[p]]
    OBVIOUS
  <2>1. dt[p] \in Pids
    BY <1>1, <1>3 DEF TypeOK, HasVm
  <2>2. QED
    BY <1>8, <2>1 DEF SemsAfterKill
<1> HIDE DEF st, dt, rq
<1>10. SeatedBut(cur, st, rq, dt)
  <2> SUFFICES ASSUME NEW p \in Pids, HasVm(dt, p)
               PROVE  /\ p = cur => ~InQueue(rq, p)
                      /\ p # cur => QueueSeat(st, rq, p)
    BY DEF SeatedBut
  <2>1. p # q /\ HasVm(data, p)
    BY <1>3
  <2>2. CASE p = cur
    BY <1>1, <1>6, <1>7, <2>1, <2>2 DEF SeatedBut
  <2>3. CASE p # cur
    <3>1. QueueSeat(status, ready, p)
      BY <1>1, <2>1, <2>3 DEF SeatedBut
    <3>2. CASE p \in waitq[q]
      BY <1>4, <1>6, <1>7, <2>1, <2>3, <3>1, <3>2 DEF QueueSeat
    <3>3. CASE p \notin waitq[q]
      BY <1>4, <1>6, <2>1, <2>3, <3>1, <3>3 DEF QueueSeat
    <3>4. QED
      BY <3>2, <3>3
  <2>4. QED
    BY <2>2, <2>3
<1>11. KeptWaiting(st, call, dt, sems')
  <2> SUFFICES ASSUME NEW p \in Pids, HasVm(dt, p), st[p] = "Blocked"
               PROVE  /\ call[p] # NoCall
                      /\ ~DropBusySems => \A k \in Keys : call[p] = SemCall(k) =>
                            k \in DOMAIN sems'[dt[p]] /\ p \in Waiters(sems'[dt[p]][k])
    BY DEF KeptWaiting
  <2>1. p # q /\ HasVm(data, p) /\ dt[p] = data[p] /\ status[p] = "Blocked"
    BY <1>3, <1>4
  <2>2. sems'[dt[p]] = sems[data[p]]
    BY <1>9, <2>1
  <2>3. QED
    BY <1>1, <2>1, <2>2 DEF KeptWaiting
<1>12. QED
  BY <1>10, <1>11 DEF st, dt, rq

LEMMA ExitWithSeat ==
    ASSUME NEW ret \in Codes PROVE IInv /\ SeatInv /\ ExitWith(ret) => SeatInv'
<1> SUFFICES ASSUME IInv, SeatInv, ExitWith(ret) PROVE SeatInv'
  OBVIOUS
<1>1. Up /\ KillProcess(cur, ret)
  BY DEF ExitWith, User
<1>2. PICK w \in Ascending(waitq[cur]) :
         SwitchNext(StatusAfterKill(cur), ready \o w, RaxAfterKill(cur, ret),
                    call, DataAfterKill(cur))
  BY DEF ExitWith
<1>3. TypeOK /\ cur \in Pids /\ call \in [Pids -> Calls]
  BY <1>1, CurrentSeat
<1>4. StatusAfterKill(cur) \in [Pids -> Statuses] /\ ready \o w \in Seq(Pids)
  BY <1>1, <1>3, KillTypes, KillKeepsSeen
<1>5. /\ SeatedBut(cur, StatusAfterKill(cur), ready \o w, DataAfterKill(cur))
      /\ KeptWaiting(StatusAfterKill(cur), call, DataAfterKill(cur), sems')
  BY <1>1, <1>3, KillSeats
<1>6. ~HasVm(DataAfterKill(cur), cur)
  BY <1>3 DEF DataAfterKill, HasVm, TypeOK
<1>7. AllQueued(StatusAfterKill(cur), ready \o w, DataAfterKill(cur))
  BY <1>5, <1>6 DEF AllQueued, SeatedBut
<1>8. DataAfterKill(cur) = data'
  BY <1>1 DEF KillProcess
<1>9. QED
  BY <1>2, <1>3, <1>4, <1>5, <1>7, <1>8, SwitchSeatStep

LEMMA KillOtherSeat == IInv /\ SeatInv /\ KillOther => SeatInv'
<1> SUFFICES ASSUME IInv, SeatInv, KillOther PROVE SeatInv'
  OBVIOUS
<1>1. PICK q \in (KillTargets \cap Pids) \ {cur} :
         /\ KillProcess(q, KillCode)
         /\ \E w \in Ascending(waitq[q]) : ready' = ready \o w
         /\ status' = StatusAfterKill(q)
  BY DEF KillOther
<1>2. PICK w \in Ascending(waitq[q]) : ready' = ready \o w
  BY <1>1
<1>3. Up /\ UNCHANGED <<call, cur, mode>> /\ q \in Pids /\ KillCode \in Codes
  BY DEF KillOther, User, Codes
<1>4. /\ SeatedBut(cur, StatusAfterKill(q), ready \o w, DataAfterKill(q))
      /\ KeptWaiting(StatusAfterKill(q), call, DataAfterKill(q), sems')
  BY <1>1, <1>3, KillSeats
<1>5. data' = DataAfterKill(q)
  BY <1>1 DEF KillProcess
<1>6. SeatedBut(cur', status', ready', data') /\ KeptWaiting(status', call', data', sems')
  BY <1>1, <1>2, <1>3, <1>4, <1>5
<1>7. QED
  BY <1>6 DEF SeatInv, SeatedBut, KeptWaiting, QueueSeat, InQueue, OnceIn, HasVm

(* A process that blocks leaves the processor for a queue of waiters.       *)
LEMMA BlockInSeat ==
    ASSUME IInv, SeatInv, Up, NEW c \in Calls, BlockIn(c), data' = data,
           NEW sm, sm = sems',
           KeptWaiting(Saved(cur, "Blocked"), [call EXCEPT ![cur] = c], data, sm)
    PROVE  SeatInv'
<1> DEFINE st == Saved(cur, "Blocked")
           cl == [call EXCEPT ![cur] = c]
<1>1. /\ cur \in Pids /\ ready \in Seq(Pids)
      /\ status \in [Pids -> Statuses] /\ call \in [Pids -> Calls]
      /\ SeatedBut(cur, status, ready, data) /\ ~InQueue(ready, cur)
  BY CurrentSeat
<1>2. /\ st \in [Pids -> Statuses] /\ cl \in [Pids -> Calls]
      /\ st[cur] = "Blocked" /\ \A p \in Pids \ {cur} : st[p] = status[p]
  BY <1>1 DEF Saved, Statuses
<1>3. SwitchNext(st, ready, [rax EXCEPT ![cur] = NoRet], cl, data) /\ KeptWaiting(st, cl, data, sm)
  BY DEF BlockIn
<1> HIDE DEF st, cl
<1>4. AllQueued(st, ready, data)
  <2> SUFFICES ASSUME NEW p \in Pids, HasVm(data, p) PROVE QueueSeat(st, ready, p)
    BY DEF AllQueued
  <2>1. CASE p = cur
    <3>1. OnceIn(ready, p)
      BY <1>1, <2>1 DEF InQueue, OnceIn
    <3>2. QED
      BY <1>1, <1>2, <2>1, <3>1 DEF QueueSeat
  <2>2. CASE p # cur
    BY <1>1, <1>2, <2>2 DEF QueueSeat, SeatedBut
  <2>3. QED
    BY <2>1, <2>2
<1>5. data = data'
  OBVIOUS
<1>6. QED
  BY <1>1, <1>2, <1>3, <1>4, <1>5, SwitchSeatStep

LEMMA WaitPidSeat == IInv /\ SeatInv /\ WaitPid => SeatInv'
<1> SUFFICES ASSUME IInv, SeatInv, WaitPid PROVE SeatInv'
  OBVIOUS
<1>1. PICK q \in Pids : BlockIn(WaitCall(q))
  BY DEF WaitPid
<1>2. Up /\ UNCHANGED <<data, sems>> /\ WaitCall(q) \in Calls
  BY CallTypes DEF WaitPid, User
<1>3. /\ cur \in Pids /\ status \in [Pids -> Statuses] /\ call \in [Pids -> Calls]
      /\ KeptWaiting(status, call, data, sems)
  BY <1>2, CurrentSeat
<1>4. KeptWaiting(Saved(cur, "Blocked"), [call EXCEPT ![cur] = WaitCall(q)], data, sems)
  BY <1>3, CallsDiffer DEF KeptWaiting, Saved
<1>5. sems = sems'
  BY <1>2
<1>6. QED
  BY <1>1, <1>2, <1>4, <1>5, BlockInSeat

LEMMA SemBlockSeat == IInv /\ SeatInv /\ SemBlock => SeatInv'
<1> SUFFICES ASSUME IInv, SeatInv, SemBlock PROVE SeatInv'
  OBVIOUS
<1>1. PICK k \in Keys : /\ InSet(MySems, k) /\ WouldBlock(MySems[k])
                        /\ SetMySems([MySems EXCEPT ![k] = Enqueue(@, cur)])
                        /\ BlockIn(SemCall(k))
  BY DEF SemBlock
<1> DEFINE s == Enqueue(MySems[k], cur)
<1>2. User /\ Up /\ data' = data /\ SemCall(k) \in Calls
  BY CallTypes DEF SemBlock, User
<1>3. /\ TypeOK /\ cur \in Pids /\ status \in [Pids -> Statuses] /\ call \in [Pids -> Calls]
      /\ data \in [Pids -> Pids \cup {NoPid}]
      /\ KeptWaiting(status, call, data, sems) /\ data[cur] \in Pids /\ status[cur] # "Blocked"
      /\ HasVm(data, cur)
  BY <1>2, CurrentSeat, CurrentFamily
<1>4. /\ MySems[k] \in Semaphores(Pids)
      /\ SemSound(MySems[k], data[cur], k, status, call, data)
      /\ \A p \in Waiters(MySems[k]) : p \in Pids /\ p < nextPid
  BY <1>1, <1>2, MySemsSound DEF InSet
<1>5. s \in Semaphores(Pids) /\ Waiters(s) = Waiters(MySems[k]) \cup {cur}
  <2>1. s \in Semaphores(Pids)
    BY <1>3, <1>4, SemaphoreStepType
  <2>2. cur \notin Waiters(MySems[k])
    BY <1>2, <1>3, <1>4 DEF SemSound
  <2>3. QED
    BY <1>3, <1>4, <2>1, <2>2, EnqueueFacts DEF SemSound
<1>6. SetMySems([MySems EXCEPT ![k] = s]) /\ \A p \in Waiters(s) : p < nextPid
  BY <1>1, <1>4, <1>5 DEF IInv
<1> HIDE DEF s
<1>7. \A g \in Pids : /\ DOMAIN sems'[g] = DOMAIN sems[g]
                      /\ \A j \in DOMAIN sems[g] :
                            sems'[g][j] = IF g = data[cur] /\ j = k THEN s ELSE sems[g][j]
  BY <1>1, <1>2, <1>5, <1>6, MySemsUpdate
<1>8. \A g \in Pids : \A j \in DOMAIN sems[g] : Waiters(sems[g][j]) \subseteq Waiters(sems'[g][j])
  BY <1>5, <1>7 DEF MySems
<1>9. k \in DOMAIN sems'[data[cur]] /\ cur \in Waiters(sems'[data[cur]][k])
  BY <1>1, <1>3, <1>5, <1>7 DEF InSet, MySems
<1>10. KeptWaiting(Saved(cur, "Blocked"), [call EXCEPT ![cur] = SemCall(k)], data, sems')
  <2> DEFINE st == Saved(cur, "Blocked")
             cl == [call EXCEPT ![cur] = SemCall(k)]
  <2>1. cl[cur] = SemCall(k) /\ \A p \in Pids \ {cur} : st[p] = status[p] /\ cl[p] = call[p]
    BY <1>3 DEF Saved
  <2> HIDE DEF st, cl
  <2>2. SUFFICES ASSUME NEW p \in Pids, HasVm(data, p), st[p] = "Blocked"
                 PROVE  /\ cl[p] # NoCall
                        /\ ~DropBusySems => \A j \in Keys : cl[p] = SemCall(j) =>
                              j \in DOMAIN sems'[data[p]] /\ p \in Waiters(sems'[data[p]][j])
    BY DEF KeptWaiting, st, cl
  <2>3. CASE p = cur
    BY <1>9, <2>1, <2>3, CallsDiffer, CallsInjective
  <2>4. CASE p # cur
    <3>1. status[p] = "Blocked" /\ cl[p] = call[p] /\ data[p] \in Pids
      BY <1>3, <2>1, <2>2, <2>4 DEF HasVm
    <3>2. /\ call[p] # NoCall
          /\ ~DropBusySems => \A j \in Keys : call[p] = SemCall(j) =>
                j \in DOMAIN sems[data[p]] /\ p \in Waiters(sems[data[p]][j])
      BY <1>3, <2>2, <3>1 DEF KeptWaiting
    <3>3. QED
      BY <1>7, <1>8, <3>1, <3>2
  <2>5. QED
    BY <2>3, <2>4
<1>11. QED
  BY <1>1, <1>2, <1>10, BlockInSeat

(* The semaphore calls that move nobody.                                    *)
LEMMA QuietSeat ==
    ASSUME IInv, SeatInv, User, NEW set, SetMySems(set),
           UNCHANGED <<procVars, ready, waitq, cur, nextPid, mode>>,
           \A k \in DOMAIN MySems : \A p \in Waiters(MySems[k]) :
               ~DropBusySems => k \in DOMAIN set /\ p \in Waiters(set[k])
    PROVE  SeatInv'
<1>1. Up /\ UNCHANGED <<status, call, data, ready, cur>>
  BY DEF User, procVars
<1>2. /\ TypeOK /\ SeatedBut(cur, status, ready, data)
      /\ data \in [Pids -> Pids \cup {NoPid}]
      /\ KeptWaiting(status, call, data, sems)
  BY <1>1, CurrentSeat
<1>3. \A g \in Pids : sems'[g] = IF g = data[cur] THEN set ELSE sems[g]
  BY <1>2 DEF TypeOK, SetMySems
<1>4. KeptWaiting(status, call, data, sems')
  <2> SUFFICES ASSUME NEW p \in Pids, HasVm(data, p), status[p] = "Blocked"
               PROVE  /\ call[p] # NoCall
                      /\ ~DropBusySems => \A j \in Keys : call[p] = SemCall(j) =>
                            j \in DOMAIN sems'[data[p]] /\ p \in Waiters(sems'[data[p]][j])
    BY DEF KeptWaiting
  <2>1. /\ call[p] # NoCall
        /\ ~DropBusySems => \A j \in Keys : call[p] = SemCall(j) =>
              j \in DOMAIN sems[data[p]] /\ p \in Waiters(sems[data[p]][j])
    BY <1>2 DEF KeptWaiting
  <2>2. data[p] \in Pids
    BY <1>2 DEF HasVm
  <2>3. QED
    BY <1>3, <2>1, <2>2 DEF MySems
<1>5. SeatedBut(cur', status', ready', data') /\ KeptWaiting(status', call', data', sems')
  BY <1>1, <1>2, <1>4
<1>6. QED
  BY <1>5 DEF SeatInv, SeatedBut, KeptWaiting, QueueSeat, InQueue, OnceIn, HasVm

LEMMA SemNewSeat == IInv /\ SeatInv /\ SemNew => SeatInv'
<1> SUFFICES ASSUME IInv, SeatInv, SemNew PROVE SeatInv'
  OBVIOUS
<1>1. PICK k \in Keys, v \in SemValues : MayDrop(k) /\ SetMySems(Insert(MySems, k, v))
  BY DEF SemNew
<1>2. User /\ UNCHANGED <<procVars, ready, waitq, cur, nextPid, mode>>
  BY DEF SemNew
<1>3. \A j \in DOMAIN MySems : \A p \in Waiters(MySems[j]) : ~DropBusySems =>
         j \in DOMAIN Insert(MySems, k, v) /\ p \in Waiters(Insert(MySems, k, v)[j])
  <2> SUFFICES ASSUME NEW j \in DOMAIN MySems, NEW p \in Waiters(MySems[j]), ~DropBusySems
               PROVE  j \in DOMAIN Insert(MySems, k, v) /\ p \in Waiters(Insert(MySems, k, v)[j])
    OBVIOUS
  <2>1. HasWaiters(MySems[j])
    <3>1. PICK i \in DOMAIN MySems[j].queue : TRUE
      BY DEF Waiters
    <3>2. QED
      BY <3>1 DEF HasWaiters
  <2>2. j # k
    BY <1>1, <2>1 DEF MayDrop, InSet
  <2>3. QED
    BY <2>2 DEF Insert
<1>4. QED
  BY <1>1, <1>2, <1>3, QuietSeat

LEMMA SemRemoveSeat == IInv /\ SeatInv /\ SemRemove => SeatInv'
<1> SUFFICES ASSUME IInv, SeatInv, SemRemove PROVE SeatInv'
  OBVIOUS
<1>1. PICK k \in Keys : MayDrop(k) /\ SetMySems(Discard(MySems, k))
  BY DEF SemRemove
<1>2. User /\ UNCHANGED <<procVars, ready, waitq, cur, nextPid, mode>>
  BY DEF SemRemove
<1>3. \A j \in DOMAIN MySems : \A p \in Waiters(MySems[j]) : ~DropBusySems =>
         j \in DOMAIN Discard(MySems, k) /\ p \in Waiters(Discard(MySems, k)[j])
  <2> SUFFICES ASSUME NEW j \in DOMAIN MySems, NEW p \in Waiters(MySems[j]), ~DropBusySems
               PROVE  j \in DOMAIN Discard(MySems, k) /\ p \in Waiters(Discard(MySems, k)[j])
    OBVIOUS
  <2>1. HasWaiters(MySems[j])
    <3>1. PICK i \in DOMAIN MySems[j].queue : TRUE
      BY DEF Waiters
    <3>2. QED
      BY <3>1 DEF HasWaiters
  <2>2. j # k
    BY <1>1, <2>1 DEF MayDrop, InSet
  <2>3. QED
    BY <2>2 DEF Discard
<1>4. QED
  BY <1>1, <1>2, <1>3, QuietSeat

(* A token taken or banked leaves the queues alone.                         *)
LEMMA CountSeat ==
    ASSUME IInv, SeatInv, User, NEW k, InSet(MySems, k), NEW s, s.queue = MySems[k].queue,
           SetMySems([MySems EXCEPT ![k] = s]),
           UNCHANGED <<procVars, ready, waitq, cur, nextPid, mode>>
    PROVE  SeatInv'
<1>1. \A j \in DOMAIN MySems : \A p \in Waiters(MySems[j]) : ~DropBusySems =>
         /\ j \in DOMAIN [MySems EXCEPT ![k] = s]
         /\ p \in Waiters([MySems EXCEPT ![k] = s][j])
  BY DEF Waiters, InSet
<1>2. QED
  BY <1>1, QuietSeat

LEMMA SemTakeGiveSeat == IInv /\ SeatInv /\ (SemTake \/ SemGive) => SeatInv'
<1> SUFFICES ASSUME IInv, SeatInv, SemTake \/ SemGive PROVE SeatInv'
  OBVIOUS
<1>1. User /\ UNCHANGED <<procVars, ready, waitq, cur, nextPid, mode>>
  BY DEF SemTake, SemGive
<1>2. PICK k \in Keys : /\ InSet(MySems, k)
                        /\ \/ SetMySems([MySems EXCEPT ![k] = Take(@)])
                           \/ SetMySems([MySems EXCEPT ![k] = Give(@)])
  BY DEF SemTake, SemGive
<1>3. MySems[k] \in Semaphores(Pids)
  BY <1>1, <1>2, MySemsSound DEF InSet
<1>4. Take(MySems[k]).queue = MySems[k].queue /\ Give(MySems[k]).queue = MySems[k].queue
  BY <1>3 DEF Take, Give, Semaphores
<1>5. CASE SetMySems([MySems EXCEPT ![k] = Take(@)])
  BY <1>1, <1>2, <1>4, <1>5, CountSeat
<1>6. CASE SetMySems([MySems EXCEPT ![k] = Give(@)])
  BY <1>1, <1>2, <1>4, <1>6, CountSeat
<1>7. QED
  BY <1>2, <1>5, <1>6

(* A signal moves the first waiter to the ready queue.                      *)
LEMMA SemWakeSeat == IInv /\ SeatInv /\ SemWake => SeatInv'
<1> SUFFICES ASSUME IInv, SeatInv, SemWake PROVE SeatInv'
  OBVIOUS
<1>1. PICK k \in Keys : /\ InSet(MySems, k) /\ HasWaiters(MySems[k])
                        /\ SetMySems([MySems EXCEPT ![k] = Dequeue(@)])
                        /\ status' = [status EXCEPT ![FirstWaiter(MySems[k])] = "Ready"]
                        /\ ready'  = Append(ready, FirstWaiter(MySems[k]))
  BY DEF SemWake
<1>2. User /\ Up /\ UNCHANGED <<data, call, cur, nextPid>>
  BY DEF SemWake, User
<1>3. /\ TypeOK /\ cur \in Pids /\ ready \in Seq(Pids) /\ status \in [Pids -> Statuses]
      /\ data \in [Pids -> Pids \cup {NoPid}] /\ data[cur] \in Pids
      /\ SeatedBut(cur, status, ready, data) /\ status[cur] \in {"Running", "Ready"}
      /\ KeptWaiting(status, call, data, sems) /\ HasVm(data, cur)
  BY <1>2, CurrentSeat, CurrentFamily
<1>4. /\ MySems[k] \in Semaphores(Pids)
      /\ SemSound(MySems[k], data[cur], k, status, call, data)
      /\ \A p \in Waiters(MySems[k]) : p \in Pids /\ p < nextPid
  BY <1>1, <1>2, MySemsSound DEF InSet
<1>5. PICK w \in Pids : w = FirstWaiter(MySems[k])
  BY <1>1, <1>3, <1>4, SemaphoreStepType
<1>6. PICK s \in Semaphores(Pids) : s = Dequeue(MySems[k])
  BY <1>1, <1>3, <1>4, SemaphoreStepType
<1>7. /\ Waiters(s) \subseteq Waiters(MySems[k]) /\ w \in Waiters(MySems[k])
      /\ \A p \in Waiters(MySems[k]) : p # w => p \in Waiters(s)
  <2>1. Waiters(s) \subseteq Waiters(MySems[k]) /\ w \in Waiters(MySems[k])
    BY <1>1, <1>4, <1>5, <1>6, DequeueFacts DEF SemSound
  <2>2. \A p \in Waiters(MySems[k]) : p # w => p \in Waiters(s)
    BY <1>1, <1>4, <1>5, <1>6, DequeueKeeps
  <2>3. QED
    BY <2>1, <2>2
<1>8. HasVm(data, w) => status[w] = "Blocked"
  BY <1>4, <1>7 DEF SemSound
<1>9. /\ status'[w] = "Ready" /\ \A p \in Pids \ {w} : status'[p] = status[p]
      /\ ready' = Append(ready, w) /\ SetMySems([MySems EXCEPT ![k] = s])
  BY <1>1, <1>3, <1>5, <1>6
<1>10. \A g \in Pids : /\ DOMAIN sems'[g] = DOMAIN sems[g]
                       /\ \A j \in DOMAIN sems[g] :
                             sems'[g][j] = IF g = data[cur] /\ j = k THEN s ELSE sems[g][j]
  <2>1. \A p \in Waiters(s) : p < nextPid
    BY <1>4, <1>7
  <2>2. QED
    BY <1>1, <1>2, <1>9, <2>1, MySemsUpdate, SMTT(30)
<1>11. \A p \in Pids : /\ InQueue(ready', p) <=> InQueue(ready, p) \/ p = w
                       /\ OnceIn(ready, p) /\ (p = w => ~InQueue(ready, p)) => OnceIn(ready', p)
  BY <1>3, <1>9, PushSeat
<1>12. SeatedBut(cur, status', ready', data)
  <2> SUFFICES ASSUME NEW p \in Pids, HasVm(data, p)
               PROVE  /\ p = cur => ~InQueue(ready', p)
                      /\ p # cur => QueueSeat(status', ready', p)
    BY DEF SeatedBut
  <2>1. CASE p = cur
    BY <1>3, <1>8, <1>11, <2>1 DEF SeatedBut
  <2>2. CASE p # cur
    <3>1. QueueSeat(status, ready, p)
      BY <1>3, <2>2 DEF SeatedBut
    <3>2. CASE p = w
      BY <1>8, <1>9, <1>11, <2>2, <3>1, <3>2 DEF QueueSeat
    <3>3. CASE p # w
      BY <1>9, <1>11, <2>2, <3>1, <3>3 DEF QueueSeat
    <3>4. QED
      BY <3>2, <3>3
  <2>3. QED
    BY <2>1, <2>2
<1>13. KeptWaiting(status', call, data, sems')
  <2> SUFFICES ASSUME NEW p \in Pids, HasVm(data, p), status'[p] = "Blocked"
               PROVE  /\ call[p] # NoCall
                      /\ ~DropBusySems => \A j \in Keys : call[p] = SemCall(j) =>
                            j \in DOMAIN sems'[data[p]] /\ p \in Waiters(sems'[data[p]][j])
    BY DEF KeptWaiting
  <2>1. p # w /\ status[p] = "Blocked" /\ data[p] \in Pids
    BY <1>3, <1>9 DEF HasVm
  <2>2. /\ call[p] # NoCall
        /\ ~DropBusySems => \A j \in Keys : call[p] = SemCall(j) =>
              j \in DOMAIN sems[data[p]] /\ p \in Waiters(sems[data[p]][j])
    BY <1>3, <2>1 DEF KeptWaiting
  <2>3. QED
    BY <1>7, <1>10, <2>1, <2>2 DEF MySems
<1>14. SeatedBut(cur', status', ready', data') /\ KeptWaiting(status', call', data', sems')
  BY <1>2, <1>12, <1>13
<1>15. QED
  BY <1>14 DEF SeatInv, SeatedBut, KeptWaiting, QueueSeat, InQueue, OnceIn, HasVm

(* Every step seats everybody.                                              *)
LEMMA NextSeat == IInv /\ SeatInv /\ [Next]_vars => SeatInv'
<1> SUFFICES ASSUME IInv, SeatInv, [Next]_vars PROVE SeatInv'
  OBVIOUS
<1>1. CASE Exit \/ KillSelf
  <2>1. PICK ret \in Codes : ExitWith(ret)
    BY <1>1 DEF Exit, KillSelf, Codes
  <2>2. QED
    BY <2>1, ExitWithSeat
<1>2. CASE Shutdown \/ SpawnPanics
  BY <1>2 DEF Shutdown, SpawnPanics, SeatInv, Up
<1>3. CASE UNCHANGED vars
  <2>1. UNCHANGED <<status, data, call, sems, ready, cur, mode>>
    BY <1>3 DEF vars, procVars
  <2>2. QED
    BY <2>1 DEF SeatInv, SeatedBut, KeptWaiting, QueueSeat, InQueue, OnceIn, HasVm, Up, Astray
<1>4. QED
  BY <1>1, <1>2, <1>3, ClockSwitchSeat, SpawnSeat, VForkSeat, KillOtherSeat, WaitPidSeat,
     SemNewSeat, SemRemoveSeat, SemTakeGiveSeat, SemBlockSeat, SemWakeSeat DEF Next

(* So every reachable state has this invariant too.                         *)
THEOREM SeatInvariant == Spec => []SeatInv
<1>1. Init => SeatInv
  <2> SUFFICES ASSUME Init PROVE SeatInv
    OBVIOUS
  <2>1. /\ \A p \in Pids : HasVm(data, p) => p = cur
        /\ \A p \in Pids : HasVm(data, p) => status[p] = "Running"
        /\ \A p \in Pids : ~InQueue(ready, p)
    BY DEF Init, HasVm, InQueue
  <2>2. QED
    BY <2>1 DEF SeatInv, SeatedBut, KeptWaiting
<1>2. IInv /\ SeatInv /\ [Next]_vars => SeatInv'
  BY NextSeat
<1>3. QED
  BY <1>1, <1>2, Invariant, PTL DEF Spec

(* A set without two different members has at most one.                     *)
LEMMA AtMostOne ==
    ASSUME NEW S, \A x, y \in S : x = y
    PROVE  Cardinality(S) <= 1
<1>1. CASE S = {}
  BY <1>1, FS_EmptySet
<1>2. CASE S # {}
  <2>1. PICK x \in S : TRUE
    BY <1>2
  <2>2. S = {x}
    BY <2>1
  <2>3. QED
    BY <2>2, FS_Singleton
<1>3. QED
  BY <1>1, <1>2

(* Where the seats of a living process are: it is on the processor, or in   *)
(* the ready queue, or Blocked in one call and so in one queue of waiters.  *)
LEMMA SeatKinds ==
    ASSUME IInv, SeatInv, Up, NEW p \in Pids, HasVm(data, p)
    PROVE  /\ p = cur => ReadySeats(p) = {} /\ status[p] # "Blocked"
           /\ p # cur => (status[p] = "Blocked" <=> ReadySeats(p) = {})
           /\ \A x, y \in ReadySeats(p) : x = y
           /\ status[p] # "Blocked" => WaitSeats(p) = {} /\ SemSeats(p) = {}
           /\ WaitSeats(p) # {} => SemSeats(p) = {}
           /\ \A x, y \in WaitSeats(p) : x = y
           /\ \A x, y \in SemSeats(p) : x = y
           /\ status[p] = "Blocked" /\ ~DropBusySems => WaitSeats(p) # {} \/ SemSeats(p) # {}
<1>1. /\ TypeOK /\ SeatedBut(cur, status, ready, data) /\ status[cur] \in {"Running", "Ready"}
      /\ KeptWaiting(status, call, data, sems)
  BY CurrentSeat
<1>2. ReadySeats(p) = {} <=> ~InQueue(ready, p)
  BY DEF ReadySeats, InQueue
<1>3. p = cur => ReadySeats(p) = {} /\ status[p] # "Blocked"
  BY <1>1, <1>2 DEF SeatedBut
<1>4. p # cur => (status[p] = "Blocked" <=> ReadySeats(p) = {})
  BY <1>1, <1>2 DEF SeatedBut, QueueSeat
<1>5. \A x, y \in ReadySeats(p) : x = y
  <2>1. OnceIn(ready, p)
    BY <1>1 DEF SeatedBut, QueueSeat, OnceIn, InQueue
  <2>2. QED
    BY <2>1 DEF ReadySeats, OnceIn
<1>6. \A q \in Pids : p \in waitq[q] <=> status[p] = "Blocked" /\ call[p] = WaitCall(q)
  BY DEF IInv, WaitersExact
<1>7. \A x \in WaitSeats(p) :
         \E q \in Pids : x = <<"wait", q, 0, 0>> /\ status[p] = "Blocked" /\ call[p] = WaitCall(q)
  BY <1>6 DEF WaitSeats
<1>8. \A x \in SemSeats(p) :
         \E g \in Pids : \E k \in DOMAIN sems[g] : \E i \in DOMAIN sems[g][k].queue :
            /\ x = <<"sem", g, k, i>> /\ sems[g][k].queue[i] = p
            /\ data[p] = g /\ status[p] = "Blocked" /\ call[p] = SemCall(k)
  <2> SUFFICES ASSUME NEW x \in SemSeats(p)
               PROVE  \E g \in Pids : \E k \in DOMAIN sems[g] :
                         \E i \in DOMAIN sems[g][k].queue :
                            /\ x = <<"sem", g, k, i>> /\ sems[g][k].queue[i] = p
                            /\ data[p] = g /\ status[p] = "Blocked" /\ call[p] = SemCall(k)
    OBVIOUS
  <2>1. PICK g \in Pids : \E k \in DOMAIN sems[g] :
           x \in {<<"sem", g, k, i>> :
                     i \in {j \in DOMAIN sems[g][k].queue : sems[g][k].queue[j] = p}}
    BY DEF SemSeats
  <2>2. PICK k \in DOMAIN sems[g] :
           x \in {<<"sem", g, k, i>> :
                     i \in {j \in DOMAIN sems[g][k].queue : sems[g][k].queue[j] = p}}
    BY <2>1
  <2>3. PICK i \in DOMAIN sems[g][k].queue : x = <<"sem", g, k, i>> /\ sems[g][k].queue[i] = p
    BY <2>2
  <2>4. SemSound(sems[g][k], g, k, status, call, data) /\ p \in Waiters(sems[g][k])
    BY <2>3 DEF IInv, SemsSound, Waiters
  <2>5. data[p] = g /\ status[p] = "Blocked" /\ call[p] = SemCall(k)
    BY <2>4 DEF SemSound
  <2>6. QED
    BY <2>3, <2>5
<1>9. status[p] # "Blocked" => WaitSeats(p) = {} /\ SemSeats(p) = {}
  BY <1>7, <1>8
<1>10. WaitSeats(p) # {} => SemSeats(p) = {}
  BY <1>7, <1>8, CallsDiffer
<1>11. \A x, y \in WaitSeats(p) : x = y
  <2> SUFFICES ASSUME NEW x \in WaitSeats(p), NEW y \in WaitSeats(p) PROVE x = y
    OBVIOUS
  <2>1. PICK q \in Pids : x = <<"wait", q, 0, 0>> /\ call[p] = WaitCall(q)
    BY <1>7
  <2>2. PICK r \in Pids : y = <<"wait", r, 0, 0>> /\ call[p] = WaitCall(r)
    BY <1>7
  <2>3. QED
    BY <2>1, <2>2, CallsInjective
<1>12. \A x, y \in SemSeats(p) : x = y
  <2> SUFFICES ASSUME NEW x \in SemSeats(p), NEW y \in SemSeats(p) PROVE x = y
    OBVIOUS
  <2>1. PICK g \in Pids : \E k \in DOMAIN sems[g] : \E i \in DOMAIN sems[g][k].queue :
           /\ x = <<"sem", g, k, i>> /\ sems[g][k].queue[i] = p
           /\ data[p] = g /\ call[p] = SemCall(k)
    BY <1>8
  <2>2. PICK k \in DOMAIN sems[g] : \E i \in DOMAIN sems[g][k].queue :
           /\ x = <<"sem", g, k, i>> /\ sems[g][k].queue[i] = p /\ call[p] = SemCall(k)
    BY <2>1
  <2>3. PICK i \in DOMAIN sems[g][k].queue : x = <<"sem", g, k, i>> /\ sems[g][k].queue[i] = p
    BY <2>2
  <2>4. PICK h \in Pids : \E l \in DOMAIN sems[h] : \E j \in DOMAIN sems[h][l].queue :
           /\ y = <<"sem", h, l, j>> /\ sems[h][l].queue[j] = p
           /\ data[p] = h /\ call[p] = SemCall(l)
    BY <1>8
  <2>5. PICK l \in DOMAIN sems[h] : \E j \in DOMAIN sems[h][l].queue :
           /\ y = <<"sem", h, l, j>> /\ sems[h][l].queue[j] = p /\ call[p] = SemCall(l)
    BY <2>4
  <2>6. PICK j \in DOMAIN sems[h][l].queue : y = <<"sem", h, l, j>> /\ sems[h][l].queue[j] = p
    BY <2>5
  <2>7. g = h /\ k = l
    BY <2>1, <2>2, <2>4, <2>5, CallsInjective
  <2>8. SemSound(sems[g][k], g, k, status, call, data)
    BY DEF IInv, SemsSound
  <2>9. i = j
    BY <2>3, <2>6, <2>7, <2>8 DEF SemSound
  <2>10. QED
    BY <2>3, <2>6, <2>7, <2>9
<1>13. ASSUME status[p] = "Blocked", ~DropBusySems
       PROVE  WaitSeats(p) # {} \/ SemSeats(p) # {}
  <2>1. call[p] \in Calls /\ call[p] # NoCall
    BY <1>1, <1>13 DEF TypeOK, KeptWaiting
  <2>2. CASE \E q \in Pids : call[p] = WaitCall(q)
    BY <1>6, <1>13, <2>2 DEF WaitSeats
  <2>3. CASE \E k \in Keys : call[p] = SemCall(k)
    <3>1. PICK k \in Keys : call[p] = SemCall(k)
      BY <2>3
    <3>2. k \in DOMAIN sems[data[p]] /\ p \in Waiters(sems[data[p]][k]) /\ data[p] \in Pids
      BY <1>1, <1>13, <3>1 DEF KeptWaiting, TypeOK, HasVm
    <3>3. PICK i \in DOMAIN sems[data[p]][k].queue : sems[data[p]][k].queue[i] = p
      BY <3>2 DEF Waiters
    <3>4. <<"sem", data[p], k, i>> \in SemSeats(p)
      BY <3>2, <3>3 DEF SemSeats
    <3>5. QED
      BY <3>4
  <2>4. QED
    BY <2>1, <2>2, <2>3 DEF Calls
<1>14. QED
  BY <1>3, <1>4, <1>5, <1>9, <1>10, <1>11, <1>12, <1>13

(* A process that has not been killed sits in at most one of the places     *)
(* that can give it the processor back, and no handler loses it: whatever   *)
(* exits, kills, wake-ups and switches fall together (manager.rs:134-240,   *)
(* sync.rs:43-72).                                                          *)
THEOREM NobodySeatedTwice == Spec => []OneSeat
<1>1. IInv /\ SeatInv => OneSeat
  <2> SUFFICES ASSUME IInv, SeatInv, Up, NEW p \in Pids, HasVm(data, p)
               PROVE  /\ Cardinality(Seats(p)) <= 1
                      /\ ~DropBusySems => Seats(p) # {}
                      /\ status[p] = "Blocked" <=> (cur # p /\ ReadySeats(p) = {})
    BY DEF OneSeat
  <2>1. /\ p = cur => ReadySeats(p) = {} /\ status[p] # "Blocked"
        /\ p # cur => (status[p] = "Blocked" <=> ReadySeats(p) = {})
        /\ \A x, y \in ReadySeats(p) : x = y
        /\ status[p] # "Blocked" => WaitSeats(p) = {} /\ SemSeats(p) = {}
        /\ WaitSeats(p) # {} => SemSeats(p) = {}
        /\ \A x, y \in WaitSeats(p) : x = y
        /\ \A x, y \in SemSeats(p) : x = y
        /\ status[p] = "Blocked" /\ ~DropBusySems => WaitSeats(p) # {} \/ SemSeats(p) # {}
    BY SeatKinds
  <2>2. \A x, y \in Seats(p) : x = y
    <3>1. CASE p = cur
      BY <2>1, <3>1 DEF Seats
    <3>2. CASE p # cur /\ status[p] # "Blocked"
      BY <2>1, <3>2 DEF Seats
    <3>3. CASE p # cur /\ status[p] = "Blocked"
      BY <2>1, <3>3 DEF Seats
    <3>4. QED
      BY <3>1, <3>2, <3>3
  <2>3. Cardinality(Seats(p)) <= 1
    BY <2>2, AtMostOne
  <2>4. ~DropBusySems => Seats(p) # {}
    BY <2>1 DEF Seats
  <2>5. status[p] = "Blocked" <=> (cur # p /\ ReadySeats(p) = {})
    BY <2>1
  <2>6. QED
    BY <2>3, <2>4, <2>5
<1>2. QED
  BY <1>1, Invariant, SeatInvariant, PTL

-----------------------------------------------------------------------------
(* What ProcessManager promises to programs that kill no blocked process:   *)
(* the kernel does not panic, each family sees its semaphores as SemFamily  *)
(* describes them, and, when nobody is killed twice either, ProcessLife is  *)
(* implemented.  (The run pm_panic shows why the blocked are excluded.)     *)
NoBlockedKill == "Blocked" \notin Killable
NoSecondKill  == "Dead" \notin Killable

-----------------------------------------------------------------------------
(* The invariant.  Only living processes wait, so only they are woken.      *)
LiveWaiters(dt, wq, sm) ==
    /\ \A q \in Pids : \A p \in wq[q] : HasVm(dt, p)
    /\ \A g \in Pids : \A k \in DOMAIN sm[g] : \A p \in Waiters(sm[g][k]) : HasVm(dt, p)

(* A process has its address space as long as its status says it lives, and *)
(* an exit code from the moment it says it is dead.                         *)
Living == {"Running", "Ready", "Blocked"}

LivesExact(st, dt, ec) ==
    \A p \in Pids : /\ HasVm(dt, p) <=> st[p] \in Living
                    /\ st[p] = "Dead" <=> ec[p] # NoCode

(* Who leaves wait_pid finds an exit code in its saved rax.                 *)
CallsFit(st, cl, rx, dt) ==
    \A p \in Pids :
        /\ st[p] = "Absent" => cl[p] = NoCall
        /\ HasVm(dt, p) /\ st[p] # "Blocked" =>
              \A q \in Pids : cl[p] = WaitCall(q) => rx[p] \in Codes

LiveInv ==
    /\ NoPanic
    /\ LiveWaiters(data, waitq, sems)
    /\ LivesExact(status, data, exitCode)
    /\ CallsFit(status, call, rax, data)
    /\ call[cur] = NoCall

(* switch_next on such a state restores a living process, whose call ends.  *)
LEMMA SwitchLive ==
    ASSUME NEW st \in [Pids -> Statuses], NEW rq \in Seq(Pids), NEW rx \in [Pids -> RaxValues],
           NEW cl \in [Pids -> Calls], NEW dt, NEW ec, SwitchNext(st, rq, rx, cl, dt),
           cur \in Pids, NoPanic, LivesExact(st, dt, ec), CallsFit(st, cl, rx, dt),
           cl[cur] = NoCall \/ (st[cur] # "Ready" /\ Runnable(st, rq) # {})
    PROVE  /\ NoPanic' /\ LivesExact(status', dt, ec) /\ CallsFit(status', call', rax', dt)
           /\ call'[cur'] = NoCall
<1> DEFINE Goal == /\ NoPanic' /\ LivesExact(status', dt, ec)
                   /\ CallsFit(status', call', rax', dt) /\ call'[cur'] = NoCall
<1>1. CASE KeepCurrent(st, rx, cl) /\ cl[cur] = NoCall
  BY <1>1 DEF KeepCurrent, NoPanic
<1>2. ASSUME NEW n \in Runnable(st, rq), Restore(rq[n], st, rx, cl)
      PROVE  Goal
  <2>1. PICK p \in Pids : p = rq[n]
    BY DEF Runnable
  <2>2. st[p] = "Ready"
    BY <2>1 DEF Runnable
  <2>3. /\ cur' = p /\ mode' = mode
        /\ \A t \in Pids : /\ status'[t] = IF t = p THEN "Running" ELSE st[t]
                           /\ call'[t] = IF t = p THEN NoCall ELSE cl[t]
                           /\ t # p => rax'[t] = rx[t]
    BY <1>2, <2>1 DEF Restore
  <2>4. LivesExact(status', dt, ec)
    BY <2>2, <2>3 DEF LivesExact, Living
  <2>5. CallsFit(status', call', rax', dt)
    BY <2>2, <2>3, CallsDiffer DEF CallsFit
  <2>6. QED
    BY <2>3, <2>4, <2>5 DEF NoPanic
<1>3. CASE Runnable(st, rq) = {} /\ KeepCurrent(st, rx, cl)
  BY <1>1, <1>3
<1>4. ASSUME NEW n \in Runnable(st, rq),
             \/ rq[n] = cur /\ KeepCurrent(st, rx, cl)
             \/ rq[n] # cur /\ HasVm(dt, rq[n]) /\ Restore(rq[n], st, rx, cl)
             \/ rq[n] # cur /\ ~HasVm(dt, rq[n]) /\ RestorePanics(st, rx, cl)
      PROVE  Goal
  <2>1. rq[n] \in Pids /\ st[rq[n]] = "Ready"
    BY DEF Runnable
  <2>2. HasVm(dt, rq[n])
    BY <2>1 DEF LivesExact, Living
  <2>3. QED
    BY <1>1, <1>2, <1>4, <2>1, <2>2
<1>5. QED
  BY <1>3, <1>4 DEF SwitchNext

(* A handler that ends in switch_next.                                      *)
LEMMA SwitchLiveStep ==
    ASSUME NEW st \in [Pids -> Statuses], NEW rq \in Seq(Pids), NEW rx \in [Pids -> RaxValues],
           NEW cl \in [Pids -> Calls], NEW dt, dt = data', NEW ec, ec = exitCode',
           SwitchNext(st, rq, rx, cl, dt), cur \in Pids, NoPanic,
           LiveWaiters(dt, waitq', sems'), LivesExact(st, dt, ec), CallsFit(st, cl, rx, dt),
           cl[cur] = NoCall \/ (st[cur] # "Ready" /\ Runnable(st, rq) # {})
    PROVE  LiveInv'
<1>1. /\ NoPanic' /\ LivesExact(status', dt, ec) /\ CallsFit(status', call', rax', dt)
      /\ call'[cur'] = NoCall
  BY SwitchLive
<1>2. QED
  BY <1>1 DEF LiveInv, LivesExact, CallsFit, LiveWaiters, HasVm

(* What the proofs below need of the current state.                         *)
LEMMA CurrentLive ==
    ASSUME IInv, LiveInv
    PROVE  /\ TypeOK /\ cur \in Pids /\ ready \in Seq(Pids)
           /\ status \in [Pids -> Statuses] /\ call \in [Pids -> Calls]
           /\ rax \in [Pids -> RaxValues] /\ data \in [Pids -> Pids \cup {NoPid}]
           /\ exitCode \in [Pids -> Codes \cup {NoCode}]
           /\ call[cur] = NoCall /\ NoPanic
           /\ LiveWaiters(data, waitq, sems) /\ LivesExact(status, data, exitCode)
           /\ CallsFit(status, call, rax, data)
           /\ Up => HasVm(data, cur) /\ status[cur] \in {"Running", "Ready"}
  BY DEF IInv, LiveInv, TypeOK, Up, Astray

(* The preempted process is in no call.                                     *)
LEMMA ClockSwitchLive == IInv /\ LiveInv /\ ClockSwitch => LiveInv'
<1> SUFFICES ASSUME IInv, LiveInv, ClockSwitch PROVE LiveInv'
  OBVIOUS
<1> DEFINE st == Saved(cur, "Ready")
           rq == Append(ready, cur)
           rx == [rax EXCEPT ![cur] = NoRet]
<1>1. Up /\ UNCHANGED <<data, exitCode, sems, waitq>> /\ SwitchNext(st, rq, rx, call, data)
  BY DEF ClockSwitch
<1>2. /\ cur \in Pids /\ ready \in Seq(Pids) /\ status \in [Pids -> Statuses]
      /\ call \in [Pids -> Calls] /\ rax \in [Pids -> RaxValues]
      /\ call[cur] = NoCall /\ NoPanic /\ LiveWaiters(data, waitq, sems)
      /\ LivesExact(status, data, exitCode) /\ CallsFit(status, call, rax, data)
      /\ HasVm(data, cur) /\ status[cur] \in {"Running", "Ready"}
  BY <1>1, CurrentLive
<1>3. /\ st \in [Pids -> Statuses] /\ rq \in Seq(Pids) /\ rx \in [Pids -> RaxValues]
      /\ st[cur] = "Ready" /\ \A p \in Pids \ {cur} : st[p] = status[p] /\ rx[p] = rax[p]
  BY <1>2 DEF Saved, Statuses, RaxValues
<1> HIDE DEF st, rq, rx
<1>4. LivesExact(st, data, exitCode)
  BY <1>2, <1>3 DEF LivesExact, Living
<1>5. CallsFit(st, call, rx, data)
  BY <1>2, <1>3, CallsDiffer DEF CallsFit
<1>6. LiveWaiters(data, waitq', sems') /\ data = data' /\ exitCode = exitCode'
  BY <1>1, <1>2 DEF LiveWaiters
<1>7. QED
  BY <1>1, <1>2, <1>3, <1>4, <1>5, <1>6, SwitchLiveStep

(* A new process lives and is in no call.                                   *)
LEMMA SpawnLive == IInv /\ FamilyInv /\ LiveInv /\ Spawn => LiveInv'
<1> SUFFICES ASSUME IInv, FamilyInv, LiveInv, Spawn PROVE LiveInv'
  OBVIOUS
<1>1. PICK c \in Pids : /\ TakePid(c)
                        /\ status' = [status EXCEPT ![c] = "Ready"]
                        /\ data'   = [data EXCEPT ![c] = c]
  BY DEF Spawn
<1>2. UNCHANGED <<exitCode, rax, call, sems, waitq, cur, mode>>
  BY DEF Spawn
<1>3. /\ status \in [Pids -> Statuses] /\ data \in [Pids -> Pids \cup {NoPid}]
      /\ call[cur] = NoCall /\ NoPanic /\ LiveWaiters(data, waitq, sems)
      /\ LivesExact(status, data, exitCode) /\ CallsFit(status, call, rax, data)
  BY CurrentLive
<1>4. status[c] = "Absent" /\ call[c] = NoCall
  <2>1. nextPid \in Nat /\ ~(c < nextPid)
    BY <1>1, NextPidType DEF IInv, TakePid
  <2>2. status[c] = "Absent"
    BY <2>1 DEF FamilyInv, Unborn
  <2>3. QED
    BY <1>3, <2>2 DEF CallsFit
<1>5. /\ status'[c] = "Ready" /\ HasVm(data', c)
      /\ \A p \in Pids \ {c} : status'[p] = status[p] /\ data'[p] = data[p]
  BY <1>1, <1>3, PidFacts DEF HasVm
<1>6. LivesExact(status', data', exitCode')
  BY <1>2, <1>3, <1>4, <1>5 DEF LivesExact, Living, HasVm
<1>7. CallsFit(status', call', rax', data')
  BY <1>2, <1>3, <1>4, <1>5, CallsDiffer DEF CallsFit, HasVm
<1>8. \A p \in Pids : HasVm(data, p) => HasVm(data', p)
  BY <1>5 DEF HasVm
<1>9. LiveWaiters(data', waitq', sems')
  <2>1. TypeOK
    BY DEF IInv
  <2>2. \A q \in Pids : \A p \in waitq[q] : p \in Pids
    BY <2>1 DEF TypeOK
  <2>3. QED
    BY <1>2, <1>3, <1>8, <2>1, <2>2, WaiterTypes DEF LiveWaiters
<1>10. QED
  BY <1>2, <1>3, <1>6, <1>7, <1>9 DEF LiveInv, LivesExact, CallsFit, LiveWaiters, HasVm, NoPanic

(* Each action keeps LiveInv; those that kill need NoBlockedKill.           *)
LEMMA VForkLive == IInv /\ FamilyInv /\ LiveInv /\ VFork => LiveInv'
<1> SUFFICES ASSUME IInv, FamilyInv, LiveInv, VFork PROVE LiveInv'
  OBVIOUS
<1>1. PICK c \in Pids :
         /\ TakePid(c)
         /\ data' = ForkData(c)
         /\ SwitchNext(ForkStatus(c), ready \o <<c, cur>>, ForkRax(c), call, data')
  BY DEF VFork
<1>2. UNCHANGED <<exitCode, sems, waitq>> /\ Up
  BY DEF VFork, User
<1>3. /\ TypeOK /\ cur \in Pids /\ ready \in Seq(Pids) /\ call \in [Pids -> Calls]
      /\ status \in [Pids -> Statuses] /\ data \in [Pids -> Pids \cup {NoPid}]
      /\ rax \in [Pids -> RaxValues]
      /\ call[cur] = NoCall /\ NoPanic /\ LiveWaiters(data, waitq, sems)
      /\ LivesExact(status, data, exitCode) /\ CallsFit(status, call, rax, data)
      /\ HasVm(data, cur) /\ status[cur] \in {"Running", "Ready"}
  BY <1>2, CurrentLive
<1>4. status[c] = "Absent" /\ call[c] = NoCall /\ c # cur
  <2>1. nextPid \in Nat /\ ~(c < nextPid)
    BY <1>1, NextPidType DEF IInv, TakePid
  <2>2. status[c] = "Absent"
    BY <2>1 DEF FamilyInv, Unborn
  <2>3. QED
    BY <1>3, <2>2 DEF CallsFit
<1> DEFINE st == ForkStatus(c)
           rx == ForkRax(c)
           rq == ready \o <<c, cur>>
<1>5. /\ st \in [Pids -> Statuses] /\ st[c] = "Ready" /\ st[cur] = "Ready"
      /\ \A p \in Pids \ {c, cur} : st[p] = status[p]
  BY <1>3, <1>4 DEF ForkStatus, Statuses
<1>6. /\ rx \in [Pids -> RaxValues] /\ \A p \in Pids \ {c, cur} : rx[p] = rax[p]
  <2>1. c \in RaxValues /\ 0 \in RaxValues
    BY BoundAssumption DEF RaxValues, Pids
  <2>2. QED
    BY <1>3, <2>1 DEF ForkRax
<1>7. rq \in Seq(Pids)
  BY <1>3
<1>8. HasVm(data', c) /\ \A p \in Pids \ {c} : data'[p] = data[p]
  BY <1>1, <1>3 DEF ForkData, HasVm
<1> HIDE DEF st, rx, rq
<1>9. LivesExact(st, data', exitCode)
  BY <1>3, <1>4, <1>5, <1>8 DEF LivesExact, Living, HasVm
<1>10. CallsFit(st, call, rx, data')
  BY <1>3, <1>4, <1>5, <1>6, <1>8, CallsDiffer, ZenonT(60) DEF CallsFit, HasVm
<1>11. \A p \in Pids : HasVm(data, p) => HasVm(data', p)
  BY <1>8 DEF HasVm
<1>12. LiveWaiters(data', waitq', sems')
  <2>1. \A q \in Pids : \A p \in waitq[q] : p \in Pids
    BY <1>3 DEF TypeOK
  <2>2. QED
    BY <1>2, <1>3, <1>11, <2>1, WaiterTypes DEF LiveWaiters
<1>13. SwitchNext(st, rq, rx, call, data') /\ exitCode = exitCode'
  BY <1>1, <1>2 DEF st, rq, rx
<1>14. QED
  BY <1>3, <1>5, <1>6, <1>7, <1>9, <1>10, <1>12, <1>13, SwitchLiveStep

(* kill of a process that is not Blocked takes nobody out of a queue.       *)
LEMMA KillLive ==
    ASSUME IInv, LiveInv, NEW q \in Pids, NEW ret \in Codes, KillProcess(q, ret),
           status[q] \notin {"Blocked", "Absent"}
    PROVE  /\ LiveWaiters(DataAfterKill(q), waitq', sems')
           /\ LivesExact(StatusAfterKill(q), DataAfterKill(q), exitCode')
           /\ CallsFit(StatusAfterKill(q), call, RaxAfterKill(q, ret), DataAfterKill(q))
           /\ StatusAfterKill(q)[q] = "Dead" /\ q \notin waitq[q]
<1> DEFINE st == StatusAfterKill(q)
           dt == DataAfterKill(q)
           rx == RaxAfterKill(q, ret)
<1>1. /\ TypeOK /\ data \in [Pids -> Pids \cup {NoPid}]
      /\ exitCode \in [Pids -> Codes \cup {NoCode}]
      /\ LiveWaiters(data, waitq, sems) /\ LivesExact(status, data, exitCode)
      /\ CallsFit(status, call, rax, data)
  BY CurrentLive
<1>2. \A t \in Pids : q \notin waitq[t]
  BY <1>1 DEF LiveWaiters, IInv, WaitersExact
<1>3. \A g \in Pids : \A k \in DOMAIN sems[g] : q \notin Waiters(sems[g][k])
  BY <1>1 DEF LiveWaiters, IInv, SemsSound, SemSound
<1>4. \A p \in Pids : /\ p \in waitq[q] => st[p] = "Ready" /\ rx[p] = ret
                      /\ p \notin waitq[q] => rx[p] = rax[p]
                      /\ p \notin waitq[q] /\ p # q => st[p] = status[p]
  BY DEF StatusAfterKill, RaxAfterKill
<1>5. st[q] = "Dead" /\ q \notin waitq[q]
  BY <1>2 DEF StatusAfterKill
<1>6. dt[q] = NoPid /\ \A p \in Pids \ {q} : dt[p] = data[p]
  BY <1>1 DEF DataAfterKill
<1>7. exitCode'[q] # NoCode /\ \A p \in Pids \ {q} : exitCode'[p] = exitCode[p]
  BY <1>1, CodeAssumption DEF KillProcess, Codes
<1>8. \A p \in Pids : p \in waitq[q] => HasVm(data, p) /\ status[p] = "Blocked" /\ p # q
  BY <1>1, <1>2 DEF LiveWaiters, IInv, WaitersExact
<1>9. /\ \A t \in Pids : waitq'[t] \subseteq waitq[t]
      /\ \A g \in Pids : \A k \in DOMAIN sems'[g] : k \in DOMAIN sems[g] /\ sems'[g] = sems[g]
  <2>1. \A t \in Pids : waitq'[t] \subseteq waitq[t]
    BY <1>1 DEF KillProcess, WaitqAfterKill, TypeOK
  <2>2. \A g \in Pids : \A k \in DOMAIN sems'[g] : k \in DOMAIN sems[g] /\ sems'[g] = sems[g]
    BY DEF KillProcess, SemsAfterKill, NoSems
  <2>3. QED
    BY <2>1, <2>2
<1> HIDE DEF st, dt, rx
<1>10. LiveWaiters(dt, waitq', sems')
  <2>1. ASSUME NEW t \in Pids, NEW p \in waitq'[t] PROVE HasVm(dt, p)
    <3>1. p \in waitq[t] /\ p \in Pids /\ p # q
      BY <1>1, <1>2, <1>9 DEF TypeOK
    <3>2. QED
      BY <1>1, <1>6, <3>1 DEF LiveWaiters, HasVm
  <2>2. ASSUME NEW g \in Pids, NEW k \in DOMAIN sems'[g], NEW p \in Waiters(sems'[g][k])
        PROVE  HasVm(dt, p)
    <3>1. k \in DOMAIN sems[g] /\ p \in Waiters(sems[g][k])
      BY <1>9
    <3>2. p \in Pids /\ p # q
      BY <1>1, <1>3, <3>1, WaiterTypes
    <3>3. QED
      BY <1>1, <1>6, <3>1, <3>2 DEF LiveWaiters, HasVm
  <2>3. QED
    BY <2>1, <2>2 DEF LiveWaiters
<1>11. LivesExact(st, dt, exitCode')
  <2> SUFFICES ASSUME NEW p \in Pids
               PROVE  /\ HasVm(dt, p) <=> st[p] \in Living
                      /\ st[p] = "Dead" <=> exitCode'[p] # NoCode
    BY DEF LivesExact
  <2>1. CASE p = q
    BY <1>5, <1>6, <1>7, <2>1 DEF HasVm, Living
  <2>2. CASE p # q /\ p \in waitq[q]
    BY <1>1, <1>4, <1>6, <1>7, <1>8, <2>2 DEF HasVm, Living, LivesExact
  <2>3. CASE p # q /\ p \notin waitq[q]
    BY <1>1, <1>4, <1>6, <1>7, <2>3 DEF HasVm, Living, LivesExact
  <2>4. QED
    BY <2>1, <2>2, <2>3
<1>12. CallsFit(st, call, rx, dt)
  <2> SUFFICES ASSUME NEW p \in Pids
               PROVE  /\ st[p] = "Absent" => call[p] = NoCall
                      /\ HasVm(dt, p) /\ st[p] # "Blocked" =>
                            \A t \in Pids : call[p] = WaitCall(t) => rx[p] \in Codes
    BY DEF CallsFit
  <2>1. CASE p = q
    BY <1>5, <1>6, <2>1 DEF HasVm
  <2>2. CASE p # q /\ p \in waitq[q]
    BY <1>4, <2>2
  <2>3. CASE p # q /\ p \notin waitq[q]
    BY <1>1, <1>4, <1>6, <2>3 DEF HasVm, CallsFit
  <2>4. QED
    BY <2>1, <2>2, <2>3
<1>13. QED
  BY <1>5, <1>10, <1>11, <1>12 DEF st, dt, rx

LEMMA ExitWithLive ==
    ASSUME NEW ret \in Codes PROVE IInv /\ LiveInv /\ ExitWith(ret) => LiveInv'
<1> SUFFICES ASSUME IInv, LiveInv, ExitWith(ret) PROVE LiveInv'
  OBVIOUS
<1>1. Up /\ KillProcess(cur, ret)
  BY DEF ExitWith, User
<1>2. PICK w \in Ascending(waitq[cur]) :
         SwitchNext(StatusAfterKill(cur), ready \o w, RaxAfterKill(cur, ret),
                    call, DataAfterKill(cur))
  BY DEF ExitWith
<1>3. /\ TypeOK /\ cur \in Pids /\ call \in [Pids -> Calls] /\ call[cur] = NoCall /\ NoPanic
      /\ status[cur] \in {"Running", "Ready"}
  BY <1>1, CurrentLive
<1>4. /\ StatusAfterKill(cur) \in [Pids -> Statuses] /\ ready \o w \in Seq(Pids)
      /\ RaxAfterKill(cur, ret) \in [Pids -> RaxValues]
  BY <1>1, <1>3, KillTypes, KillKeepsSeen
<1>5. /\ LiveWaiters(DataAfterKill(cur), waitq', sems')
      /\ LivesExact(StatusAfterKill(cur), DataAfterKill(cur), exitCode')
      /\ CallsFit(StatusAfterKill(cur), call, RaxAfterKill(cur, ret), DataAfterKill(cur))
  BY <1>1, <1>3, KillLive
<1>6. DataAfterKill(cur) = data'
  BY <1>1 DEF KillProcess
<1>7. QED
  BY <1>2, <1>3, <1>4, <1>5, <1>6, SwitchLiveStep

LEMMA KillOtherLive == ASSUME NoBlockedKill PROVE IInv /\ LiveInv /\ KillOther => LiveInv'
<1> SUFFICES ASSUME IInv, LiveInv, KillOther PROVE LiveInv'
  OBVIOUS
<1>1. PICK q \in (KillTargets \cap Pids) \ {cur} :
         /\ Exists(q) /\ status[q] \in Killable
         /\ KillProcess(q, KillCode)
         /\ status' = StatusAfterKill(q)
         /\ rax' = RaxAfterKill(q, KillCode)
  BY DEF KillOther
<1>2. UNCHANGED <<call, cur, mode>> /\ q \in Pids /\ KillCode \in Codes
  BY DEF KillOther, Codes
<1>3. status[q] \notin {"Blocked", "Absent"}
  BY <1>1 DEF Exists, NoBlockedKill
<1>4. /\ LiveWaiters(DataAfterKill(q), waitq', sems')
      /\ LivesExact(StatusAfterKill(q), DataAfterKill(q), exitCode')
      /\ CallsFit(StatusAfterKill(q), call, RaxAfterKill(q, KillCode), DataAfterKill(q))
  BY <1>1, <1>2, <1>3, KillLive
<1>5. data' = DataAfterKill(q)
  BY <1>1 DEF KillProcess
<1>6. /\ LiveWaiters(data', waitq', sems') /\ LivesExact(status', data', exitCode')
      /\ CallsFit(status', call', rax', data')
  BY <1>1, <1>2, <1>4, <1>5
<1>7. QED
  BY <1>2, <1>6 DEF LiveInv, NoPanic, LivesExact, CallsFit, LiveWaiters, HasVm

(* As nobody kills the kernel, it is Ready in the queue while a program     *)
(* runs, so a program that blocks leaves the processor.                     *)
LEMMA KernelQueued ==
    ASSUME LibraryKills, IInv, User
    PROVE  /\ KERNEL \in Pids /\ status[KERNEL] = "Ready" /\ cur # KERNEL
           /\ \E i \in DOMAIN ready : ready[i] = KERNEL
<1>1. cur # KERNEL /\ KERNEL \in Pids
  BY PidFacts DEF User
<1>2. KernelWaiting(status, ready, data)
  BY <1>1, KernelWaits
<1>3. QED
  BY <1>1, <1>2 DEF KernelWaiting

(* A caller that blocks is alive and has data.                              *)
LEMMA BlockInLive ==
    ASSUME LibraryKills, IInv, LiveInv, User, NEW c \in Calls, BlockIn(c), UNCHANGED <<data, exitCode>>,
           LiveWaiters(data, waitq', sems')
    PROVE  LiveInv'
<1> DEFINE st == Saved(cur, "Blocked")
           cl == [call EXCEPT ![cur] = c]
           rx == [rax EXCEPT ![cur] = NoRet]
<1>1. /\ Up /\ data = data' /\ exitCode = exitCode'
      /\ SwitchNext(st, ready, rx, cl, data)
  BY DEF User, BlockIn
<1>2. /\ cur \in Pids /\ ready \in Seq(Pids) /\ status \in [Pids -> Statuses]
      /\ call \in [Pids -> Calls] /\ rax \in [Pids -> RaxValues] /\ NoPanic
      /\ LivesExact(status, data, exitCode) /\ CallsFit(status, call, rax, data)
      /\ HasVm(data, cur) /\ status[cur] \in {"Running", "Ready"}
  BY <1>1, CurrentLive
<1>3. /\ st \in [Pids -> Statuses] /\ cl \in [Pids -> Calls] /\ rx \in [Pids -> RaxValues]
      /\ st[cur] = "Blocked"
      /\ \A p \in Pids \ {cur} : st[p] = status[p] /\ rx[p] = rax[p] /\ cl[p] = call[p]
  BY <1>2 DEF Saved, Statuses, RaxValues
<1> HIDE DEF st, cl, rx
<1>4. Runnable(st, ready) # {}
  BY <1>3, KernelQueued DEF Runnable
<1>5. LivesExact(st, data, exitCode)
  BY <1>2, <1>3 DEF LivesExact, Living
<1>6. CallsFit(st, cl, rx, data)
  BY <1>2, <1>3 DEF CallsFit
<1>7. QED
  BY <1>1, <1>2, <1>3, <1>4, <1>5, <1>6, SwitchLiveStep

LEMMA WaitPidLive == ASSUME LibraryKills PROVE IInv /\ LiveInv /\ WaitPid => LiveInv'
<1> SUFFICES ASSUME IInv, LiveInv, WaitPid PROVE LiveInv'
  OBVIOUS
<1>1. PICK q \in Pids : waitq' = JoinWaiters(q) /\ BlockIn(WaitCall(q))
  BY DEF WaitPid
<1>2. User /\ Up /\ UNCHANGED <<data, exitCode, sems>> /\ WaitCall(q) \in Calls
  BY CallTypes DEF WaitPid, User
<1>3. TypeOK /\ HasVm(data, cur) /\ LiveWaiters(data, waitq, sems)
  BY <1>2, CurrentLive
<1>4. LiveWaiters(data, waitq', sems')
  BY <1>1, <1>2, <1>3 DEF LiveWaiters, JoinWaiters, TypeOK
<1>5. QED
  BY <1>1, <1>2, <1>4, BlockInLive

(* What the semaphore calls do to the waiters.                              *)
LEMMA MySemsLive ==
    ASSUME IInv, LiveInv, User, NEW set, SetMySems(set), UNCHANGED waitq,
           \A k \in DOMAIN set : \A p \in Waiters(set[k]) :
               p = cur \/ (k \in DOMAIN MySems /\ p \in Waiters(MySems[k]))
    PROVE  LiveWaiters(data, waitq', sems')
<1>1. /\ TypeOK /\ HasVm(data, cur) /\ LiveWaiters(data, waitq, sems) /\ data[cur] \in Pids
  BY CurrentLive, CurrentFamily DEF User
<1>2. \A g \in Pids : sems'[g] = IF g = data[cur] THEN set ELSE sems[g]
  BY <1>1 DEF TypeOK, SetMySems
<1>3. QED
  BY <1>1, <1>2 DEF LiveWaiters, MySems

LEMMA QuietLive ==
    ASSUME IInv, LiveInv, UNCHANGED <<procVars, cur, mode>>, LiveWaiters(data, waitq', sems')
    PROVE  LiveInv'
<1>1. UNCHANGED <<status, exitCode, data, call, rax>>
  BY DEF procVars
<1>2. QED
  BY <1>1 DEF LiveInv, NoPanic, LivesExact, CallsFit, LiveWaiters, HasVm

(* The semaphore calls.                                                     *)
LEMMA SemQuietLive ==
    IInv /\ LiveInv /\ (SemNew \/ SemRemove \/ SemTake \/ SemGive) => LiveInv'
<1> SUFFICES ASSUME IInv, LiveInv, SemNew \/ SemRemove \/ SemTake \/ SemGive PROVE LiveInv'
  OBVIOUS
<1>1. User /\ UNCHANGED <<procVars, waitq, cur, mode>>
  BY DEF SemNew, SemRemove, SemTake, SemGive
<1>2. \A k \in DOMAIN MySems : MySems[k] \in Semaphores(Pids)
  BY <1>1, MySemsSound
<1>3. CASE SemNew
  <2>1. PICK k \in Keys, v \in SemValues : SetMySems(Insert(MySems, k, v))
    BY <1>3 DEF SemNew
  <2>2. \A j \in DOMAIN Insert(MySems, k, v) : \A p \in Waiters(Insert(MySems, k, v)[j]) :
           j \in DOMAIN MySems /\ p \in Waiters(MySems[j])
    <3>1. Waiters(NewSemaphore(v)) = {}
      BY DEF Waiters, NewSemaphore
    <3>2. QED
      BY <3>1 DEF Insert
  <2>3. QED
    BY <1>1, <2>1, <2>2, MySemsLive, QuietLive
<1>4. CASE SemRemove
  <2>1. PICK k \in Keys : SetMySems(Discard(MySems, k))
    BY <1>4 DEF SemRemove
  <2>2. \A j \in DOMAIN Discard(MySems, k) : \A p \in Waiters(Discard(MySems, k)[j]) :
           j \in DOMAIN MySems /\ p \in Waiters(MySems[j])
    BY DEF Discard
  <2>3. QED
    BY <1>1, <2>1, <2>2, MySemsLive, QuietLive
<1>5. CASE SemTake \/ SemGive
  <2>1. PICK k \in Keys : InSet(MySems, k) /\ \E s \in {Take(MySems[k]), Give(MySems[k])} :
           SetMySems([MySems EXCEPT ![k] = s])
    BY <1>5 DEF SemTake, SemGive
  <2>2. PICK s \in {Take(MySems[k]), Give(MySems[k])} : SetMySems([MySems EXCEPT ![k] = s])
    BY <2>1
  <2>3. Waiters(s) = Waiters(MySems[k])
    BY <1>2, <2>1 DEF Take, Give, Waiters, Semaphores, InSet
  <2>4. \A j \in DOMAIN [MySems EXCEPT ![k] = s] : \A p \in Waiters([MySems EXCEPT ![k] = s][j]) :
           j \in DOMAIN MySems /\ p \in Waiters(MySems[j])
    BY <2>3
  <2>5. QED
    BY <1>1, <2>2, <2>4, MySemsLive, QuietLive
<1>6. QED
  BY <1>3, <1>4, <1>5

LEMMA SemBlockLive == ASSUME LibraryKills PROVE IInv /\ LiveInv /\ SemBlock => LiveInv'
<1> SUFFICES ASSUME IInv, LiveInv, SemBlock PROVE LiveInv'
  OBVIOUS
<1>1. PICK k \in Keys : /\ InSet(MySems, k)
                        /\ SetMySems([MySems EXCEPT ![k] = Enqueue(@, cur)])
                        /\ BlockIn(SemCall(k))
  BY DEF SemBlock
<1>2. User /\ Up /\ UNCHANGED <<data, exitCode, waitq>> /\ SemCall(k) \in Calls
  BY CallTypes DEF SemBlock, User
<1>3. PICK s : s = Enqueue(MySems[k], cur)
  OBVIOUS
<1>4. Waiters(s) = Waiters(MySems[k]) \cup {cur}
  <2>1. MySems[k] \in Semaphores(Pids) /\ SemSound(MySems[k], data[cur], k, status, call, data)
    BY <1>1, <1>2, MySemsSound DEF InSet
  <2>2. cur \in Pids /\ cur \notin Waiters(MySems[k])
    BY <1>2, <2>1, CurrentLive DEF SemSound
  <2>3. QED
    BY <1>3, <2>1, <2>2, EnqueueFacts DEF SemSound
<1>5. SetMySems([MySems EXCEPT ![k] = s])
  BY <1>1, <1>3
<1>6. \A j \in DOMAIN [MySems EXCEPT ![k] = s] : \A p \in Waiters([MySems EXCEPT ![k] = s][j]) :
         p = cur \/ (j \in DOMAIN MySems /\ p \in Waiters(MySems[j]))
  BY <1>4
<1>7. LiveWaiters(data, waitq', sems')
  BY <1>2, <1>5, <1>6, MySemsLive
<1>8. QED
  BY <1>1, <1>2, <1>7, BlockInLive

(* The woken process is a living one: it was Blocked.                       *)
LEMMA SemWakeLive == IInv /\ LiveInv /\ SemWake => LiveInv'
<1> SUFFICES ASSUME IInv, LiveInv, SemWake PROVE LiveInv'
  OBVIOUS
<1>1. PICK k \in Keys : /\ InSet(MySems, k) /\ HasWaiters(MySems[k])
                        /\ SetMySems([MySems EXCEPT ![k] = Dequeue(@)])
                        /\ status' = [status EXCEPT ![FirstWaiter(MySems[k])] = "Ready"]
  BY DEF SemWake
<1>2. User /\ UNCHANGED <<exitCode, data, rax, call, waitq, cur, mode>>
  BY DEF SemWake
<1>3. /\ status \in [Pids -> Statuses] /\ data[cur] \in Pids
      /\ LiveWaiters(data, waitq, sems) /\ LivesExact(status, data, exitCode)
      /\ CallsFit(status, call, rax, data)
  BY <1>2, CurrentLive, CurrentFamily
<1>4. /\ MySems[k] \in Semaphores(Pids) /\ k \in DOMAIN MySems
      /\ SemSound(MySems[k], data[cur], k, status, call, data)
      /\ \A p \in Waiters(MySems[k]) : p \in Pids
  BY <1>1, <1>2, MySemsSound DEF InSet
<1>5. PICK s : s = Dequeue(MySems[k])
  OBVIOUS
<1>6. PICK w : w = FirstWaiter(MySems[k])
  OBVIOUS
<1>7. Waiters(s) \subseteq Waiters(MySems[k]) /\ w \in Waiters(MySems[k])
  BY <1>1, <1>4, <1>5, <1>6, DequeueFacts DEF SemSound
<1>8. w \in Pids /\ HasVm(data, w)
  BY <1>3, <1>4, <1>7 DEF LiveWaiters, MySems
<1>9. status[w] = "Blocked" /\ call[w] = SemCall(k)
  BY <1>4, <1>7, <1>8 DEF SemSound
<1>10. status'[w] = "Ready" /\ \A p \in Pids \ {w} : status'[p] = status[p]
  BY <1>1, <1>3, <1>6, <1>8
<1>11. LiveWaiters(data, waitq', sems')
  <2>1. SetMySems([MySems EXCEPT ![k] = s])
    BY <1>1, <1>5
  <2>2. \A j \in DOMAIN [MySems EXCEPT ![k] = s] : \A p \in Waiters([MySems EXCEPT ![k] = s][j]) :
           p = cur \/ (j \in DOMAIN MySems /\ p \in Waiters(MySems[j]))
    BY <1>7
  <2>3. QED
    BY <1>2, <2>1, <2>2, MySemsLive
<1>12. LivesExact(status', data, exitCode)
  BY <1>3, <1>8, <1>9, <1>10 DEF LivesExact, Living
<1>13. CallsFit(status', call, rax, data)
  BY <1>3, <1>9, <1>10, CallsDiffer DEF CallsFit
<1>14. QED
  BY <1>2, <1>11, <1>12, <1>13 DEF LiveInv, NoPanic, LivesExact, CallsFit, LiveWaiters, HasVm

(* So LiveInv is inductive, given IInv and FamilyInv.                       *)
LEMMA NextLive ==
    ASSUME LibraryKills, NoBlockedKill
    PROVE  IInv /\ FamilyInv /\ LiveInv /\ [Next]_vars => LiveInv'
<1> SUFFICES ASSUME IInv, FamilyInv, LiveInv, [Next]_vars PROVE LiveInv'
  OBVIOUS
<1>1. CASE Exit \/ KillSelf
  <2>1. PICK ret \in Codes : ExitWith(ret)
    BY <1>1 DEF Exit, KillSelf, Codes
  <2>2. QED
    BY <2>1, ExitWithLive
<1>2. CASE Shutdown
  <2>1. UNCHANGED <<status, exitCode, data, call, rax, sems, waitq, cur>> /\ mode' = "off"
    BY <1>2 DEF Shutdown, procVars
  <2>2. QED
    BY <2>1 DEF LiveInv, NoPanic, LivesExact, CallsFit, LiveWaiters, HasVm
<1>3. CASE UNCHANGED vars
  <2>1. UNCHANGED <<status, exitCode, data, call, rax, sems, waitq, cur, mode>>
    BY <1>3 DEF vars, procVars
  <2>2. QED
    BY <2>1 DEF LiveInv, NoPanic, LivesExact, CallsFit, LiveWaiters, HasVm
<1>4. ~SpawnPanics
  BY KernelQueued, KernelWaits DEF SpawnPanics, KernelWaiting, User
<1>5. QED
  BY <1>1, <1>2, <1>3, <1>4, ClockSwitchLive, SpawnLive, VForkLive, KillOtherLive, WaitPidLive,
     SemQuietLive, SemBlockLive, SemWakeLive DEF Next

(* So every reachable state has this invariant too.                         *)
THEOREM LiveInvariant == ASSUME LibraryKills, NoBlockedKill PROVE Spec => []LiveInv
<1>1. Init => LiveInv
  <2> SUFFICES ASSUME Init PROVE LiveInv
    OBVIOUS
  <2>1. /\ \A p \in Pids : call[p] = NoCall /\ waitq[p] = {} /\ DOMAIN sems[p] = {}
        /\ \A p \in Pids : exitCode[p] = NoCode
        /\ \A p \in Pids : status[p] = IF p = KERNEL THEN "Running" ELSE "Absent"
        /\ \A p \in Pids : HasVm(data, p) <=> p = KERNEL
        /\ cur \in Pids /\ mode = "up"
    BY PidFacts DEF Init, HasVm, NoSems
  <2>2. LiveWaiters(data, waitq, sems)
    BY <2>1 DEF LiveWaiters
  <2>3. LivesExact(status, data, exitCode)
    BY <2>1 DEF LivesExact, Living
  <2>4. CallsFit(status, call, rax, data)
    BY <2>1, CallsDiffer DEF CallsFit
  <2>5. QED
    BY <2>1, <2>2, <2>3, <2>4 DEF LiveInv, NoPanic
<1>2. IInv /\ FamilyInv /\ LiveInv /\ [Next]_vars => LiveInv'
  BY NextLive
<1>3. QED
  BY <1>1, <1>2, Invariant, FamilyInvariant, PTL DEF Spec

(* The kernel never restores a process that has lost its address space, if  *)
(* programs kill no blocked process: the unwrap of vm() (process.rs:168-170)*)
(* is safe exactly as long as kill leaves the queues of waiters alone.      *)
THEOREM KernelDoesNotPanic == ASSUME LibraryKills, NoBlockedKill PROVE Spec => []NoPanic
<1>1. LiveInv => NoPanic
  BY DEF LiveInv
<1>2. QED
  BY <1>1, LiveInvariant, PTL

-----------------------------------------------------------------------------
(* ProcessManager implements ProcessLife.  WaitIn: the abstract wait in the *)
(* middle of a handler, before switch_next; LifeIn the abstract life.       *)
WaitIn(st, cl, rx, dt) ==
    [p \in Pids |->
        IF ~HasVm(dt, p) \/ cl[p].op # "wait_pid" THEN <<"idle">>
        ELSE IF st[p] = "Blocked" THEN <<"blocked", cl[p].arg>>
        ELSE <<"told", rx[p]>>]

LifeIn(st, ec) ==
    [p \in Pids |->
        IF st[p] = "Absent" THEN <<"unborn">>
        ELSE IF st[p] = "Dead" THEN <<"ended", ec[p]>> ELSE <<"alive">>]

(* The refinement mapping in these terms.                                   *)
LEMMA Mapping ==
    /\ Waits = WaitIn(status, call, rax, data) /\ Lives = LifeIn(status, exitCode)
    /\ Waits' = WaitIn(status', call', rax', data')
    /\ Lives' = LifeIn(status', exitCode')
<1>1. \A p \in Pids : /\ LifeOf(p) = LifeIn(status, exitCode)[p]
                      /\ LifeOf(p)' = LifeIn(status', exitCode')[p]
  BY DEF LifeOf, LifeIn
<1>2. \A p \in Pids : /\ WaitOf(p) = WaitIn(status, call, rax, data)[p]
                      /\ WaitOf(p)' = WaitIn(status', call', rax', data')[p]
  BY DEF WaitOf, WaitIn, HasVm
<1>3. /\ Lives = [p \in Pids |-> LifeIn(status, exitCode)[p]]
      /\ Lives' = [p \in Pids |-> LifeIn(status', exitCode')[p]]
  BY <1>1 DEF Lives
<1>4. /\ Waits = [p \in Pids |-> WaitIn(status, call, rax, data)[p]]
      /\ Waits' = [p \in Pids |-> WaitIn(status', call', rax', data')[p]]
  BY <1>2 DEF Waits
<1>5. QED
  BY <1>3, <1>4 DEF LifeIn, WaitIn

(* switch_next resumes at most one process that was told its code, and      *)
(* neither creates nor ends one.                                            *)
LEMMA SwitchResumes ==
    ASSUME NEW st \in [Pids -> Statuses], NEW rq \in Seq(Pids), NEW rx \in [Pids -> RaxValues],
           NEW cl \in [Pids -> Calls], NEW dt, dt = data', NEW ec, ec = exitCode',
           SwitchNext(st, rq, rx, cl, dt), CallsFit(st, cl, rx, dt)
    PROVE  Life!Resume(WaitIn(st, cl, rx, dt)) /\ Lives' = LifeIn(st, ec)
<1> DEFINE w == WaitIn(st, cl, rx, dt)
           Goal == Life!Resume(w) /\ Lives' = LifeIn(st, ec)
<1>1. CASE status' = st /\ rax' = rx /\ call' = cl
  <2>1. Waits' = w /\ Lives' = LifeIn(st, ec)
    BY <1>1, Mapping
  <2>2. QED
    BY <2>1 DEF Life!Resume
<1>2. ASSUME NEW n \in Runnable(st, rq), Restore(rq[n], st, rx, cl)
      PROVE  Goal
  <2>1. PICK p \in Pids : p = rq[n]
    BY DEF Runnable
  <2>2. st[p] = "Ready"
    BY <2>1 DEF Runnable
  <2>3. \A t \in Pids : /\ status'[t] = IF t = p THEN "Running" ELSE st[t]
                        /\ call'[t] = IF t = p THEN NoCall ELSE cl[t]
                        /\ t # p => rax'[t] = rx[t]
    BY <1>2, <2>1 DEF Restore
  <2>4. Lives' = LifeIn(st, ec)
    <3>1. LifeIn(status', ec) = LifeIn(st, ec)
      BY <2>2, <2>3 DEF LifeIn
    <3>2. QED
      BY <3>1, Mapping
  <2>5. \A t \in Pids : Waits'[t] = IF t = p THEN <<"idle">> ELSE w[t]
    <3>1. \A t \in Pids : WaitIn(status', call', rax', dt)[t] = IF t = p THEN <<"idle">> ELSE w[t]
      BY <2>3, SMTT(30) DEF WaitIn, NoCall
    <3>2. QED
      BY <3>1, Mapping
  <2>6. Waits' = [w EXCEPT ![p] = Life!Idle]
    <3>1. Waits' = [t \in Pids |-> Waits'[t]] /\ w = [t \in Pids |-> w[t]]
      BY Mapping DEF WaitIn
    <3> HIDE DEF w
    <3>2. QED
      BY <2>5, <3>1 DEF Life!Idle
  <2>7. CASE HasVm(dt, p) /\ cl[p].op = "wait_pid"
    <3>1. PICK q \in Pids : cl[p] = WaitCall(q)
      BY <2>7 DEF Calls, NoCall, WaitCall, SemCall
    <3>2. rx[p] \in Codes
      BY <2>2, <2>7, <3>1 DEF CallsFit
    <3>3. w[p] = Life!Told(rx[p])
      BY <2>2, <2>7 DEF WaitIn, Life!Told
    <3> HIDE DEF w
    <3>4. QED
      BY <2>4, <2>6, <3>2, <3>3 DEF Life!Resume
  <2>8. CASE ~(HasVm(dt, p) /\ cl[p].op = "wait_pid")
    <3>1. w[p] = <<"idle">>
      BY <2>8 DEF WaitIn
    <3>2. Waits' = [t \in Pids |-> Waits'[t]] /\ w = [t \in Pids |-> w[t]]
      BY Mapping DEF WaitIn
    <3> HIDE DEF w
    <3>3. Waits' = w
      BY <2>5, <3>1, <3>2
    <3>4. QED
      BY <2>4, <3>3 DEF Life!Resume
  <2>9. QED
    BY <2>7, <2>8
<1>3. QED
  BY <1>1, <1>2 DEF SwitchNext, KeepCurrent, RestorePanics

(* The process on the processor lives and waits for nobody.                 *)
LEMMA CurrentIdle ==
    ASSUME IInv, LiveInv, Up
    PROVE  Lives[cur] = Life!Living /\ Waits[cur] = Life!Idle
<1>1. cur \in Pids /\ call[cur] = NoCall /\ status[cur] \in {"Running", "Ready"}
  BY CurrentLive
<1>2. QED
  BY <1>1, Mapping DEF LifeIn, WaitIn, NoCall, Life!Living, Life!Idle

(* Nothing but the registers of the preempted process is saved.             *)
LEMMA ClockSwitchLife == IInv /\ LiveInv /\ ClockSwitch => Life!Schedule
<1> SUFFICES ASSUME IInv, LiveInv, ClockSwitch PROVE Life!Schedule
  OBVIOUS
<1> DEFINE st == Saved(cur, "Ready")
           rq == Append(ready, cur)
           rx == [rax EXCEPT ![cur] = NoRet]
<1>1. Up /\ UNCHANGED <<data, exitCode>> /\ SwitchNext(st, rq, rx, call, data)
  BY DEF ClockSwitch
<1>2. /\ cur \in Pids /\ ready \in Seq(Pids) /\ status \in [Pids -> Statuses]
      /\ call \in [Pids -> Calls] /\ rax \in [Pids -> RaxValues] /\ call[cur] = NoCall
      /\ CallsFit(status, call, rax, data) /\ status[cur] \in {"Running", "Ready"}
  BY <1>1, CurrentLive
<1>3. /\ st \in [Pids -> Statuses] /\ rq \in Seq(Pids) /\ rx \in [Pids -> RaxValues]
      /\ st[cur] = "Ready" /\ \A p \in Pids \ {cur} : st[p] = status[p] /\ rx[p] = rax[p]
  BY <1>2 DEF Saved, Statuses, RaxValues
<1> HIDE DEF st, rq, rx
<1>4. CallsFit(st, call, rx, data)
  BY <1>2, <1>3, CallsDiffer DEF CallsFit
<1>5. WaitIn(st, call, rx, data) = Waits
  <2>1. WaitIn(st, call, rx, data) = WaitIn(status, call, rax, data)
    BY <1>2, <1>3, SMTT(30) DEF WaitIn, NoCall
  <2>2. QED
    BY <2>1, Mapping
<1>6. LifeIn(st, exitCode) = Lives
  <2>1. LifeIn(st, exitCode) = LifeIn(status, exitCode)
    BY <1>2, <1>3 DEF LifeIn
  <2>2. QED
    BY <2>1, Mapping
<1>7. Life!Resume(Waits) /\ Lives' = Lives
  BY <1>1, <1>2, <1>3, <1>4, <1>5, <1>6, SwitchResumes
<1>8. QED
  BY <1>7 DEF Life!Schedule

(* A fresh pid has not begun, so spawn and vfork begin a process.           *)
LEMMA NewUnborn ==
    ASSUME IInv, FamilyInv, LiveInv, NEW c \in Pids, TakePid(c)
    PROVE  /\ status[c] = "Absent" /\ call[c] = NoCall
           /\ Lives[c] = Life!NotBegun /\ Waits[c] = Life!Idle
<1>1. nextPid \in Nat /\ ~(c < nextPid)
  BY NextPidType DEF IInv, TakePid
<1>2. status[c] = "Absent"
  BY <1>1 DEF FamilyInv, Unborn
<1>3. call[c] = NoCall
  BY <1>2, CurrentLive DEF CallsFit
<1>4. QED
  BY <1>2, <1>3, Mapping DEF LifeIn, WaitIn, NoCall, Life!NotBegun, Life!Idle

(* A new process begins a life.                                             *)
LEMMA SpawnLife == IInv /\ FamilyInv /\ LiveInv /\ Spawn => \E p \in Pids : Life!Begin(p)
<1> SUFFICES ASSUME IInv, FamilyInv, LiveInv, Spawn PROVE \E p \in Pids : Life!Begin(p)
  OBVIOUS
<1>1. PICK c \in Pids : /\ TakePid(c)
                        /\ status' = [status EXCEPT ![c] = "Ready"]
                        /\ data'   = [data EXCEPT ![c] = c]
  BY DEF Spawn
<1>2. UNCHANGED <<exitCode, rax, call>>
  BY DEF Spawn
<1>3. /\ status \in [Pids -> Statuses] /\ data \in [Pids -> Pids \cup {NoPid}]
  BY CurrentLive
<1>4. /\ status[c] = "Absent" /\ call[c] = NoCall /\ Lives[c] = Life!NotBegun
  BY <1>1, NewUnborn
<1>5. status'[c] = "Ready" /\ \A p \in Pids \ {c} : status'[p] = status[p] /\ data'[p] = data[p]
  BY <1>1, <1>3
<1>6. Waits' = Waits
  <2>1. WaitIn(status', call, rax, data') = WaitIn(status, call, rax, data)
    BY <1>4, <1>5 DEF WaitIn, HasVm, NoCall
  <2>2. QED
    BY <1>2, <2>1, Mapping
<1>7. Lives' = [Lives EXCEPT ![c] = Life!Living]
  <2>1. LifeIn(status', exitCode) = [LifeIn(status, exitCode) EXCEPT ![c] = Life!Living]
    BY <1>5 DEF LifeIn, Life!Living
  <2>2. QED
    BY <1>2, <2>1, Mapping
<1>8. QED
  BY <1>4, <1>6, <1>7 DEF Life!Begin, Life!Resume

LEMMA VForkLife == IInv /\ FamilyInv /\ LiveInv /\ VFork => \E p \in Pids : Life!Begin(p)
<1> SUFFICES ASSUME IInv, FamilyInv, LiveInv, VFork PROVE \E p \in Pids : Life!Begin(p)
  OBVIOUS
<1>1. PICK c \in Pids :
         /\ TakePid(c)
         /\ data' = ForkData(c)
         /\ SwitchNext(ForkStatus(c), ready \o <<c, cur>>, ForkRax(c), call, data')
  BY DEF VFork
<1>2. UNCHANGED exitCode /\ Up
  BY DEF VFork, User
<1>3. /\ cur \in Pids /\ ready \in Seq(Pids) /\ call \in [Pids -> Calls]
      /\ status \in [Pids -> Statuses] /\ data \in [Pids -> Pids \cup {NoPid}]
      /\ rax \in [Pids -> RaxValues] /\ call[cur] = NoCall
      /\ CallsFit(status, call, rax, data) /\ status[cur] \in {"Running", "Ready"}
  BY <1>2, CurrentLive
<1>4. status[c] = "Absent" /\ call[c] = NoCall /\ c # cur /\ Lives[c] = Life!NotBegun
  BY <1>1, <1>3, NewUnborn
<1> DEFINE st == ForkStatus(c)
           rx == ForkRax(c)
           rq == ready \o <<c, cur>>
<1>5. /\ st \in [Pids -> Statuses] /\ st[c] = "Ready" /\ st[cur] = "Ready"
      /\ \A p \in Pids \ {c, cur} : st[p] = status[p]
  BY <1>3, <1>4 DEF ForkStatus, Statuses
<1>6. /\ rx \in [Pids -> RaxValues] /\ \A p \in Pids \ {c, cur} : rx[p] = rax[p]
  <2>1. c \in RaxValues /\ 0 \in RaxValues
    BY BoundAssumption DEF RaxValues, Pids
  <2>2. QED
    BY <1>3, <2>1 DEF ForkRax
<1>7. rq \in Seq(Pids)
  BY <1>3
<1>8. \A p \in Pids \ {c} : data'[p] = data[p]
  BY <1>1, <1>3 DEF ForkData
<1>9. SwitchNext(st, rq, rx, call, data')
  BY <1>1
<1> HIDE DEF st, rx, rq
<1>10. CallsFit(st, call, rx, data')
  BY <1>3, <1>4, <1>5, <1>6, <1>8, CallsDiffer DEF CallsFit, HasVm
<1>11. WaitIn(st, call, rx, data') = Waits
  <2>1. WaitIn(st, call, rx, data') = WaitIn(status, call, rax, data)
    BY <1>3, <1>4, <1>5, <1>6, <1>8 DEF WaitIn, HasVm, NoCall
  <2>2. QED
    BY <2>1, Mapping
<1>12. LifeIn(st, exitCode) = [Lives EXCEPT ![c] = Life!Living]
  <2>1. LifeIn(st, exitCode) = [LifeIn(status, exitCode) EXCEPT ![c] = Life!Living]
    BY <1>3, <1>5 DEF LifeIn, Life!Living
  <2>2. QED
    BY <2>1, Mapping
<1>13. Life!Resume(Waits) /\ Lives' = [Lives EXCEPT ![c] = Life!Living]
  BY <1>2, <1>3, <1>5, <1>6, <1>7, <1>9, <1>10, <1>11, <1>12, SwitchResumes, SMTT(30)
<1>14. QED
  BY <1>4, <1>13 DEF Life!Begin

(* The end of q, up to switch_next: its waiters, and they alone, are told.  *)
TellWaiters(q, ret) ==
    [p \in Pids |-> IF p = q THEN Life!Idle
                    ELSE IF Waits[p] = Life!BlockedOn(q) THEN Life!Told(ret)
                    ELSE Waits[p]]

(* A kill ends a life with its code.                                        *)
LEMMA KillLife ==
    ASSUME IInv, LiveInv, NEW q \in Pids, NEW ret \in Codes, KillProcess(q, ret),
           status[q] \in {"Running", "Ready"}
    PROVE  /\ Lives[q] = Life!Living
           /\ LifeIn(StatusAfterKill(q), exitCode') = [Lives EXCEPT ![q] = Life!Ended(ret)]
           /\ WaitIn(StatusAfterKill(q), call, RaxAfterKill(q, ret), DataAfterKill(q))
                 = TellWaiters(q, ret)
<1> DEFINE st == StatusAfterKill(q)
           dt == DataAfterKill(q)
           rx == RaxAfterKill(q, ret)
<1>1. /\ data \in [Pids -> Pids \cup {NoPid}] /\ call \in [Pids -> Calls]
      /\ exitCode \in [Pids -> Codes \cup {NoCode}]
      /\ LiveWaiters(data, waitq, sems)
  BY CurrentLive
<1>2. st[q] = "Dead" /\ q \notin waitq[q]
  BY KillLive
<1>3. \A p \in Pids : /\ p \in waitq[q] => st[p] = "Ready" /\ rx[p] = ret
                      /\ p \notin waitq[q] => rx[p] = rax[p]
                      /\ p \notin waitq[q] /\ p # q => st[p] = status[p]
  BY DEF StatusAfterKill, RaxAfterKill
<1>4. dt[q] = NoPid /\ \A p \in Pids \ {q} : dt[p] = data[p]
  BY <1>1 DEF DataAfterKill
<1>5. exitCode'[q] = ret /\ \A p \in Pids \ {q} : exitCode'[p] = exitCode[p]
  BY <1>1 DEF KillProcess
<1>6. \A p \in Pids : p \in waitq[q] <=> (HasVm(data, p) /\ status[p] = "Blocked" /\ call[p] = WaitCall(q))
  BY <1>1 DEF LiveWaiters, IInv, WaitersExact
<1>7. \A p \in Pids : call[p].op = "wait_pid" => call[p] = WaitCall(call[p].arg)
  BY <1>1 DEF Calls, NoCall, WaitCall, SemCall
<1> HIDE DEF st, dt, rx
<1>8. Lives[q] = Life!Living
  BY Mapping DEF LifeIn, Life!Living
<1>9. LifeIn(st, exitCode') = [Lives EXCEPT ![q] = Life!Ended(ret)]
  <2>1. \A p \in Pids : LifeIn(st, exitCode')[p] =
            IF p = q THEN Life!Ended(ret) ELSE LifeIn(status, exitCode)[p]
    BY <1>2, <1>3, <1>5, <1>6 DEF LifeIn, Life!Ended
  <2>2. LifeIn(st, exitCode') = [LifeIn(status, exitCode) EXCEPT ![q] = Life!Ended(ret)]
    BY <2>1 DEF LifeIn
  <2>3. QED
    BY <2>2, Mapping
<1>10. ASSUME NEW p \in Pids
       PROVE  WaitIn(st, call, rx, dt)[p] = TellWaiters(q, ret)[p]
  <2>1. Waits[p] = WaitIn(status, call, rax, data)[p]
    BY Mapping
  <2>2. CASE p = q
    BY <1>4, <2>2 DEF WaitIn, TellWaiters, HasVm, Life!Idle
  <2>3. CASE p # q /\ p \in waitq[q]
    <3>1. HasVm(dt, p) /\ call[p].op = "wait_pid" /\ call[p].arg = q /\ st[p] = "Ready"
      BY <1>3, <1>4, <1>6, <2>3 DEF HasVm, WaitCall
    <3>2. WaitIn(st, call, rx, dt)[p] = Life!Told(ret)
      BY <1>3, <2>3, <3>1 DEF WaitIn, Life!Told
    <3>3. Waits[p] = Life!BlockedOn(q)
      BY <1>6, <2>1, <2>3, <3>1 DEF WaitIn, Life!BlockedOn
    <3>4. QED
      BY <2>3, <3>2, <3>3 DEF TellWaiters
  <2>4. CASE p # q /\ p \notin waitq[q]
    <3>1. WaitIn(st, call, rx, dt)[p] = Waits[p]
      BY <1>3, <1>4, <2>1, <2>4 DEF WaitIn, HasVm
    <3>2. Waits[p] # Life!BlockedOn(q)
      BY <1>6, <1>7, <2>1, <2>4 DEF WaitIn, Life!BlockedOn
    <3>3. QED
      BY <2>4, <3>1, <3>2 DEF TellWaiters
  <2>5. QED
    BY <2>2, <2>3, <2>4
<1>11. WaitIn(st, call, rx, dt) = TellWaiters(q, ret)
  <2>1. /\ WaitIn(st, call, rx, dt) = [p \in Pids |-> WaitIn(st, call, rx, dt)[p]]
        /\ TellWaiters(q, ret) = [p \in Pids |-> TellWaiters(q, ret)[p]]
    BY DEF WaitIn, TellWaiters
  <2>2. QED
    BY <1>10, <2>1
<1>12. QED
  BY <1>8, <1>9, <1>11 DEF st, dt, rx

(* exit, and kill of oneself.                                               *)
LEMMA ExitWithLife ==
    ASSUME NEW ret \in Codes PROVE IInv /\ LiveInv /\ ExitWith(ret) => Life!End(cur, ret)
<1> SUFFICES ASSUME IInv, LiveInv, ExitWith(ret) PROVE Life!End(cur, ret)
  OBVIOUS
<1>1. Up /\ KillProcess(cur, ret)
  BY DEF ExitWith, User
<1>2. PICK w \in Ascending(waitq[cur]) :
         SwitchNext(StatusAfterKill(cur), ready \o w, RaxAfterKill(cur, ret),
                    call, DataAfterKill(cur))
  BY DEF ExitWith
<1>3. /\ TypeOK /\ cur \in Pids /\ call \in [Pids -> Calls]
      /\ status[cur] \in {"Running", "Ready"}
  BY <1>1, CurrentLive
<1>4. /\ StatusAfterKill(cur) \in [Pids -> Statuses] /\ ready \o w \in Seq(Pids)
      /\ RaxAfterKill(cur, ret) \in [Pids -> RaxValues]
  BY <1>1, <1>3, KillTypes, KillKeepsSeen
<1>5. CallsFit(StatusAfterKill(cur), call, RaxAfterKill(cur, ret), DataAfterKill(cur))
  BY <1>1, <1>3, KillLive
<1>6. DataAfterKill(cur) = data'
  BY <1>1 DEF KillProcess
<1>7. /\ Life!Resume(WaitIn(StatusAfterKill(cur), call, RaxAfterKill(cur, ret), DataAfterKill(cur)))
      /\ Lives' = LifeIn(StatusAfterKill(cur), exitCode')
  BY <1>2, <1>3, <1>4, <1>5, <1>6, SwitchResumes
<1>8. /\ Lives[cur] = Life!Living
      /\ LifeIn(StatusAfterKill(cur), exitCode') = [Lives EXCEPT ![cur] = Life!Ended(ret)]
      /\ WaitIn(StatusAfterKill(cur), call, RaxAfterKill(cur, ret), DataAfterKill(cur))
            = TellWaiters(cur, ret)
  BY <1>1, <1>3, KillLife
<1>9. Life!Resume(TellWaiters(cur, ret)) /\ Lives' = [Lives EXCEPT ![cur] = Life!Ended(ret)]
  BY <1>7, <1>8
<1>10. QED
  BY <1>8, <1>9 DEF Life!End, TellWaiters

(* kill of a process that is neither blocked nor dead.                      *)
LEMMA KillOtherLife ==
    ASSUME NoBlockedKill, NoSecondKill
    PROVE  IInv /\ LiveInv /\ KillOther => \E p \in Pids : Life!End(p, KillCode)
<1> SUFFICES ASSUME IInv, LiveInv, KillOther PROVE \E p \in Pids : Life!End(p, KillCode)
  OBVIOUS
<1>1. PICK q \in (KillTargets \cap Pids) \ {cur} :
         /\ Exists(q) /\ status[q] \in Killable
         /\ KillProcess(q, KillCode)
         /\ status' = StatusAfterKill(q)
         /\ rax' = RaxAfterKill(q, KillCode)
  BY DEF KillOther
<1>2. UNCHANGED call /\ q \in Pids /\ KillCode \in Codes
  BY DEF KillOther, Codes
<1>3. status[q] \in {"Running", "Ready"}
  <2>1. status[q] \in Statuses
    BY <1>2, CurrentLive
  <2>2. QED
    BY <1>1, <2>1 DEF Exists, NoBlockedKill, NoSecondKill, Statuses
<1>4. /\ Lives[q] = Life!Living
      /\ LifeIn(StatusAfterKill(q), exitCode') = [Lives EXCEPT ![q] = Life!Ended(KillCode)]
      /\ WaitIn(StatusAfterKill(q), call, RaxAfterKill(q, KillCode), DataAfterKill(q))
            = TellWaiters(q, KillCode)
  BY <1>1, <1>2, <1>3, KillLife
<1>5. data' = DataAfterKill(q)
  BY <1>1 DEF KillProcess
<1>6. Waits' = TellWaiters(q, KillCode) /\ Lives' = [Lives EXCEPT ![q] = Life!Ended(KillCode)]
  BY <1>1, <1>2, <1>4, <1>5, Mapping
<1>7. Life!Resume(TellWaiters(q, KillCode))
  BY <1>6 DEF Life!Resume
<1>8. Life!End(q, KillCode)
  BY <1>4, <1>6, <1>7 DEF Life!End, TellWaiters
<1>9. QED
  BY <1>2, <1>8

(* A process that blocks in call c waits, in ProcessLife, if c is wait_pid. *)
BlocksIn(c) == IF c.op = "wait_pid" THEN Life!BlockedOn(c.arg) ELSE Life!Idle

(* Blocking leaves the lives alone and sets what the caller waits for.      *)
LEMMA BlockInLife ==
    ASSUME IInv, LiveInv, User, NEW c \in Calls, BlockIn(c), UNCHANGED <<data, exitCode>>
    PROVE  Life!Resume([Waits EXCEPT ![cur] = BlocksIn(c)]) /\ Lives' = Lives
<1> DEFINE st == Saved(cur, "Blocked")
           cl == [call EXCEPT ![cur] = c]
           rx == [rax EXCEPT ![cur] = NoRet]
<1>1. /\ Up /\ data = data' /\ exitCode = exitCode'
      /\ SwitchNext(st, ready, rx, cl, data)
  BY DEF User, BlockIn
<1>2. /\ cur \in Pids /\ ready \in Seq(Pids) /\ status \in [Pids -> Statuses]
      /\ call \in [Pids -> Calls] /\ rax \in [Pids -> RaxValues]
      /\ CallsFit(status, call, rax, data)
      /\ HasVm(data, cur) /\ status[cur] \in {"Running", "Ready"}
  BY <1>1, CurrentLive
<1>3. /\ st \in [Pids -> Statuses] /\ cl \in [Pids -> Calls] /\ rx \in [Pids -> RaxValues]
      /\ st[cur] = "Blocked" /\ cl[cur] = c
      /\ \A p \in Pids \ {cur} : st[p] = status[p] /\ rx[p] = rax[p] /\ cl[p] = call[p]
  BY <1>2 DEF Saved, Statuses, RaxValues
<1> HIDE DEF st, cl, rx
<1>4. CallsFit(st, cl, rx, data)
  BY <1>2, <1>3 DEF CallsFit
<1>5. WaitIn(st, cl, rx, data) = [Waits EXCEPT ![cur] = BlocksIn(c)]
  <2>1. \A p \in Pids : WaitIn(st, cl, rx, data)[p] =
            IF p = cur THEN BlocksIn(c) ELSE WaitIn(status, call, rax, data)[p]
    BY <1>2, <1>3 DEF WaitIn, BlocksIn, Life!BlockedOn, Life!Idle
  <2>2. WaitIn(st, cl, rx, data) = [WaitIn(status, call, rax, data) EXCEPT ![cur] = BlocksIn(c)]
    BY <2>1 DEF WaitIn
  <2>3. QED
    BY <2>2, Mapping
<1>6. LifeIn(st, exitCode) = Lives
  <2>1. LifeIn(st, exitCode) = LifeIn(status, exitCode)
    BY <1>2, <1>3 DEF LifeIn
  <2>2. QED
    BY <2>1, Mapping
<1>7. Life!Resume(WaitIn(st, cl, rx, data)) /\ Lives' = LifeIn(st, exitCode)
  BY <1>1, <1>2, <1>3, <1>4, SwitchResumes
<1>8. QED
  BY <1>5, <1>6, <1>7

(* wait_pid blocks only on a process that has not ended.                    *)
LEMMA WaitPidLife == IInv /\ LiveInv /\ WaitPid => \E p, q \in Pids : Life!Wait(p, q)
<1> SUFFICES ASSUME IInv, LiveInv, WaitPid PROVE \E p, q \in Pids : Life!Wait(p, q)
  OBVIOUS
<1>1. PICK q \in Pids : MustWait(q) /\ BlockIn(WaitCall(q))
  BY DEF WaitPid
<1>2. User /\ Up /\ UNCHANGED <<data, exitCode>> /\ WaitCall(q) \in Calls
  BY CallTypes DEF WaitPid, User
<1>3. cur \in Pids /\ LivesExact(status, data, exitCode)
  BY CurrentLive
<1>4. ~Life!HasEnded(q)
  <2>1. status[q] # "Dead"
    BY <1>1, <1>3 DEF MustWait, Exited, LivesExact
  <2>2. Lives[q] \in {<<"unborn">>, <<"alive">>}
    BY <2>1, Mapping DEF LifeIn
  <2>3. QED
    BY <2>2 DEF Life!HasEnded, Life!Ended
<1>5. BlocksIn(WaitCall(q)) = Life!BlockedOn(q)
  BY DEF BlocksIn, WaitCall
<1>6. Life!Resume([Waits EXCEPT ![cur] = Life!BlockedOn(q)]) /\ Lives' = Lives
  BY <1>1, <1>2, <1>5, BlockInLife
<1>7. Life!Wait(cur, q)
  BY <1>2, <1>4, <1>6, CurrentIdle DEF Life!Wait
<1>8. QED
  BY <1>3, <1>7

(* A process that blocks on a semaphore waits for no process.               *)
LEMMA SemBlockLife == IInv /\ LiveInv /\ SemBlock => Life!Schedule
<1> SUFFICES ASSUME IInv, LiveInv, SemBlock PROVE Life!Schedule
  OBVIOUS
<1>1. PICK k \in Keys : BlockIn(SemCall(k))
  BY DEF SemBlock
<1>2. User /\ Up /\ UNCHANGED <<data, exitCode>> /\ SemCall(k) \in Calls
  BY CallTypes DEF SemBlock, User
<1>3. BlocksIn(SemCall(k)) = Life!Idle
  BY DEF BlocksIn, SemCall
<1>4. Life!Resume([Waits EXCEPT ![cur] = Life!Idle]) /\ Lives' = Lives
  BY <1>1, <1>2, <1>3, BlockInLife
<1>5. [Waits EXCEPT ![cur] = Life!Idle] = Waits
  BY <1>2, CurrentIdle DEF Waits
<1>6. QED
  BY <1>4, <1>5 DEF Life!Schedule

(* Whom a signal wakes was inside sem_wait.                                 *)
LEMMA SemWakeLife == IInv /\ LiveInv /\ SemWake => UNCHANGED <<Lives, Waits>>
<1> SUFFICES ASSUME IInv, LiveInv, SemWake PROVE UNCHANGED <<Lives, Waits>>
  OBVIOUS
<1>1. PICK k \in Keys : /\ InSet(MySems, k) /\ HasWaiters(MySems[k])
                        /\ status' = [status EXCEPT ![FirstWaiter(MySems[k])] = "Ready"]
  BY DEF SemWake
<1>2. User /\ UNCHANGED <<exitCode, data, rax, call>>
  BY DEF SemWake
<1>3. /\ status \in [Pids -> Statuses] /\ data[cur] \in Pids
      /\ LiveWaiters(data, waitq, sems)
  BY <1>2, CurrentLive, CurrentFamily
<1>4. /\ MySems[k] \in Semaphores(Pids) /\ k \in DOMAIN MySems
      /\ SemSound(MySems[k], data[cur], k, status, call, data)
      /\ \A p \in Waiters(MySems[k]) : p \in Pids
  BY <1>1, <1>2, MySemsSound DEF InSet
<1>5. PICK w : w = FirstWaiter(MySems[k])
  OBVIOUS
<1>6. w \in Waiters(MySems[k])
  BY <1>1, <1>4, <1>5, DequeueFacts DEF SemSound
<1>7. w \in Pids /\ status[w] = "Blocked" /\ call[w] = SemCall(k)
  BY <1>3, <1>4, <1>6 DEF LiveWaiters, MySems, SemSound
<1>8. status'[w] = "Ready" /\ \A p \in Pids \ {w} : status'[p] = status[p]
  BY <1>1, <1>3, <1>5, <1>7
<1>9. WaitIn(status', call, rax, data) = WaitIn(status, call, rax, data)
  BY <1>7, <1>8 DEF WaitIn, SemCall
<1>10. LifeIn(status', exitCode) = LifeIn(status, exitCode)
  BY <1>7, <1>8 DEF LifeIn
<1>11. QED
  BY <1>2, <1>9, <1>10, Mapping

(* Every handler is a step of ProcessLife or none.                          *)
LEMMA NextLife ==
    ASSUME LibraryKills, NoBlockedKill, NoSecondKill
    PROVE  IInv /\ FamilyInv /\ LiveInv /\ [Next]_vars => [Life!Next]_<<Lives, Waits>>
<1> SUFFICES ASSUME IInv, FamilyInv, LiveInv, [Next]_vars
             PROVE  [Life!Next]_<<Lives, Waits>>
  OBVIOUS
<1>1. CASE Exit \/ KillSelf
  <2>1. PICK ret \in Codes : ExitWith(ret)
    BY <1>1 DEF Exit, KillSelf, Codes
  <2>2. Life!End(cur, ret) /\ cur \in Pids
    BY <2>1, ExitWithLife, CurrentLive
  <2>3. QED
    BY <2>1, <2>2 DEF Life!Next
<1>2. CASE KillOther
  <2>1. PICK p \in Pids : Life!End(p, KillCode)
    BY <1>2, KillOtherLife
  <2>2. KillCode \in Codes
    BY DEF Codes
  <2>3. QED
    BY <2>1, <2>2 DEF Life!Next
<1>3. CASE ClockSwitch \/ SemBlock
  BY <1>3, ClockSwitchLife, SemBlockLife DEF Life!Next
<1>4. CASE Spawn \/ VFork
  BY <1>4, SpawnLife, VForkLife DEF Life!Next
<1>5. CASE WaitPid
  BY <1>5, WaitPidLife DEF Life!Next
<1>6. CASE SemNew \/ SemRemove \/ SemTake \/ SemGive \/ Shutdown \/ SpawnPanics \/ UNCHANGED vars
  <2>1. UNCHANGED <<status, exitCode, data, call, rax>>
    BY <1>6 DEF SemNew, SemRemove, SemTake, SemGive, Shutdown, SpawnPanics, vars, procVars
  <2>2. UNCHANGED <<Lives, Waits>>
    BY <2>1, Mapping
  <2>3. QED
    BY <2>2
<1>7. QED
  BY <1>1, <1>2, <1>3, <1>4, <1>5, <1>6, SemWakeLife DEF Next

(* Initially only the kernel lives, and nobody waits.                       *)
LEMMA InitLife == Init => Life!Init
<1> SUFFICES ASSUME Init PROVE Life!Init
  OBVIOUS
<1>1. LifeIn(status, exitCode) = [p \in Pids |-> IF p = KERNEL THEN Life!Living ELSE Life!NotBegun]
  BY DEF Init, LifeIn, Life!Living, Life!NotBegun
<1>2. WaitIn(status, call, rax, data) = [p \in Pids |-> Life!Idle]
  BY DEF Init, WaitIn, NoCall, Life!Idle
<1>3. QED
  BY <1>1, <1>2, Mapping DEF Life!Init

(* The process manager implements ProcessLife for programs that kill no     *)
(* process that is blocked or dead: a process ends once, its exit code      *)
(* never changes, and every wait_pid returns the exit code of its target,   *)
(* after the exit (manager.rs:134-240).                                     *)
THEOREM LivesAsPromised == ASSUME LibraryKills, NoBlockedKill, NoSecondKill PROVE Spec => LifeCycle
<1>1. Init => Life!Init
  BY InitLife
<1>2. IInv /\ FamilyInv /\ LiveInv /\ [Next]_vars => [Life!Next]_<<Lives, Waits>>
  BY NextLife
<1>3. QED
  BY <1>1, <1>2, Invariant, FamilyInvariant, LiveInvariant, PTL
     DEF Spec, LifeCycle, Life!Spec, Life!lifeVars

-----------------------------------------------------------------------------
(* Each family sees SemFamily.  BlockedMembers: the blocked members of g in *)
(* the middle of a handler; FamilyStep: what FamilyView allows a step.      *)
BlockedMembers(st, cl, dt, g) ==
    {p \in Pids : dt[p] = g /\ st[p] = "Blocked" /\ cl[p].op = "sem_wait"}

FamilyStep(g) ==
    \/ UNCHANGED <<sems[g], BlockedIn(g)>>
    \/ CallStep(g) \/ LastLeaves(g)

(* The blocked programs of g in the refinement mapping.                     *)
LEMMA BlockedMapping ==
    ASSUME NEW g
    PROVE  /\ BlockedIn(g) = BlockedMembers(status, call, data, g)
           /\ BlockedIn(g)' = BlockedMembers(status', call', data', g)
  BY DEF BlockedIn, BlockedMembers

(* switch_next lets nobody out of a semaphore: it restores Ready processes. *)
LEMMA SwitchBlocked ==
    ASSUME NEW st \in [Pids -> Statuses], NEW rq \in Seq(Pids), NEW rx, NEW cl \in [Pids -> Calls],
           NEW dt, dt = data', SwitchNext(st, rq, rx, cl, dt), NEW g
    PROVE  BlockedIn(g)' = BlockedMembers(st, cl, dt, g)
<1>1. CASE status' = st /\ call' = cl
  BY <1>1, BlockedMapping
<1>2. ASSUME NEW n \in Runnable(st, rq), Restore(rq[n], st, rx, cl)
      PROVE  BlockedIn(g)' = BlockedMembers(st, cl, dt, g)
  <2>1. PICK p \in Pids : p = rq[n]
    BY DEF Runnable
  <2>2. st[p] = "Ready"
    BY <2>1 DEF Runnable
  <2>3. \A t \in Pids : /\ status'[t] = IF t = p THEN "Running" ELSE st[t]
                        /\ call'[t] = IF t = p THEN NoCall ELSE cl[t]
    BY <1>2, <2>1 DEF Restore
  <2>4. BlockedMembers(status', call', dt, g) = BlockedMembers(st, cl, dt, g)
    BY <2>2, <2>3 DEF BlockedMembers
  <2>5. QED
    BY <2>4, BlockedMapping
<1>3. QED
  BY <1>1, <1>2 DEF SwitchNext, KeepCurrent, RestorePanics

(* Scheduling, creating processes and wait_pid are invisible to a family.   *)
LEMMA ClockSwitchFamilyView ==
    ASSUME IInv, LiveInv, ClockSwitch, NEW g \in Pids PROVE FamilyStep(g)
<1> DEFINE st == Saved(cur, "Ready")
           rq == Append(ready, cur)
           rx == [rax EXCEPT ![cur] = NoRet]
<1>1. Up /\ UNCHANGED <<data, sems>> /\ SwitchNext(st, rq, rx, call, data)
  BY DEF ClockSwitch
<1>2. /\ cur \in Pids /\ ready \in Seq(Pids) /\ status \in [Pids -> Statuses]
      /\ call \in [Pids -> Calls] /\ status[cur] \in {"Running", "Ready"}
  BY <1>1, CurrentLive
<1>3. /\ st \in [Pids -> Statuses] /\ rq \in Seq(Pids)
      /\ st[cur] = "Ready" /\ \A p \in Pids \ {cur} : st[p] = status[p]
  BY <1>2 DEF Saved, Statuses
<1> HIDE DEF st, rq, rx
<1>4. BlockedIn(g)' = BlockedMembers(st, call, data, g)
  BY <1>1, <1>2, <1>3, SwitchBlocked
<1>5. BlockedMembers(st, call, data, g) = BlockedMembers(status, call, data, g)
  BY <1>2, <1>3 DEF BlockedMembers
<1>6. QED
  BY <1>1, <1>4, <1>5, BlockedMapping DEF FamilyStep

(* A new process joins no family but its own, or that of its parent.        *)
LEMMA SpawnFamilyView ==
    ASSUME IInv, FamilyInv, LiveInv, Spawn, NEW g \in Pids PROVE FamilyStep(g)
<1>1. PICK c \in Pids : /\ TakePid(c)
                        /\ status' = [status EXCEPT ![c] = "Ready"]
                        /\ data'   = [data EXCEPT ![c] = c]
  BY DEF Spawn
<1>2. UNCHANGED <<call, sems>>
  BY DEF Spawn
<1>3. status \in [Pids -> Statuses] /\ data \in [Pids -> Pids \cup {NoPid}]
  BY CurrentLive
<1>4. status[c] = "Absent"
  BY <1>1, NewUnborn
<1>5. status'[c] = "Ready" /\ \A p \in Pids \ {c} : status'[p] = status[p] /\ data'[p] = data[p]
  BY <1>1, <1>3
<1>6. BlockedMembers(status', call, data', g) = BlockedMembers(status, call, data, g)
  BY <1>4, <1>5 DEF BlockedMembers
<1>7. QED
  BY <1>2, <1>6, BlockedMapping DEF FamilyStep

LEMMA VForkFamilyView ==
    ASSUME IInv, FamilyInv, LiveInv, VFork, NEW g \in Pids PROVE FamilyStep(g)
<1>1. PICK c \in Pids :
         /\ TakePid(c)
         /\ data' = ForkData(c)
         /\ SwitchNext(ForkStatus(c), ready \o <<c, cur>>, ForkRax(c), call, data')
  BY DEF VFork
<1>2. UNCHANGED sems /\ Up
  BY DEF VFork, User
<1>3. /\ cur \in Pids /\ ready \in Seq(Pids) /\ call \in [Pids -> Calls]
      /\ status \in [Pids -> Statuses] /\ data \in [Pids -> Pids \cup {NoPid}]
      /\ status[cur] \in {"Running", "Ready"}
  BY <1>2, CurrentLive
<1>4. status[c] = "Absent" /\ c # cur
  BY <1>1, <1>3, NewUnborn
<1> DEFINE st == ForkStatus(c)
           rq == ready \o <<c, cur>>
<1>5. /\ st \in [Pids -> Statuses] /\ st[c] = "Ready" /\ st[cur] = "Ready"
      /\ \A p \in Pids \ {c, cur} : st[p] = status[p]
  BY <1>3, <1>4 DEF ForkStatus, Statuses
<1>6. rq \in Seq(Pids) /\ \A p \in Pids \ {c} : data'[p] = data[p]
  BY <1>1, <1>3 DEF ForkData
<1>7. SwitchNext(st, rq, ForkRax(c), call, data')
  BY <1>1
<1> HIDE DEF st, rq
<1>8. BlockedIn(g)' = BlockedMembers(st, call, data', g)
  BY <1>3, <1>5, <1>6, <1>7, SwitchBlocked
<1>9. BlockedMembers(st, call, data', g) = BlockedMembers(status, call, data, g)
  BY <1>3, <1>4, <1>5, <1>6 DEF BlockedMembers
<1>10. QED
  BY <1>2, <1>8, <1>9, BlockedMapping DEF FamilyStep

(* A process that blocks in call c joins the blocked ones of its family if  *)
(* c is sem_wait.                                                           *)
LEMMA BlockInFamilyView ==
    ASSUME IInv, LiveInv, User, NEW c \in Calls, BlockIn(c), UNCHANGED data, NEW g \in Pids
    PROVE  BlockedIn(g)' = BlockedIn(g) \cup
               (IF g = data[cur] /\ c.op = "sem_wait" THEN {cur} ELSE {})
<1> DEFINE st == Saved(cur, "Blocked")
           cl == [call EXCEPT ![cur] = c]
           rx == [rax EXCEPT ![cur] = NoRet]
<1>1. Up /\ data = data' /\ SwitchNext(st, ready, rx, cl, data)
  BY DEF User, BlockIn
<1>2. /\ cur \in Pids /\ ready \in Seq(Pids) /\ status \in [Pids -> Statuses]
      /\ call \in [Pids -> Calls] /\ status[cur] \in {"Running", "Ready"}
  BY <1>1, CurrentLive
<1>3. /\ st \in [Pids -> Statuses] /\ cl \in [Pids -> Calls]
      /\ st[cur] = "Blocked" /\ cl[cur] = c
      /\ \A p \in Pids \ {cur} : st[p] = status[p] /\ cl[p] = call[p]
  BY <1>2 DEF Saved, Statuses
<1> HIDE DEF st, cl, rx
<1>4. BlockedIn(g)' = BlockedMembers(st, cl, data, g)
  BY <1>1, <1>2, <1>3, SwitchBlocked
<1>5. BlockedMembers(st, cl, data, g) = BlockedMembers(status, call, data, g) \cup
          (IF g = data[cur] /\ c.op = "sem_wait" THEN {cur} ELSE {})
  BY <1>2, <1>3 DEF BlockedMembers
<1>6. QED
  BY <1>4, <1>5, BlockedMapping

(* wait_pid touches no semaphore; an end leaves the family.                 *)
LEMMA WaitPidFamilyView == ASSUME IInv, LiveInv, WaitPid, NEW g \in Pids PROVE FamilyStep(g)
<1>1. PICK q \in Pids : BlockIn(WaitCall(q))
  BY DEF WaitPid
<1>2. User /\ UNCHANGED <<data, sems>> /\ WaitCall(q) \in Calls /\ WaitCall(q).op # "sem_wait"
  BY CallTypes DEF WaitPid, WaitCall
<1>3. BlockedIn(g)' = BlockedIn(g)
  BY <1>1, <1>2, BlockInFamilyView
<1>4. QED
  BY <1>2, <1>3 DEF FamilyStep

(* The end of a process that is not blocked: those it wakes were in         *)
(* wait_pid, and the semaphores stay as long as somebody shares them.       *)
LEMMA KillFamilyView ==
    ASSUME IInv, LiveInv, NEW q \in Pids, NEW ret, KillProcess(q, ret), status[q] # "Blocked",
           NEW g \in Pids, BlockedIn(g)' = BlockedMembers(StatusAfterKill(q), call, DataAfterKill(q), g)
    PROVE  FamilyStep(g)
<1> DEFINE st == StatusAfterKill(q)
           dt == DataAfterKill(q)
<1>1. /\ data \in [Pids -> Pids \cup {NoPid}] /\ call \in [Pids -> Calls]
      /\ LiveWaiters(data, waitq, sems)
  BY CurrentLive
<1>2. /\ dt[q] = NoPid /\ g # NoPid /\ \A p \in Pids \ {q} : dt[p] = data[p]
  BY <1>1, PidFacts DEF DataAfterKill
<1>3. \A p \in Pids : p \in waitq[q] => call[p].op # "sem_wait"
  BY <1>1 DEF LiveWaiters, IInv, WaitersExact, WaitCall
<1>4. \A p \in Pids \ {q} : p \notin waitq[q] => st[p] = status[p]
  BY DEF StatusAfterKill
<1>5. data' = dt /\ sems' = SemsAfterKill(q)
  BY DEF KillProcess
<1>6. sems'[g] = sems[g] \/ (sems'[g] = NoSems /\ \A p \in Pids : data'[p] # g)
  BY <1>5 DEF SemsAfterKill
<1> HIDE DEF st, dt
<1>7. BlockedMembers(st, call, dt, g) = BlockedMembers(status, call, data, g)
  BY <1>2, <1>3, <1>4 DEF BlockedMembers
<1>8. BlockedIn(g)' = BlockedIn(g)
  BY <1>7, BlockedMapping DEF st, dt
<1>9. QED
  BY <1>6, <1>8 DEF FamilyStep, LastLeaves

LEMMA ExitWithFamilyView ==
    ASSUME IInv, LiveInv, NEW ret \in Codes, ExitWith(ret), NEW g \in Pids PROVE FamilyStep(g)
<1>1. Up /\ KillProcess(cur, ret)
  BY DEF ExitWith, User
<1>2. PICK w \in Ascending(waitq[cur]) :
         SwitchNext(StatusAfterKill(cur), ready \o w, RaxAfterKill(cur, ret),
                    call, DataAfterKill(cur))
  BY DEF ExitWith
<1>3. /\ TypeOK /\ cur \in Pids /\ call \in [Pids -> Calls]
      /\ status[cur] \in {"Running", "Ready"}
  BY <1>1, CurrentLive
<1>4. StatusAfterKill(cur) \in [Pids -> Statuses] /\ ready \o w \in Seq(Pids)
  BY <1>1, <1>3, KillTypes, KillKeepsSeen
<1>5. DataAfterKill(cur) = data'
  BY <1>1 DEF KillProcess
<1>6. BlockedIn(g)' = BlockedMembers(StatusAfterKill(cur), call, DataAfterKill(cur), g)
  <2> DEFINE st == StatusAfterKill(cur)
             rq == ready \o w
             rx == RaxAfterKill(cur, ret)
             dt == DataAfterKill(cur)
  <2>1. /\ SwitchNext(st, rq, rx, call, dt) /\ dt = data' /\ call \in [Pids -> Calls]
        /\ st \in [Pids -> Statuses] /\ rq \in Seq(Pids)
    BY <1>2, <1>3, <1>4, <1>5
  <2> HIDE DEF st, rq, rx, dt
  <2>2. BlockedIn(g)' = BlockedMembers(st, call, dt, g)
    BY <2>1, SwitchBlocked
  <2>3. QED
    BY <2>2 DEF st, dt
<1>7. QED
  BY <1>1, <1>3, <1>6, KillFamilyView

LEMMA KillOtherFamilyView ==
    ASSUME NoBlockedKill, IInv, LiveInv, KillOther, NEW g \in Pids PROVE FamilyStep(g)
<1>1. PICK q \in (KillTargets \cap Pids) \ {cur} :
         /\ status[q] \in Killable
         /\ KillProcess(q, KillCode)
         /\ status' = StatusAfterKill(q)
  BY DEF KillOther
<1>2. UNCHANGED call /\ q \in Pids /\ status[q] # "Blocked"
  BY <1>1 DEF KillOther, NoBlockedKill
<1>3. BlockedIn(g)' = BlockedMembers(StatusAfterKill(q), call, DataAfterKill(q), g)
  BY <1>1, <1>2, BlockedMapping DEF KillProcess
<1>4. QED
  BY <1>1, <1>2, <1>3, KillFamilyView

(* A semaphore call touches the set of the caller's family only.            *)
LEMMA OwnSemsOnly ==
    ASSUME IInv, User, NEW set, SetMySems(set)
    PROVE  /\ data[cur] \in Pids /\ sems'[data[cur]] = set
           /\ \A g \in Pids : g # data[cur] => sems'[g] = sems[g]
<1>1. TypeOK /\ data[cur] \in Pids
  BY CurrentFamily DEF IInv
<1>2. QED
  BY <1>1 DEF TypeOK, SetMySems

(* Calls that neither block nor wake.                                       *)
LEMMA SemQuietFamilyView ==
    ASSUME IInv, LiveInv, SemNew \/ SemRemove \/ SemTake \/ SemGive, NEW g \in Pids
    PROVE  FamilyStep(g)
<1>1. User /\ UNCHANGED <<status, call, data>>
  BY DEF SemNew, SemRemove, SemTake, SemGive, procVars
<1>2. BlockedIn(g)' = BlockedIn(g)
  BY <1>1, BlockedMapping
<1>3. PICK set : SetMySems(set)
  BY DEF SemNew, SemRemove, SemTake, SemGive
<1>4. CASE g # data[cur]
  BY <1>1, <1>2, <1>3, <1>4, OwnSemsOnly DEF FamilyStep
<1>5. CASE g = data[cur] /\ SemNew
  <2>1. PICK k \in Keys, v \in SemValues : SetMySems(Insert(MySems, k, v))
    BY <1>5 DEF SemNew
  <2>2. sems'[g] = Insert(sems[g], k, v)
    BY <1>1, <1>5, <2>1, OwnSemsOnly DEF MySems
  <2>3. QED
    BY <1>2, <1>5, <2>2 DEF FamilyStep, CallStep
<1>6. CASE g = data[cur] /\ SemRemove
  <2>1. PICK k \in Keys : SetMySems(Discard(MySems, k))
    BY <1>6 DEF SemRemove
  <2>2. sems'[g] = Discard(sems[g], k)
    BY <1>1, <1>6, <2>1, OwnSemsOnly DEF MySems
  <2>3. QED
    BY <1>2, <1>6, <2>2 DEF FamilyStep, CallStep
<1>7. CASE g = data[cur] /\ SemTake
  <2>1. PICK k \in Keys : /\ InSet(MySems, k) /\ ~WouldBlock(MySems[k])
                          /\ SetMySems([MySems EXCEPT ![k] = Take(@)])
    BY <1>7 DEF SemTake
  <2>2. /\ k \in DOMAIN sems[g] /\ ~WouldBlock(sems[g][k])
        /\ sems'[g] = [sems[g] EXCEPT ![k] = Take(sems[g][k])]
    BY <1>1, <1>7, <2>1, OwnSemsOnly DEF MySems, InSet
  <2>3. Family(g)!WaitOn(cur, k)
    BY <1>2, <2>2 DEF Family!WaitOn, Family!SetSem, Family!WouldBlock, WouldBlock,
       Family!Take, Take, Family!Enqueue, Enqueue
  <2>4. QED
    BY <1>7, <2>2, <2>3 DEF FamilyStep, CallStep
<1>8. CASE g = data[cur] /\ SemGive
  <2>1. PICK k \in Keys : /\ InSet(MySems, k) /\ ~HasWaiters(MySems[k])
                          /\ SetMySems([MySems EXCEPT ![k] = Give(@)])
    BY <1>8 DEF SemGive
  <2>2. /\ k \in DOMAIN sems[g] /\ ~HasWaiters(sems[g][k])
        /\ sems'[g] = [sems[g] EXCEPT ![k] = Give(sems[g][k])]
    BY <1>1, <1>8, <2>1, OwnSemsOnly DEF MySems, InSet
  <2>3. Family(g)!SignalTo(k)
    BY <1>2, <2>2 DEF Family!SignalTo, Family!SetSem, Family!HasWaiters, HasWaiters,
       Family!Give, Give, Family!Dequeue, Dequeue, Family!FirstWaiter, FirstWaiter
  <2>4. QED
    BY <1>8, <2>2, <2>3 DEF FamilyStep, CallStep
<1>9. QED
  BY <1>4, <1>5, <1>6, <1>7, <1>8

(* The caller of a sem_wait without a token joins the blocked.              *)
LEMMA SemBlockFamilyView == ASSUME IInv, LiveInv, SemBlock, NEW g \in Pids PROVE FamilyStep(g)
<1>1. PICK k \in Keys : /\ InSet(MySems, k) /\ WouldBlock(MySems[k])
                        /\ SetMySems([MySems EXCEPT ![k] = Enqueue(@, cur)])
                        /\ BlockIn(SemCall(k))
  BY DEF SemBlock
<1>2. User /\ UNCHANGED data /\ SemCall(k) \in Calls /\ SemCall(k).op = "sem_wait"
  BY CallTypes DEF SemBlock, SemCall
<1>3. BlockedIn(g)' = BlockedIn(g) \cup (IF g = data[cur] THEN {cur} ELSE {})
  BY <1>1, <1>2, BlockInFamilyView
<1>4. CASE g # data[cur]
  BY <1>1, <1>2, <1>3, <1>4, OwnSemsOnly DEF FamilyStep
<1>5. CASE g = data[cur]
  <2>1. /\ k \in DOMAIN sems[g] /\ WouldBlock(sems[g][k])
        /\ sems'[g] = [sems[g] EXCEPT ![k] = Enqueue(sems[g][k], cur)]
    BY <1>1, <1>2, <1>5, OwnSemsOnly DEF MySems, InSet
  <2>2. BlockedIn(g)' = BlockedIn(g) \cup {cur}
    BY <1>3, <1>5
  <2>3. Family(g)!WaitOn(cur, k)
    BY <2>1, <2>2 DEF Family!WaitOn, Family!SetSem, Family!WouldBlock, WouldBlock,
       Family!Take, Take, Family!Enqueue, Enqueue
  <2>4. QED
    BY <1>5, <2>1, <2>3 DEF FamilyStep, CallStep
<1>6. QED
  BY <1>4, <1>5

(* A signal lets go the first waiter, a member of the same family.          *)
LEMMA SemWakeFamilyView == ASSUME IInv, LiveInv, SemWake, NEW g \in Pids PROVE FamilyStep(g)
<1>1. PICK k \in Keys : /\ InSet(MySems, k) /\ HasWaiters(MySems[k])
                        /\ SetMySems([MySems EXCEPT ![k] = Dequeue(@)])
                        /\ status' = [status EXCEPT ![FirstWaiter(MySems[k])] = "Ready"]
  BY DEF SemWake
<1>2. User /\ UNCHANGED <<data, call>>
  BY DEF SemWake
<1>3. /\ status \in [Pids -> Statuses] /\ data[cur] \in Pids
      /\ LiveWaiters(data, waitq, sems)
  BY <1>2, CurrentLive, CurrentFamily
<1>4. /\ MySems[k] \in Semaphores(Pids) /\ k \in DOMAIN MySems
      /\ SemSound(MySems[k], data[cur], k, status, call, data)
      /\ \A p \in Waiters(MySems[k]) : p \in Pids
  BY <1>1, <1>2, MySemsSound DEF InSet
<1>5. PICK w : w = FirstWaiter(MySems[k])
  OBVIOUS
<1>6. w \in Waiters(MySems[k])
  BY <1>1, <1>4, <1>5, DequeueFacts DEF SemSound
<1>7. w \in Pids /\ data[w] = data[cur]
  BY <1>3, <1>4, <1>6 DEF LiveWaiters, MySems, SemSound
<1>8. status'[w] = "Ready" /\ \A p \in Pids \ {w} : status'[p] = status[p]
  BY <1>1, <1>3, <1>5, <1>7
<1>9. BlockedIn(g)' = IF g = data[cur] THEN BlockedIn(g) \ {w} ELSE BlockedIn(g)
  <2>1. BlockedMembers(status', call, data, g) =
            IF g = data[cur] THEN BlockedMembers(status, call, data, g) \ {w}
            ELSE BlockedMembers(status, call, data, g)
    BY <1>7, <1>8 DEF BlockedMembers
  <2>2. QED
    BY <1>2, <2>1, BlockedMapping
<1>10. CASE g # data[cur]
  BY <1>1, <1>2, <1>9, <1>10, OwnSemsOnly DEF FamilyStep
<1>11. CASE g = data[cur]
  <2>1. /\ k \in DOMAIN sems[g] /\ HasWaiters(sems[g][k])
        /\ sems'[g] = [sems[g] EXCEPT ![k] = Dequeue(sems[g][k])]
    BY <1>1, <1>2, <1>11, OwnSemsOnly DEF MySems, InSet
  <2>2. BlockedIn(g)' = BlockedIn(g) \ {FirstWaiter(sems[g][k])}
    BY <1>5, <1>9, <1>11 DEF MySems
  <2>3. Family(g)!SignalTo(k)
    BY <2>1, <2>2 DEF Family!SignalTo, Family!SetSem, Family!HasWaiters, HasWaiters,
       Family!Give, Give, Family!Dequeue, Dequeue, Family!FirstWaiter, FirstWaiter
  <2>4. QED
    BY <1>11, <2>1, <2>3 DEF FamilyStep, CallStep
<1>12. QED
  BY <1>10, <1>11

(* Every handler, seen by one family.                                       *)
LEMMA NextFamilyView ==
    ASSUME LibraryKills, NoBlockedKill, IInv, FamilyInv, LiveInv, [Next]_vars, NEW g \in Pids
    PROVE  FamilyStep(g)
<1>1. CASE Exit \/ KillSelf
  <2>1. PICK ret \in Codes : ExitWith(ret)
    BY <1>1 DEF Exit, KillSelf, Codes
  <2>2. QED
    BY <2>1, ExitWithFamilyView
<1>2. CASE Shutdown \/ SpawnPanics \/ UNCHANGED vars
  <2>1. UNCHANGED <<status, call, data, sems>>
    BY <1>2 DEF Shutdown, SpawnPanics, vars, procVars
  <2>2. QED
    BY <2>1, BlockedMapping DEF FamilyStep
<1>3. QED
  BY <1>1, <1>2, ClockSwitchFamilyView, SpawnFamilyView, VForkFamilyView, KillOtherFamilyView,
     WaitPidFamilyView, SemQuietFamilyView, SemBlockFamilyView, SemWakeFamilyView DEF Next

(* What SemFamily, and with it the proofs about dinner, fish and mq, takes  *)
(* for granted of the kernel: for every family, a step either leaves its    *)
(* semaphores and its blocked members alone, is the semaphore call of the   *)
(* member on the processor, or drops the set with the last member.          *)
THEOREM FamiliesSeeSemFamily == ASSUME LibraryKills, NoBlockedKill PROVE Spec => FamilyView
<1>1. IInv /\ FamilyInv /\ LiveInv /\ [Next]_vars => \A g \in Pids : FamilyStep(g)
  BY NextFamilyView
<1>2. IInv /\ FamilyInv /\ LiveInv /\ [Next]_vars
         => [\A g \in Pids : \/ UNCHANGED <<sems[g], BlockedIn(g)>>
                             \/ CallStep(g) \/ LastLeaves(g)]_vars
  BY <1>1 DEF FamilyStep
<1>3. QED
  BY <1>2, Invariant, FamilyInvariant, LiveInvariant, PTL DEF Spec, FamilyView
====
