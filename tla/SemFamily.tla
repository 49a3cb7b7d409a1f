------------------------------ MODULE SemFamily ------------------------------
(***************************************************************************)
(* A vfork family at work, as its programs see the system calls of         *)
(* ProcessManager: main has vforked the Threads, all share one semaphore   *)
(* set and the static variables of the program.  A semaphore call is one   *)
(* step; between two of them the scheduler, which starves no ready process *)
(* (ProcessManager!ReadyRuns), may run any thread that is not blocked.     *)
(*                                                                         *)
(* The saved program counter of a blocked process is already past its      *)
(* system call: whoever blocks moves on, and is in blocked until woken.    *)
(***************************************************************************)
EXTENDS Naturals, Sequences, FiniteSets, Semaphore

VARIABLES
    sems,      \* the semaphore set of the family
    blocked    \* threads inside a sem_wait that has not returned

SetSem(k, s) == sems' = [sems EXCEPT ![k] = s]

(* sys_sem_wait by p.                                                       *)
MutWaitReturns(p, k) ==                        \* block() forgotten
    /\ SetSem(k, IF WouldBlock(sems[k]) THEN Enqueue(sems[k], p) ELSE Take(sems[k]))
    /\ UNCHANGED blocked

WaitOn(p, k) ==
    \/ ~WouldBlock(sems[k]) /\ SetSem(k, Take(sems[k])) /\ UNCHANGED blocked
    \/ WouldBlock(sems[k])  /\ SetSem(k, Enqueue(sems[k], p)) /\ blocked' = blocked \cup {p}

(* sys_sem_signal.                                                          *)
SignalTo(k) ==
    \/ ~HasWaiters(sems[k]) /\ SetSem(k, Give(sems[k])) /\ UNCHANGED blocked
    \/ /\ HasWaiters(sems[k])
       /\ SetSem(k, Dequeue(sems[k]))
       /\ blocked' = blocked \ {FirstWaiter(sems[k])}
=============================================================================
