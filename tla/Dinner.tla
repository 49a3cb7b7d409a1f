------------------------------- MODULE Dinner -------------------------------
(***************************************************************************)
(* The dining philosophers application (src/pkg/app/dinner/src/main.rs) on *)
(* the semaphores of the kernel.  A philosopher is a script of semaphore   *)
(* operations, repeated.                                                   *)
(***************************************************************************)
EXTENDS SemFamily

CONSTANTS
    Demos,      \* the demo modes the user may type: 1 is the deadlock demo
    EatTimes    \* turns of each philosopher (3 in the code)

PHILOSOPHER_COUNT == 5
Philosophers == 0..(PHILOSOPHER_COUNT - 1)
WaiterKey == 4              \* WAITER: Semaphore::new(4)
ChopstickKeys == 0..4       \* semaphore_array![0, 1, 2, 3, 4]

ASSUME DinnerAssumption == EatTimes \in Nat /\ EatTimes > 0 /\ Demos \subseteq 0..2

VARIABLES
    demo,      \* the mode read from the standard input
    pc,        \* philosopher -> index of its next operation
    turn,      \* philosopher -> turns completed
    main       \* main: forks 0..4, then waits for philosophers 0..4

vars == <<sems, blocked, demo, pc, turn, main>>

Left(p)  == p
Right(p) == (p + 1) % PHILOSOPHER_COUNT

Wait(k)   == [op |-> "wait", key |-> k]
Signal(k) == [op |-> "signal", key |-> k]

MutMeal(p) ==                                  \* left chopstick put down twice
    <<Wait(Left(p)), Wait(Right(p)), Signal(Left(p)), Signal(Left(p))>>

Meal(p) ==
    <<Wait(Left(p)), Wait(Right(p)), Signal(Left(p)), Signal(Right(p))>>

Script(p) ==
    IF demo = 1 THEN Meal(p)
    ELSE <<Wait(WaiterKey)>> \o Meal(p) \o <<Signal(WaiterKey)>>

(* main initialises the chopsticks and then, except in the deadlock demo,   *)
(* the waiter.                                                              *)
Chopsticks == [k \in ChopstickKeys |-> NewSemaphore(1)]

InitialSems(d) ==
    IF d = 1 THEN Chopsticks
    ELSE Insert(Chopsticks, WaiterKey, PHILOSOPHER_COUNT - 1)

Init ==
    /\ demo \in Demos
    /\ sems = InitialSems(demo)
    /\ pc   = [p \in Philosophers |-> 1]
    /\ turn = [p \in Philosophers |-> 0]
    /\ blocked = {}
    /\ main = 0

Finished(p) == turn[p] = EatTimes
Running(p)  == main > p /\ ~Finished(p) /\ p \notin blocked
Op(p) == Script(p)[pc[p]]

(* After the last operation of the script a turn is done.                   *)
Advance(p) ==
    IF pc[p] = Len(Script(p))
    THEN pc' = [pc EXCEPT ![p] = 1] /\ turn' = [turn EXCEPT ![p] = @ + 1]
    ELSE pc' = [pc EXCEPT ![p] = @ + 1] /\ UNCHANGED turn

Philosopher(p) ==
    /\ Running(p)
    /\ \/ Op(p).op = "wait"   /\ WaitOn(p, Op(p).key)
       \/ Op(p).op = "signal" /\ SignalTo(Op(p).key)
    /\ Advance(p)
    /\ UNCHANGED <<demo, main>>

(* sys_fork, and sys_wait_pid on each philosopher in turn.                  *)
Fork ==
    /\ main < PHILOSOPHER_COUNT
    /\ main' = main + 1
    /\ UNCHANGED <<demo, sems, pc, turn, blocked>>

Reap ==
    /\ main >= PHILOSOPHER_COUNT /\ main < 2 * PHILOSOPHER_COUNT
    /\ Finished(main - PHILOSOPHER_COUNT)
    /\ main' = main + 1
    /\ UNCHANGED <<demo, sems, pc, turn, blocked>>

Next == Fork \/ Reap \/ \E p \in Philosophers : Philosopher(p)

Spec == Init /\ [][Next]_vars
-----------------------------------------------------------------------------
(* Properties.                                                              *)

(* The first n operations of the script have returned to p.                 *)
Done(p, n) == pc[p] > n + 1 \/ (pc[p] = n + 1 /\ p \notin blocked)

(* How many of the operations of its meal have returned to p.               *)
MealDone(p, n) == IF demo = 1 THEN Done(p, n) ELSE Done(p, n + 1)

Holds(p, c) == \/ c = Left(p)  /\ MealDone(p, 1) /\ ~MealDone(p, 3)
               \/ c = Right(p) /\ MealDone(p, 2) /\ ~MealDone(p, 4)
Holders(c) == {p \in Philosophers : Holds(p, c)}

(* The philosophers the waiter has let in and not yet let go.               *)
Seated == IF demo = 1 THEN {} ELSE {p \in Philosophers : Done(p, 1)}

Stuck == /\ main >= PHILOSOPHER_COUNT
         /\ \E p \in Philosophers : ~Finished(p)
         /\ \A p \in Philosophers : Finished(p) \/ p \in blocked

(* Every token of a semaphore is banked in it or in the hands of a process  *)
(* whose wait returned: none is lost or minted when a signal hands one over *)
(* to a waiter.                                                             *)
TokensConserved ==
    \A k \in ChopstickKeys :
        sems[k].count + Cardinality(Holders(k))
            + (IF k = WaiterKey THEN Cardinality(Seated) ELSE 0)
          = InitialSems(demo)[k].count

(* A chopstick whose semaphore is its own is in at most one pair of hands   *)
(* (with the waiter, chopstick 4 shares its semaphore and is not).          *)
ChopsticksExclusive ==
    \A c \in ChopstickKeys :
        (demo = 1 \/ c # WaiterKey) => Cardinality(Holders(c)) <= 1

(* The deadlock demo gets stuck in one way only: everybody holds the left   *)
(* chopstick, so nobody has finished.                                       *)
StuckIsCircular ==
    (demo = 1 /\ Stuck) => \A p \in Philosophers : Holds(p, Left(p))

(* With the waiter the dinner never gets stuck: main.rs:12 has it let in at *)
(* most four philosophers "to avoid deadlock".                              *)
NoDeadlock == demo # 1 => ~Stuck
=============================================================================
