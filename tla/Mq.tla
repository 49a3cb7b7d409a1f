--------------------------------- MODULE Mq ---------------------------------
(***************************************************************************)
(* The mq application (src/pkg/app/mq/src/main.rs): one coffee maker and   *)
(* some customers around a rack of cups, with two counting semaphores and  *)
(* a mutex.                                                                *)
(***************************************************************************)
EXTENDS Integers, SemFamily

CONSTANTS
    CUP_CAPACITY,           \* 4 in the code
    TOTAL_CUSTOMERS,        \* 10
    CONSUME_PER_CUSTOMER    \* 5

ASSUME MqAssumption == /\ CUP_CAPACITY \in Nat \ {0}
                       /\ TOTAL_CUSTOMERS \in Nat \ {0}
                       /\ CONSUME_PER_CUSTOMER \in Nat \ {0}

TOTAL_PRODUCTION == TOTAL_CUSTOMERS * CONSUME_PER_CUSTOMER

(* Child 0 is the coffee maker, the others are the customers.               *)
Maker     == 0
Customers == 1..TOTAL_CUSTOMERS
Children  == 0..TOTAL_CUSTOMERS
MqKeys    == {"FULL_CAPACITY", "NON_EMPTY", "MUTEX"}

VARIABLES
    COFFEE_CUPS,   \* the shared counter
    pc,            \* child -> what it does next
    reg,           \* child -> its copy of COFFEE_CUPS in a register
    rounds,        \* child -> cups produced or drunk
    main           \* main: forks the children, waits for them, frees the semaphores

vars == <<sems, blocked, COFFEE_CUPS, pc, reg, rounds, main>>

(* What a child waits for, what it signals, and how often.                  *)
WaitsFor(c) == IF c = Maker THEN "FULL_CAPACITY" ELSE "NON_EMPTY"
MutSignals(c) == "NON_EMPTY"                   \* the rack is never freed
Signals(c)  == IF c = Maker THEN "NON_EMPTY" ELSE "FULL_CAPACITY"
Rounds(c)   == IF c = Maker THEN TOTAL_PRODUCTION ELSE CONSUME_PER_CUSTOMER

InitialValue(k) ==
    CASE k = "NON_EMPTY" -> 0 [] k = "FULL_CAPACITY" -> CUP_CAPACITY [] k = "MUTEX" -> 1

Init ==
    /\ sems = [k \in MqKeys |-> NewSemaphore(InitialValue(k))]
    /\ blocked = {}
    /\ COFFEE_CUPS = 0
    /\ pc = [c \in Children |-> "need"]
    /\ reg = [c \in Children |-> 0]
    /\ rounds = [c \in Children |-> 0]
    /\ main = 0

(* c, forked, not blocked and not done, is at label at and goes on to to.   *)
Exited(c) == rounds[c] = Rounds(c)
Go(c, at, to) ==
    /\ main > c /\ c \notin blocked /\ ~Exited(c)
    /\ pc[c] = at /\ pc' = [pc EXCEPT ![c] = to]
    /\ UNCHANGED main

Need(c) ==
    /\ Go(c, "need", "lock") /\ WaitOn(c, WaitsFor(c))
    /\ UNCHANGED <<COFFEE_CUPS, reg, rounds>>

MutLock(c) ==                                  \* MUTEX.wait() left out
    Go(c, "lock", "load") /\ UNCHANGED <<sems, blocked, COFFEE_CUPS, reg, rounds>>

Lock(c) ==
    /\ Go(c, "lock", "load") /\ WaitOn(c, "MUTEX")
    /\ UNCHANGED <<COFFEE_CUPS, reg, rounds>>

(* COFFEE_CUPS += 1 and -= 1: the clock may tick between the load and the   *)
(* store.                                                                   *)
Load(c) ==
    /\ Go(c, "load", "store")
    /\ reg' = [reg EXCEPT ![c] = COFFEE_CUPS]
    /\ UNCHANGED <<sems, blocked, COFFEE_CUPS, rounds>>

Store(c) ==
    /\ Go(c, "store", "unlock")
    /\ COFFEE_CUPS' = IF c = Maker THEN reg[c] + 1 ELSE reg[c] - 1
    /\ UNCHANGED <<sems, blocked, reg, rounds>>

Unlock(c) ==
    /\ Go(c, "unlock", "tell") /\ SignalTo("MUTEX")
    /\ UNCHANGED <<COFFEE_CUPS, reg, rounds>>

(* The last round ends in sys_exit.                                         *)
Tell(c) ==
    /\ Go(c, "tell", "need") /\ SignalTo(Signals(c))
    /\ rounds' = [rounds EXCEPT ![c] = @ + 1]
    /\ UNCHANGED <<COFFEE_CUPS, reg>>

Child(c) == Need(c) \/ Lock(c) \/ Load(c) \/ Store(c) \/ Unlock(c) \/ Tell(c)

Forked == TOTAL_CUSTOMERS + 1
Fork ==
    /\ main < Forked
    /\ main' = main + 1
    /\ UNCHANGED <<sems, blocked, COFFEE_CUPS, pc, reg, rounds>>

MutReap ==                                     \* the last customer is not waited for
    /\ main \in Forked..(2 * Forked - 1)
    /\ main = 2 * Forked - 1 \/ Exited(main - Forked)
    /\ main' = main + 1
    /\ UNCHANGED <<sems, blocked, COFFEE_CUPS, pc, reg, rounds>>

Reap ==
    /\ main \in Forked..(2 * Forked - 1)
    /\ Exited(main - Forked)
    /\ main' = main + 1
    /\ UNCHANGED <<sems, blocked, COFFEE_CUPS, pc, reg, rounds>>

FreeOrder == <<"MUTEX", "NON_EMPTY", "FULL_CAPACITY">>
Free ==
    /\ main \in (2 * Forked)..(2 * Forked + 2)
    /\ sems' = Discard(sems, FreeOrder[main - 2 * Forked + 1])
    /\ main' = main + 1
    /\ UNCHANGED <<blocked, COFFEE_CUPS, pc, reg, rounds>>

Next == Fork \/ Reap \/ Free \/ \E c \in Children : Child(c)

(* The scheduler runs every process that is not blocked.                    *)
Spec == Init /\ [][Next]_vars /\ WF_vars(Fork \/ Reap \/ Free)
             /\ \A c \in Children : WF_vars(Child(c))
-----------------------------------------------------------------------------
(* Properties.                                                              *)

(* The first wait of c has returned and its cup is not yet in the counter.  *)
Reserved(c) == pc[c] \in {"load", "store"} \/ (pc[c] = "lock" /\ c \notin blocked)

(* The cup of c is counted, the other side not yet told.                    *)
Owes(c) == pc[c] \in {"unlock", "tell"}

(* The two counting semaphores agree with the rack in every state: what is  *)
(* free and what is there, allowing for the children between their two      *)
(* semaphore calls.  Hence 0 <= COFFEE_CUPS <= CUP_CAPACITY, and no update  *)
(* of COFFEE_CUPS is lost (main.rs:81, 106).                                *)
TokensMatchCups ==
    MqKeys \subseteq DOMAIN sems =>
        /\ CUP_CAPACITY = sems["FULL_CAPACITY"].count + COFFEE_CUPS
                          + Cardinality({c \in {Maker} : Reserved(c)})
                          + Cardinality({c \in Customers : Owes(c)})
        /\ COFFEE_CUPS = sems["NON_EMPTY"].count
                          + Cardinality({c \in Customers : Reserved(c)})
                          + Cardinality({c \in {Maker} : Owes(c)})

(* main frees a semaphore only when no child will use it again              *)
(* (main.rs:57-65).                                                         *)
FreedUnused == DOMAIN sems # MqKeys => \A c \in Children : Exited(c)

(* Everybody gets his coffee, the maker finishes, the rack is empty and     *)
(* main has cleaned up.                                                     *)
CoffeeServed == <>(main = 2 * Forked + 3 /\ COFFEE_CUPS = 0)
=============================================================================
