-------------------------------- MODULE Fish --------------------------------
(***************************************************************************)
(* The fish application (src/pkg/app/fish/src/main.rs): three processes    *)
(* print "<", ">" and "_" and hand the turn to each other through their    *)
(* semaphores, so that the output repeats "<><_><>_", and all leave when   *)
(* enough is printed.                                                      *)
(***************************************************************************)
EXTENDS SemFamily

CONSTANT TOTAL_PRINTS        \* 400 in the code

ASSUME FishAssumption == TOTAL_PRINTS \in Nat /\ TOTAL_PRINTS > 0

(* Each fish is named after its semaphore, SEM_GT, SEM_LT or SEM_US, and    *)
(* prints one character; the sequence is the order in which they are forked.*)
Fishes == <<"GT", "LT", "US">>
FishNames == {"GT", "LT", "US"}
FishKeys  == FishNames \cup {"MUTEX"}

VARIABLES
    pc,        \* fish -> what it does next
    step,      \* STEP: position in the block of four
    pattern,   \* PATTERN: which of the two blocks
    printed,   \* what was printed so far; PRINT_COUNT is its length
    main       \* main: forks the three, then waits for the three

statics == <<step, pattern, printed>>
vars == <<sems, blocked, pc, statics, main>>

PRINT_COUNT == Len(printed)

Blocks == <<<<"LT", "GT", "LT", "US">>, <<"GT", "LT", "GT", "US">>>>
NextSem == Blocks[pattern + 1][step + 1]

Init ==
    /\ sems = [k \in FishKeys |-> NewSemaphore(IF k \in {"MUTEX", "LT"} THEN 1 ELSE 0)]
    /\ blocked = {}
    /\ pc = [f \in FishNames |-> "own"]
    /\ step = 0 /\ pattern = 0 /\ printed = <<>>
    /\ main = 0

(* f, forked and not blocked, is at label at and goes on to label to.       *)
Go(f, at, to) ==
    /\ \E i \in 1..main : i <= Len(Fishes) /\ Fishes[i] = f
    /\ f \notin blocked
    /\ pc[f] = at /\ pc' = [pc EXCEPT ![f] = to]
    /\ UNCHANGED main

WaitOwn(f)   == Go(f, "own", "mutex")   /\ WaitOn(f, f)       /\ UNCHANGED statics
WaitMutex(f) == Go(f, "mutex", "check") /\ WaitOn(f, "MUTEX") /\ UNCHANGED statics

Check(f) ==
    /\ Go(f, "check", IF PRINT_COUNT >= TOTAL_PRINTS THEN "byeGT" ELSE "print")
    /\ UNCHANGED <<sems, blocked, statics>>

MutTurn == step' = (step + 1) % 4 /\ UNCHANGED pattern     \* PATTERN not flipped

Turn ==
    /\ step' = (step + 1) % 4
    /\ pattern' = IF step + 1 < 4 THEN pattern ELSE (pattern + 1) % 2

PrintChar(f) ==
    /\ Go(f, "print", "next")
    /\ printed' = Append(printed, f)
    /\ Turn
    /\ UNCHANGED <<sems, blocked>>

SignalNext(f) == Go(f, "next", "unlock") /\ SignalTo(NextSem) /\ UNCHANGED statics
Unlock(f)     == Go(f, "unlock", "own")  /\ SignalTo("MUTEX") /\ UNCHANGED statics

(* broadcast_exit, and the exit that follows.                               *)
MutBroadcast(f) ==                             \* SEM_US left out
    /\ \/ Go(f, "byeGT", "byeLT") /\ SignalTo("GT")
       \/ Go(f, "byeLT", "leave") /\ SignalTo("LT")
    /\ UNCHANGED statics

Broadcast(f) ==
    /\ \/ Go(f, "byeGT", "byeLT") /\ SignalTo("GT")
       \/ Go(f, "byeLT", "byeUS") /\ SignalTo("LT")
       \/ Go(f, "byeUS", "leave") /\ SignalTo("US")
    /\ UNCHANGED statics

Leave(f) == Go(f, "leave", "exited") /\ SignalTo("MUTEX") /\ UNCHANGED statics

Fork ==
    /\ main < Len(Fishes)
    /\ main' = main + 1
    /\ UNCHANGED <<sems, blocked, pc, statics>>

Reap ==
    /\ main \in Len(Fishes)..(2 * Len(Fishes) - 1)
    /\ pc[Fishes[main - Len(Fishes) + 1]] = "exited"
    /\ main' = main + 1
    /\ UNCHANGED <<sems, blocked, pc, statics>>

FishStep(f) ==
    \/ WaitOwn(f) \/ WaitMutex(f) \/ Check(f) \/ PrintChar(f) \/ SignalNext(f)
    \/ Unlock(f) \/ Broadcast(f) \/ Leave(f)

Next == Fork \/ Reap \/ \E f \in FishNames : FishStep(f)

(* The scheduler runs every process that is not blocked.                    *)
Spec == Init /\ [][Next]_vars /\ WF_vars(Fork \/ Reap)
             /\ \A f \in FishNames : WF_vars(FishStep(f))
-----------------------------------------------------------------------------
(* Properties.                                                              *)

(* Character i of the endless output "<><_><>_<><_...".                     *)
Expected(i) == Blocks[(((i - 1) \div 4) % 2) + 1][((i - 1) % 4) + 1]

(* Whatever the interleaving, the output is in the order of the two blocks. *)
OutputInOrder == \A i \in DOMAIN printed : printed[i] = Expected(i)

(* Between its MUTEX.wait and its MUTEX.signal a fish is alone with STEP,   *)
(* PATTERN and PRINT_COUNT, also while everybody is leaving.                *)
Inside(f) ==
    /\ pc[f] \notin {"own", "mutex", "exited"}
    /\ ~(pc[f] = "check" /\ f \in blocked)
StaticsExclusive == \A f, g \in FishNames : Inside(f) /\ Inside(g) => f = g

(* Everybody leaves, main too, and exactly TOTAL_PRINTS were printed: the   *)
(* broadcast reaches every process still waiting.                           *)
EverybodyLeaves == <>(main = 2 * Len(Fishes) /\ PRINT_COUNT = TOTAL_PRINTS)
=============================================================================
