---------------------------- MODULE ProcessLife ----------------------------
(***************************************************************************)
(* What the process manager promises to the programs, without queues, a    *)
(* processor or statuses: a process begins once, ends once with one code   *)
(* that never changes, and whoever waits for it is told exactly that code, *)
(* after the end and before going on.  ProcessManager implements it.       *)
(***************************************************************************)
EXTENDS Naturals

CONSTANTS
    Procs,      \* process ids
    First,      \* the process that exists from the start
    Codes       \* codes a process may end with

VARIABLES
    life,       \* process -> not begun, alive, or ended with a code
    wait        \* process -> not waiting, blocked on a process, or told a code

lifeVars == <<life, wait>>

NotBegun == <<"unborn">>
Living   == <<"alive">>
Ended(c) == <<"ended", c>>

Idle         == <<"idle">>
BlockedOn(q) == <<"blocked", q>>
Told(c)      == <<"told", c>>

HasEnded(q) == \E c \in Codes : life[q] = Ended(c)

Init ==
    /\ life = [p \in Procs |-> IF p = First THEN Living ELSE NotBegun]
    /\ wait = [p \in Procs |-> Idle]

(* After every event the scheduler may let one process that was told its    *)
(* code go on; w is what the event left of wait.                            *)
Resume(w) ==
    \/ wait' = w
    \/ \E p \in Procs :
         /\ \E c \in Codes : w[p] = Told(c)
         /\ wait' = [w EXCEPT ![p] = Idle]

Begin(p) ==
    /\ life[p] = NotBegun
    /\ life' = [life EXCEPT ![p] = Living]
    /\ Resume(wait)

(* The end of p reaches all who wait for it in the same step.               *)
End(p, c) ==
    /\ life[p] = Living
    /\ life' = [life EXCEPT ![p] = Ended(c)]
    /\ Resume([w \in Procs |-> IF w = p THEN Idle
                               ELSE IF wait[w] = BlockedOn(p) THEN Told(c)
                               ELSE wait[w]])

(* A process may wait for one that has not begun, never for one that has    *)
(* ended: nobody would wake it.                                             *)
Wait(p, q) ==
    /\ life[p] = Living /\ wait[p] = Idle /\ ~HasEnded(q)
    /\ Resume([wait EXCEPT ![p] = BlockedOn(q)])
    /\ UNCHANGED life

Schedule == Resume(wait) /\ UNCHANGED life

Next ==
    \/ \E p \in Procs : Begin(p)
    \/ \E p \in Procs, c \in Codes : End(p, c)
    \/ \E p, q \in Procs : Wait(p, q)
    \/ Schedule

Spec == Init /\ [][Next]_lifeVars
=============================================================================
