--------------------------- MODULE ProcessFamilies ---------------------------
(***************************************************************************)
(* The process manager as one vfork family sees it.  The models of the     *)
(* applications (Dinner, Fish, Mq) are built on SemFamily, where a family  *)
(* has a semaphore set to itself and a call is one step; this module       *)
(* states that ProcessManager offers each family just that.                *)
(***************************************************************************)
EXTENDS ProcessManager

BlockedIn(g) ==
    {p \in Pids : data[p] = g /\ status[p] = "Blocked" /\ call[p].op = "sem_wait"}

Family(g) == INSTANCE SemFamily WITH sems <- sems[g], blocked <- BlockedIn(g)

(* A semaphore call of a member.                                            *)
CallStep(g) ==
    /\ data[cur] = g
    /\ \/ \E k \in DOMAIN sems[g] : Family(g)!WaitOn(cur, k) \/ Family(g)!SignalTo(k)
       \/ /\ \E k \in Keys : \/ \E v \in SemValues : sems'[g] = Insert(sems[g], k, v)
                             \/ sems'[g] = Discard(sems[g], k)
          /\ UNCHANGED BlockedIn(g)

(* The last member is gone.                                                 *)
LastLeaves(g) == sems'[g] = NoSems /\ \A p \in Pids : data'[p] # g

(* Whatever the handlers do to queues, statuses and contexts, what happens  *)
(* to the semaphores and the blocked members of a family is a step of       *)
(* SemFamily, taken by the member on the processor: no other family, no     *)
(* exit, kill or clock switch takes a token, adds one, blocks a member or   *)
(* lets it go (mod.rs:198-245, manager.rs:134-240).                         *)
FamilyView ==
    [][\A g \in Pids : \/ UNCHANGED <<sems[g], BlockedIn(g)>>
                       \/ CallStep(g) \/ LastLeaves(g)]_vars
=============================================================================
