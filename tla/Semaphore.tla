----------------------------- MODULE Semaphore -----------------------------
(***************************************************************************)
(* The counting semaphore of the kernel (src/pkg/kernel/src/proc/sync.rs)  *)
(* and the keyed set of them that the processes of one vfork family share. *)
(* Pure operators only: each gives the new value of the semaphore or of    *)
(* the set; blocking and waking the processes is up to the caller.         *)
(*                                                                         *)
(* A semaphore set is a function whose domain is the set of keys in use.   *)
(***************************************************************************)
EXTENDS Naturals, Sequences

Semaphores(P) == [count : Nat, queue : Seq(P)]

IsSemaphoreSet(set, K, P) ==
    DOMAIN set \subseteq K /\ set \in [DOMAIN set -> Semaphores(P)]

NoSems == [k \in {} |-> [count |-> 0, queue |-> <<>>]]

NewSemaphore(value) == [count |-> value, queue |-> <<>>]

(* A wait takes a token when there is one and queues the caller when not. *)
MutNeverBlocks(s) == FALSE
WouldBlock(s) == s.count = 0
Take(s) == [s EXCEPT !.count = @ - 1]
MutNotEnqueued(s, pid) == s
Enqueue(s, pid) == [s EXCEPT !.queue = Append(@, pid)]

(* A signal hands the token to the longest waiter, else banks it. *)
HasWaiters(s) == s.queue # <<>>
FirstWaiter(s) == Head(s.queue)
MutPeek(s) == s                                  \* front() for pop_front()
MutDequeueAndCount(s) == [count |-> s.count + 1, queue |-> Tail(s.queue)]
Dequeue(s) == [s EXCEPT !.queue = Tail(@)]
Give(s) == [s EXCEPT !.count = @ + 1]

(* SemaphoreSet::insert replaces a semaphore that already has the key. *)
Insert(set, key, value) ==
    [k \in DOMAIN set \cup {key} |->
        IF k = key THEN NewSemaphore(value) ELSE set[k]]

Discard(set, key) == [k \in DOMAIN set \ {key} |-> set[k]]

InSet(set, key) == key \in DOMAIN set

Waiters(s) == {s.queue[i] : i \in DOMAIN s.queue}
=============================================================================
