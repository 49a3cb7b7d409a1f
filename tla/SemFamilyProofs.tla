-------------------------- MODULE SemFamilyProofs --------------------------
(***************************************************************************)
(* What a semaphore call of a vfork family does, for any keys, any threads *)
(* and any program: the lemmas the proofs about the applications rest on.  *)
(*                                                                         *)
(* A program says with a function, here at, on which key each of its       *)
(* threads is, if it is blocked.  The queues of the semaphores then are    *)
(* the blocked threads, each once and on its key, and a semaphore has      *)
(* either tokens or waiters.                                               *)
(***************************************************************************)
EXTENDS SemFamily, TLAPS

InQueue(s, p) == \E i \in DOMAIN s.queue : s.queue[i] = p
NoDuplicates(q) == \A i, j \in DOMAIN q : q[i] = q[j] => i = j

QueuesMatch(K, P, set, out, at) ==
    /\ set \in [K -> Semaphores(P)]
    /\ out \subseteq P
    /\ \A k \in K :
          /\ \A p \in P : InQueue(set[k], p) <=> (p \in out /\ at[p] = k)
          /\ NoDuplicates(set[k].queue)
          /\ set[k].count > 0 => set[k].queue = <<>>

(* The outcomes of a call on key k: a token was taken or p is blocked; a     *)
(* token was banked or given to the waiter w.                               *)
Only(K, k) ==
    /\ \A j \in K : j # k => sems'[j] = sems[j]
    /\ sems[k].count \in Nat /\ sems'[k].count \in Nat
Took(k) ==
    /\ sems[k].count > 0 /\ sems'[k].count = sems[k].count - 1
    /\ blocked' = blocked
GotBlocked(p, k) ==
    /\ sems[k].count = 0 /\ sems'[k].count = 0
    /\ blocked' = blocked \cup {p}
Banked(k, at) ==
    /\ sems'[k].count = sems[k].count + 1 /\ blocked' = blocked
    /\ \A q \in blocked : at[q] # k
HandedTo(w, k, at) ==
    /\ sems[k].count = 0 /\ sems'[k].count = 0
    /\ w \in blocked /\ at[w] = k /\ blocked' = blocked \ {w}

WaitDone(K, P, p, k, at) ==
    /\ QueuesMatch(K, P, sems', blocked', at)
    /\ Only(K, k)
    /\ Took(k) \/ GotBlocked(p, k)
SignalDone(K, P, k, at, at2) ==
    /\ QueuesMatch(K, P, sems', blocked', at2)
    /\ Only(K, k)
    /\ Banked(k, at) \/ \E w \in P : HandedTo(w, k, at)

(* Whoever is blocked stays where it is.                                    *)
Follows(at, at2) == \A q \in blocked : at2[q] = at[q]

(* The queue loses its head and nothing else.                               *)
LEMMA TailMembers ==
    ASSUME NEW P, NEW q \in Seq(P), q # <<>>, NoDuplicates(q)
    PROVE  /\ Head(q) \in P /\ Tail(q) \in Seq(P)
           /\ NoDuplicates(Tail(q))
           /\ \A p \in P : (\E i \in DOMAIN Tail(q) : Tail(q)[i] = p)
                             <=> ((\E i \in DOMAIN q : q[i] = p) /\ p # Head(q))
<1>1. /\ Len(q) \in Nat /\ Len(q) > 0 /\ DOMAIN q = 1..Len(q)
      /\ DOMAIN Tail(q) = 1..(Len(q) - 1)
      /\ \A i \in DOMAIN Tail(q) : Tail(q)[i] = q[i + 1]
      /\ Head(q) = q[1] /\ \A i \in DOMAIN q : q[i] \in P
  OBVIOUS
<1>2. Head(q) \in P /\ Tail(q) \in Seq(P)
  OBVIOUS
<1>3. NoDuplicates(Tail(q))
  BY <1>1 DEF NoDuplicates
<1>4. ASSUME NEW p \in P, NEW i \in DOMAIN Tail(q), Tail(q)[i] = p
      PROVE  (\E j \in DOMAIN q : q[j] = p) /\ p # Head(q)
  <2>1. i + 1 \in DOMAIN q /\ q[i + 1] = p /\ 1 \in DOMAIN q /\ i + 1 # 1
    BY <1>1, <1>4
  <2>2. QED
    BY <2>1, <1>1 DEF NoDuplicates
<1>5. ASSUME NEW p \in P, NEW i \in DOMAIN q, q[i] = p, p # Head(q)
      PROVE  \E j \in DOMAIN Tail(q) : Tail(q)[j] = p
  <2>1. i # 1 /\ i - 1 \in DOMAIN Tail(q) /\ i = (i - 1) + 1
    BY <1>1, <1>5
  <2>2. Tail(q)[i - 1] = q[(i - 1) + 1]
    BY <2>1, <1>1
  <2>3. QED
    BY <2>1, <2>2, <1>5
<1>6. QED
  BY <1>2, <1>3, <1>4, <1>5

(* A new waiter enters at the end.                                          *)
LEMMA AppendMember ==
    ASSUME NEW P, NEW q \in Seq(P), NoDuplicates(q), NEW w \in P,
           \A i \in DOMAIN q : q[i] # w
    PROVE  /\ Append(q, w) \in Seq(P)
           /\ NoDuplicates(Append(q, w))
           /\ \A p \in P : (\E i \in DOMAIN Append(q, w) : Append(q, w)[i] = p)
                             <=> ((\E i \in DOMAIN q : q[i] = p) \/ p = w)
<1>1. /\ Len(q) \in Nat /\ DOMAIN q = 1..Len(q)
      /\ DOMAIN Append(q, w) = 1..(Len(q) + 1)
      /\ \A i \in DOMAIN q : Append(q, w)[i] = q[i]
      /\ Append(q, w)[Len(q) + 1] = w
  OBVIOUS
<1>2. Append(q, w) \in Seq(P)
  OBVIOUS
<1>3. NoDuplicates(Append(q, w))
  BY <1>1 DEF NoDuplicates
<1>4. ASSUME NEW p \in P
      PROVE  (\E i \in DOMAIN Append(q, w) : Append(q, w)[i] = p)
                             <=> ((\E i \in DOMAIN q : q[i] = p) \/ p = w)
  <2>1. \A i : i \in DOMAIN Append(q, w) <=> (i \in DOMAIN q \/ i = Len(q) + 1)
    BY <1>1
  <2>2. QED
    BY <2>1, <1>1
<1>5. QED
  BY <1>2, <1>3, <1>4

(* sem_wait: the caller takes a token, or is blocked on this key; nothing   *)
(* else happens to the semaphores or to the other threads.                  *)
LEMMA WaitEffect ==
    ASSUME NEW K, NEW P, NEW at, NEW at2, QueuesMatch(K, P, sems, blocked, at),
           NEW p \in P \ blocked, NEW k \in K, WaitOn(p, k),
           at2[p] = k, Follows(at, at2)
    PROVE  WaitDone(K, P, p, k, at2)
<1>1. /\ sems \in [K -> Semaphores(P)] /\ blocked \subseteq P
      /\ sems[k] \in Semaphores(P)
  BY DEF QueuesMatch
<1>2. sems[k].count \in Nat /\ sems[k].queue \in Seq(P)
  BY <1>1 DEF Semaphores
<1>3. CASE ~WouldBlock(sems[k]) /\ SetSem(k, Take(sems[k])) /\ UNCHANGED blocked
  <2>1. sems[k].count > 0 /\ sems[k].queue = <<>>
    BY <1>3, <1>2 DEF WouldBlock, QueuesMatch
  <2>2. /\ Take(sems[k]).count = sems[k].count - 1
        /\ Take(sems[k]).queue = sems[k].queue
        /\ Take(sems[k]) \in Semaphores(P)
    BY <1>1, <1>2, <2>1 DEF Take, Semaphores
  <2>3. /\ sems' \in [K -> Semaphores(P)] /\ sems'[k] = Take(sems[k])
        /\ \A j \in K : j # k => sems'[j] = sems[j]
    BY <1>3, <1>1, <2>2 DEF SetSem
  <2>4. QueuesMatch(K, P, sems', blocked', at2)
    <3>1. \A j \in K : sems'[j].queue = sems[j].queue
      BY <2>2, <2>3
    <3>2. \A j \in K : sems'[j].count > 0 => sems'[j].queue = <<>>
      BY <2>1, <2>2, <2>3 DEF QueuesMatch
    <3>3. QED
      BY <3>1, <3>2, <2>3, <1>3 DEF QueuesMatch, InQueue, Follows
  <2>5. QED
    BY <1>2, <1>3, <2>1, <2>2, <2>3, <2>4 DEF Only, Took, WaitDone
<1>4. CASE /\ WouldBlock(sems[k]) /\ SetSem(k, Enqueue(sems[k], p))
           /\ blocked' = blocked \cup {p}
  <2>1. sems[k].count = 0
    BY <1>4 DEF WouldBlock
  <2>2. \A i \in DOMAIN sems[k].queue : sems[k].queue[i] # p
    BY DEF QueuesMatch, InQueue, Follows
  <2>3. /\ Enqueue(sems[k], p).count = 0
        /\ Enqueue(sems[k], p).queue = Append(sems[k].queue, p)
        /\ Enqueue(sems[k], p) \in Semaphores(P)
    <3>1. Append(sems[k].queue, p) \in Seq(P)
      BY <1>2
    <3>2. QED
      BY <3>1, <1>1, <2>1 DEF Enqueue, Semaphores
  <2>4. /\ sems' \in [K -> Semaphores(P)] /\ sems'[k] = Enqueue(sems[k], p)
        /\ \A j \in K : j # k => sems'[j] = sems[j]
    BY <1>4, <1>1, <2>3 DEF SetSem
  <2>5. NoDuplicates(sems[k].queue)
    BY DEF QueuesMatch
  <2>6. /\ NoDuplicates(sems'[k].queue)
        /\ \A q \in P : InQueue(sems'[k], q) <=> (InQueue(sems[k], q) \/ q = p)
    <3> DEFINE q == sems[k].queue
    <3>1. q \in Seq(P) /\ NoDuplicates(q) /\ \A i \in DOMAIN q : q[i] # p
      BY <1>2, <2>2, <2>5
    <3>2. sems'[k].queue = Append(q, p)
      BY <2>3, <2>4
    <3> HIDE DEF q
    <3>3. /\ NoDuplicates(Append(q, p))
          /\ \A o \in P : (\E i \in DOMAIN Append(q, p) : Append(q, p)[i] = o)
                            <=> ((\E i \in DOMAIN q : q[i] = o) \/ o = p)
      BY <3>1, AppendMember
    <3>4. QED
      BY <3>2, <3>3 DEF q, InQueue
  <2>7. ASSUME NEW j \in K
        PROVE  /\ \A q \in P : InQueue(sems'[j], q) <=> (q \in blocked' /\ at2[q] = j)
               /\ NoDuplicates(sems'[j].queue)
               /\ sems'[j].count > 0 => sems'[j].queue = <<>>
    <3>1. CASE j = k
      BY <3>1, <2>3, <2>4, <2>6, <1>4 DEF QueuesMatch, Follows
    <3>2. CASE j # k
      BY <3>2, <2>4, <1>4 DEF QueuesMatch, Follows
    <3>3. QED
      BY <3>1, <3>2
  <2>8. blocked' \subseteq P
    BY <1>1, <1>4
  <2>9. QED
    BY <1>2, <1>4, <2>1, <2>3, <2>4, <2>7, <2>8 DEF QueuesMatch, Only, GotBlocked, WaitDone
<1>5. QED
  BY <1>3, <1>4 DEF WaitOn

(* sem_signal: the longest waiter on this key is let go and no count        *)
(* changes, or nobody waited and a token is banked.                         *)
LEMMA SignalEffect ==
    ASSUME NEW K, NEW P, NEW at, NEW at2, QueuesMatch(K, P, sems, blocked, at),
           NEW k \in K, SignalTo(k), Follows(at, at2)
    PROVE  SignalDone(K, P, k, at, at2)
<1>1. /\ sems \in [K -> Semaphores(P)] /\ blocked \subseteq P
      /\ sems[k] \in Semaphores(P)
  BY DEF QueuesMatch
<1>2. sems[k].count \in Nat /\ sems[k].queue \in Seq(P)
  BY <1>1 DEF Semaphores
<1>3. CASE ~HasWaiters(sems[k]) /\ SetSem(k, Give(sems[k])) /\ UNCHANGED blocked
  <2>1. sems[k].queue = <<>>
    BY <1>3 DEF HasWaiters
  <2>2. /\ Give(sems[k]).count = sems[k].count + 1
        /\ Give(sems[k]).queue = sems[k].queue
        /\ Give(sems[k]) \in Semaphores(P)
    BY <1>1, <1>2, <2>1 DEF Give, Semaphores
  <2>3. /\ sems' \in [K -> Semaphores(P)] /\ sems'[k] = Give(sems[k])
        /\ \A j \in K : j # k => sems'[j] = sems[j]
    BY <1>3, <1>1, <2>2 DEF SetSem
  <2>4. QueuesMatch(K, P, sems', blocked', at2)
    <3>1. \A j \in K : sems'[j].queue = sems[j].queue
      BY <2>2, <2>3
    <3>2. \A j \in K : sems'[j].count > 0 => sems'[j].queue = <<>>
      BY <2>1, <2>2, <2>3 DEF QueuesMatch
    <3>3. QED
      BY <3>1, <3>2, <2>3, <1>3 DEF QueuesMatch, InQueue, Follows
  <2>5. \A q \in blocked : at[q] # k
    <3>1. \A q \in P : ~InQueue(sems[k], q)
      BY <2>1 DEF InQueue
    <3>2. QED
      BY <3>1, <1>1 DEF QueuesMatch
  <2>6. QED
    BY <1>2, <1>3, <2>2, <2>3, <2>4, <2>5 DEF Only, Banked, SignalDone
<1>4. CASE /\ HasWaiters(sems[k]) /\ SetSem(k, Dequeue(sems[k]))
           /\ blocked' = blocked \ {FirstWaiter(sems[k])}
  <2> DEFINE w == Head(sems[k].queue)
  <2>1. sems[k].queue # <<>> /\ sems[k].count = 0 /\ NoDuplicates(sems[k].queue)
    BY <1>4, <1>2 DEF HasWaiters, QueuesMatch
  <2>2. /\ Dequeue(sems[k]).count = 0
        /\ Dequeue(sems[k]).queue = Tail(sems[k].queue)
        /\ Dequeue(sems[k]) \in Semaphores(P)
    <3>1. Tail(sems[k].queue) \in Seq(P)
      BY <1>2, <2>1
    <3>2. QED
      BY <3>1, <1>1, <2>1 DEF Dequeue, Semaphores
  <2>3. /\ sems' \in [K -> Semaphores(P)] /\ sems'[k] = Dequeue(sems[k])
        /\ \A j \in K : j # k => sems'[j] = sems[j]
    BY <1>4, <1>1, <2>2 DEF SetSem
  <2>4. blocked' = blocked \ {w}
    BY <1>4 DEF FirstWaiter
  <2>5. /\ w \in P /\ NoDuplicates(sems'[k].queue)
        /\ \A q \in P : InQueue(sems'[k], q) <=> (InQueue(sems[k], q) /\ q # w)
    <3> DEFINE q == sems[k].queue
    <3>1. q \in Seq(P) /\ q # <<>> /\ NoDuplicates(q)
      BY <1>2, <2>1
    <3>2. sems'[k].queue = Tail(q) /\ w = Head(q)
      BY <2>2, <2>3
    <3> HIDE DEF q, w
    <3>3. /\ Head(q) \in P /\ NoDuplicates(Tail(q))
          /\ \A o \in P : (\E i \in DOMAIN Tail(q) : Tail(q)[i] = o)
                            <=> ((\E i \in DOMAIN q : q[i] = o) /\ o # Head(q))
      BY <3>1, TailMembers
    <3>4. QED
      BY <3>2, <3>3 DEF q, InQueue
  <2>6. InQueue(sems[k], w)
    <3>1. 1 \in DOMAIN sems[k].queue /\ sems[k].queue[1] = w
      BY <1>2, <2>1
    <3>2. QED
      BY <3>1 DEF InQueue
  <2>7. w \in blocked /\ at[w] = k
    BY <2>5, <2>6 DEF QueuesMatch
  <2> HIDE DEF w
  <2>8. ASSUME NEW j \in K
        PROVE  /\ \A q \in P : InQueue(sems'[j], q) <=> (q \in blocked' /\ at2[q] = j)
               /\ NoDuplicates(sems'[j].queue)
               /\ sems'[j].count > 0 => sems'[j].queue = <<>>
    <3>1. CASE j = k
      BY <3>1, <2>2, <2>3, <2>4, <2>5 DEF QueuesMatch, Follows
    <3>2. CASE j # k
      <4>1. \A q \in P : (q \in blocked' /\ at2[q] = j) <=> (q \in blocked /\ at[q] = j)
        BY <3>2, <2>4, <2>7 DEF Follows
      <4>2. QED
        BY <3>2, <4>1, <2>3 DEF QueuesMatch
    <3>3. QED
      BY <3>1, <3>2
  <2>9. blocked' \subseteq P
    BY <1>1, <2>4
  <2>10. QED
    <3>1. QueuesMatch(K, P, sems', blocked', at2)
      BY <2>3, <2>8, <2>9 DEF QueuesMatch
    <3>2. Only(K, k)
      BY <1>2, <2>2, <2>3 DEF Only
    <3>3. w \in P /\ HandedTo(w, k, at)
      BY <2>1, <2>2, <2>3, <2>4, <2>5, <2>7 DEF HandedTo
    <3>4. QED
      BY <3>1, <3>2, <3>3 DEF SignalDone
<1>5. QED
  BY <1>3, <1>4 DEF SignalTo

(* A step that leaves the semaphores and the blocked threads alone.         *)
LEMMA QuietEffect ==
    ASSUME NEW K, NEW P, NEW at, NEW at2, QueuesMatch(K, P, sems, blocked, at),
           UNCHANGED <<sems, blocked>>, Follows(at, at2)
    PROVE  QueuesMatch(K, P, sems', blocked', at2)
BY DEF QueuesMatch, Follows

=============================================================================
