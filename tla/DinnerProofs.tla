---------------------------- MODULE DinnerProofs ----------------------------
(***************************************************************************)
(* The dining philosophers, in every mode and for every number of turns:   *)
(* the tokens are conserved, a chopstick with a semaphore of its own is in *)
(* one pair of hands, and the deadlock demo gets stuck in one way (Dinner).*)
(***************************************************************************)
EXTENDS Dinner, SemFamilyProofs, FiniteSetTheorems

(* Where a philosopher is, in any mode: 1 and 6 call the waiter, 2 and 3    *)
(* take the chopsticks, 4 and 5 put them down.                              *)
Stage(p) == IF demo = 1 THEN pc[p] + 1 ELSE pc[p]
Stages == IF demo = 1 THEN 2..5 ELSE 1..6
FirstStage == IF demo = 1 THEN 2 ELSE 1
LastStage  == IF demo = 1 THEN 5 ELSE 6

StageKey(p, s) ==
    CASE s \in {1, 6} -> WaiterKey [] s \in {2, 4} -> Left(p) [] s \in {3, 5} -> Right(p)

(* The semaphore a philosopher is blocked on, if it is.                     *)
WaitKey == [p \in Philosophers |-> StageKey(p, Stage(p) - 1)]

DinnerTypes ==
    /\ demo \in 0..2
    /\ pc \in [Philosophers -> Nat]
    /\ \A p \in Philosophers : Stage(p) \in Stages
    /\ \A p \in blocked : Stage(p) \in 2..4 /\ Stage(p) # FirstStage
    /\ QueuesMatch(ChopstickKeys, Philosophers, sems, blocked, WaitKey)

FinishedAtStart == \A p \in Philosophers : Finished(p) => pc[p] = 1

(* What a philosopher holds, by its stage.                                  *)
HasSeat(p)  == demo # 1 /\ (Stage(p) > 2 \/ (Stage(p) = 2 /\ p \notin blocked))
HasLeft(p)  == Stage(p) = 4 \/ (Stage(p) = 3 /\ p \notin blocked)
HasRight(p) == Stage(p) = 5 \/ (Stage(p) = 4 /\ p \notin blocked)

(* The tokens of semaphore k that are out.                                  *)
OutMeal(k) == Cardinality(Holders(k))
OutSeat(k) == IF k = WaiterKey THEN Cardinality(Seated) ELSE 0

IInv == DinnerTypes /\ FinishedAtStart /\ TokensConserved

-----------------------------------------------------------------------------
(* The table: five philosophers, five chopsticks, the waiter one of their   *)
(* keys.                                                                    *)
LEMMA TableFacts ==
    /\ Philosophers = 0..4 /\ ChopstickKeys = 0..4 /\ WaiterKey \in ChopstickKeys
    /\ \A p \in Philosophers :
          /\ Left(p) \in ChopstickKeys /\ Right(p) \in ChopstickKeys /\ Left(p) # Right(p)
          /\ Left(p) = p /\ Right(p) = (IF p = 4 THEN 0 ELSE p + 1)
<1>1. Philosophers = 0..4
  BY DEF Philosophers, PHILOSOPHER_COUNT
<1>2. \A p \in 0..4 : (p + 1) % 5 = (IF p = 4 THEN 0 ELSE p + 1)
  OBVIOUS
<1>3. QED
  BY <1>1, <1>2 DEF ChopstickKeys, WaiterKey, Left, Right, PHILOSOPHER_COUNT

(* The script, by stages.                                                   *)
LEMMA ScriptFacts ==
    ASSUME demo \in 0..2, NEW p \in Philosophers, pc[p] \in Nat, Stage(p) \in Stages
    PROVE  /\ Op(p).key = StageKey(p, Stage(p)) /\ Op(p).key \in ChopstickKeys
           /\ Op(p).op = "wait" <=> Stage(p) \in 1..3
           /\ Op(p).op = "signal" <=> Stage(p) \in 4..6
           /\ pc[p] = Len(Script(p)) <=> Stage(p) = LastStage
<1>1. CASE demo = 1
  <2>1. /\ Script(p) = <<Wait(Left(p)), Wait(Right(p)), Signal(Left(p)), Signal(Right(p))>>
        /\ pc[p] \in 1..4 /\ Stage(p) = pc[p] + 1 /\ LastStage = 5
    BY <1>1 DEF Script, Meal, Stage, Stages, LastStage
  <2>2. /\ Len(Script(p)) = 4
        /\ Script(p)[1] = Wait(Left(p)) /\ Script(p)[2] = Wait(Right(p))
        /\ Script(p)[3] = Signal(Left(p)) /\ Script(p)[4] = Signal(Right(p))
    BY <2>1
  <2>3. QED
    BY <2>1, <2>2, TableFacts DEF Op, StageKey, Wait, Signal
<1>2. CASE demo # 1
  <2>1. /\ Script(p) = <<Wait(WaiterKey)>> \o <<Wait(Left(p)), Wait(Right(p)), Signal(Left(p)),
                         Signal(Right(p))>> \o <<Signal(WaiterKey)>>
        /\ pc[p] \in 1..6 /\ Stage(p) = pc[p] /\ LastStage = 6
    BY <1>2 DEF Script, Meal, Stage, Stages, LastStage
  <2>2. /\ Len(Script(p)) = 6
        /\ Script(p)[1] = Wait(WaiterKey)
        /\ Script(p)[2] = Wait(Left(p)) /\ Script(p)[3] = Wait(Right(p))
        /\ Script(p)[4] = Signal(Left(p)) /\ Script(p)[5] = Signal(Right(p))
        /\ Script(p)[6] = Signal(WaiterKey)
    BY <2>1
  <2>3. QED
    BY <2>1, <2>2, TableFacts DEF Op, StageKey, Wait, Signal
<1>3. QED
  BY <1>1, <1>2

(* What Holds and Seated say, by stages.                                    *)
ByStage ==
    \A p \in Philosophers :
        /\ \A c \in ChopstickKeys :
              Holds(p, c) <=> (c = Left(p) /\ HasLeft(p)) \/ (c = Right(p) /\ HasRight(p))
        /\ p \in Seated <=> HasSeat(p)

(* What a philosopher holds is determined by how far he is in his meal.     *)
LEMMA HoldsByStage == DinnerTypes => ByStage
<1> SUFFICES ASSUME DinnerTypes, NEW p \in Philosophers
             PROVE  /\ \A c \in ChopstickKeys :
                          Holds(p, c) <=> (c = Left(p) /\ HasLeft(p))
                                          \/ (c = Right(p) /\ HasRight(p))
                    /\ p \in Seated <=> HasSeat(p)
  BY DEF ByStage
<1>1. /\ demo \in 0..2 /\ pc[p] \in Nat /\ Stage(p) \in Stages
      /\ p \in blocked => Stage(p) \in 2..4 /\ Stage(p) # FirstStage
  BY DEF DinnerTypes
<1>2. \A n \in 1..4 : MealDone(p, n)
                        <=> (Stage(p) > n + 2 \/ (Stage(p) = n + 2 /\ p \notin blocked))
  BY <1>1 DEF MealDone, Done, Stage
<1>3. /\ (MealDone(p, 1) /\ ~MealDone(p, 3)) <=> HasLeft(p)
      /\ (MealDone(p, 2) /\ ~MealDone(p, 4)) <=> HasRight(p)
  BY <1>1, <1>2 DEF HasLeft, HasRight, Stages, FirstStage
<1>4. p \in Seated <=> HasSeat(p)
  BY <1>1 DEF Seated, HasSeat, Done, Stage
<1>5. QED
  BY <1>3, <1>4 DEF Holds

LEMMA FiniteSides ==
    /\ \A k : IsFiniteSet(Holders(k)) /\ OutMeal(k) \in Nat
    /\ IsFiniteSet(Seated) /\ Cardinality(Seated) \in Nat
    /\ \A k : OutSeat(k) \in Nat
<1>1. IsFiniteSet(Philosophers)
  <2>1. (0..4) \in SUBSET Nat /\ \A p \in 0..4 : p <= 4
    OBVIOUS
  <2>2. QED
    BY <2>1, TableFacts, FS_BoundedSetOfNaturals
<1>2. Seated \in SUBSET Philosophers /\ \A k : Holders(k) \in SUBSET Philosophers
  BY DEF Seated, Holders
<1>3. IsFiniteSet(Seated) /\ \A k : IsFiniteSet(Holders(k))
  BY <1>1, <1>2, FS_Subset
<1>4. QED
  BY <1>3, FS_CardinalityType DEF OutMeal, OutSeat

LEMMA HoldsNext == DinnerTypes' => ByStage'
BY HoldsByStage, PTL

-----------------------------------------------------------------------------
(* The philosopher p moves on and nobody else does.                         *)
LEMMA MoveFacts ==
    ASSUME DinnerTypes, NEW p \in Philosophers, Philosopher(p)
    PROVE  /\ p \in Philosophers \ blocked /\ demo' = demo
           /\ pc' \in [Philosophers -> Nat]
           /\ \A q \in Philosophers : q # p => Stage(q)' = Stage(q)
           /\ Stage(p)' = (IF Stage(p) = LastStage THEN FirstStage ELSE Stage(p) + 1)
           /\ \A q \in Philosophers : Stage(q) \in Stages
           /\ \A q \in Philosophers : Stage(q)' \in Stages'
           /\ blocked \subseteq Philosophers /\ Follows(WaitKey, WaitKey')
<1>1. /\ p \in Philosophers \ blocked /\ demo' = demo /\ demo \in 0..2
      /\ pc \in [Philosophers -> Nat] /\ Advance(p)
      /\ \A q \in Philosophers : Stage(q) \in Stages
      /\ blocked \subseteq Philosophers
  BY DEF DinnerTypes, Philosopher, Running, QueuesMatch
<1>2. /\ pc' \in [Philosophers -> Nat]
      /\ \A q \in Philosophers : q # p => pc'[q] = pc[q]
      /\ pc'[p] = (IF pc[p] = Len(Script(p)) THEN 1 ELSE pc[p] + 1)
  BY <1>1 DEF Advance
<1>3. /\ pc[p] \in Nat /\ Stage(p) \in Stages
      /\ pc[p] = Len(Script(p)) <=> Stage(p) = LastStage
  BY <1>1, ScriptFacts
<1>4. \A q \in Philosophers : q # p => Stage(q)' = Stage(q)
  BY <1>1, <1>2 DEF Stage
<1>5. Stage(p)' = (IF Stage(p) = LastStage THEN FirstStage ELSE Stage(p) + 1)
  BY <1>1, <1>2, <1>3 DEF Stage, FirstStage
<1>6. Stages' = Stages
  BY <1>1 DEF Stages
<1>7. Stage(p)' \in Stages
  BY <1>1, <1>3, <1>5 DEF Stages, FirstStage, LastStage
<1>8. Follows(WaitKey, WaitKey')
  BY <1>1, <1>4 DEF Follows, WaitKey
<1>9. QED
  BY <1>1, <1>2, <1>4, <1>5, <1>6, <1>7, <1>8

(* Who has what, for whoever neither moved nor was woken.                   *)
LEMMA OthersKeep ==
    ASSUME NEW q \in Philosophers, Stage(q)' = Stage(q), q \in blocked' <=> q \in blocked,
           demo' = demo
    PROVE  (HasSeat(q)' <=> HasSeat(q)) /\ (HasLeft(q)' <=> HasLeft(q))
           /\ (HasRight(q)' <=> HasRight(q))
BY DEF HasSeat, HasLeft, HasRight

(* Sets of holders, by their members.                                       *)
LEMMA HoldersBy ==
    ASSUME DinnerTypes, DinnerTypes', NEW k \in ChopstickKeys
    PROVE  /\ \A q : q \in Holders(k) <=>
                 (q \in Philosophers /\ ((k = Left(q) /\ HasLeft(q)) \/ (k = Right(q) /\ HasRight(q))))
           /\ \A q : q \in Holders(k)' <=>
                 (q \in Philosophers /\ ((k = Left(q) /\ HasLeft(q)') \/ (k = Right(q) /\ HasRight(q)')))
           /\ \A q : q \in Seated <=> (q \in Philosophers /\ HasSeat(q))
           /\ \A q : q \in Seated' <=> (q \in Philosophers /\ HasSeat(q)')
<1>1. ByStage /\ ByStage'
  BY HoldsByStage, HoldsNext
<1>2. \A q : q \in Seated => q \in Philosophers
  BY DEF Seated
<1>3. \A q : q \in Seated' => q \in Philosophers
  BY DEF Seated
<1>4. QED
  BY <1>1, <1>2, <1>3 DEF ByStage, Holders

(* Counting: one enters, one leaves, one takes the place of another.        *)
LEMMA OneMore ==
    ASSUME NEW S, NEW T, IsFiniteSet(S), NEW x, x \notin S, \A q : q \in T <=> (q \in S \/ q = x)
    PROVE  Cardinality(T) = Cardinality(S) + 1
<1>1. T = S \cup {x}
  OBVIOUS
<1>2. QED
  BY <1>1, FS_AddElement

(* Counting when one leaves, one replaces another, or nothing changes.      *)
LEMMA OneLess ==
    ASSUME NEW S, NEW T, IsFiniteSet(S), NEW x, x \in S, \A q : q \in T <=> (q \in S /\ q # x)
    PROVE  Cardinality(T) = Cardinality(S) - 1
<1>1. T = S \ {x}
  OBVIOUS
<1>2. QED
  BY <1>1, FS_RemoveElement

LEMMA OneForAnother ==
    ASSUME NEW S, NEW T, IsFiniteSet(S), NEW x, x \in S, NEW y, y \notin S,
           \A q : q \in T <=> ((q \in S /\ q # x) \/ q = y)
    PROVE  Cardinality(T) = Cardinality(S)
<1>1. T = (S \ {x}) \cup {y} /\ y \notin S \ {x}
  OBVIOUS
<1>2. IsFiniteSet(S \ {x}) /\ Cardinality(S \ {x}) = Cardinality(S) - 1
  BY FS_RemoveElement
<1>3. Cardinality(S) \in Nat
  BY FS_CardinalityType
<1>4. Cardinality(T) = (Cardinality(S) - 1) + 1
  BY <1>1, <1>2, FS_AddElement
<1>5. QED
  BY <1>3, <1>4

Same(S, T) == \A q : q \in T <=> q \in S
LEMMA SameCount == ASSUME NEW S, NEW T, Same(S, T) PROVE Cardinality(T) = Cardinality(S)
<1>1. T = S
  BY DEF Same
<1>2. QED
  BY <1>1

(* All the tokens of k that are out.                                        *)
Out(k) == OutMeal(k) + OutSeat(k)

(* The tokens out are counted by naturals.                                  *)
LEMMA OutTypes == \A k : Out(k) \in Nat
BY FiniteSides DEF Out

(* A wait that returns takes one more token out, of this semaphore.         *)
LEMMA TookOut ==
    ASSUME DinnerTypes, DinnerTypes', NEW p \in Philosophers, Philosopher(p),
           Stage(p) \in 1..3, NEW k \in ChopstickKeys, k = StageKey(p, Stage(p)),
           blocked' = blocked
    PROVE  /\ Out(k)' = Out(k) + 1
           /\ \A j \in ChopstickKeys : j # k => Out(j)' = Out(j)
<1>1. /\ p \in Philosophers \ blocked /\ demo' = demo /\ demo \in 0..2
      /\ \A q \in Philosophers : q # p => Stage(q)' = Stage(q)
      /\ Stage(p)' = Stage(p) + 1 /\ Stage(p) \in Stages
  BY MoveFacts DEF LastStage, DinnerTypes
<1>2. \A q \in Philosophers : q # p => /\ HasSeat(q)' <=> HasSeat(q)
                                       /\ HasLeft(q)' <=> HasLeft(q)
                                       /\ HasRight(q)' <=> HasRight(q)
  BY <1>1, OthersKeep
<1>3. CASE Stage(p) = 1
  <2>1. /\ demo # 1 /\ HasSeat(p)' /\ ~HasSeat(p)
        /\ ~HasLeft(p) /\ ~HasLeft(p)' /\ ~HasRight(p) /\ ~HasRight(p)'
    BY <1>1, <1>3 DEF HasSeat, HasLeft, HasRight, Stages
  <2>2. k = WaiterKey
    BY <1>3 DEF StageKey
  <2>3. \A j \in ChopstickKeys : Same(Holders(j), Holders(j)')
    BY <1>2, <2>1, HoldersBy DEF Same
  <2>4. p \notin Seated /\ \A q : q \in Seated' <=> (q \in Seated \/ q = p)
    BY <1>2, <2>1, HoldersBy
  <2>5. Cardinality(Seated') = Cardinality(Seated) + 1
    BY <2>4, FiniteSides, OneMore
  <2>6. \A j \in ChopstickKeys : OutMeal(j)' = OutMeal(j)
    BY <2>3, SameCount DEF OutMeal
  <2>7. QED
    BY <2>2, <2>5, <2>6, FiniteSides DEF Out, OutSeat
<1>4. CASE Stage(p) \in {2, 3}
  <2>1. HasSeat(p)' <=> HasSeat(p)
    BY <1>1, <1>4 DEF HasSeat
  <2>2. Same(Seated, Seated')
    BY <1>2, <2>1, HoldersBy DEF Same
  <2>3. Cardinality(Seated') = Cardinality(Seated)
    BY <2>2, SameCount
  <2>4. \/ /\ Stage(p) = 2 /\ k = Left(p) /\ HasLeft(p)' /\ ~HasLeft(p)
           /\ ~HasRight(p) /\ ~HasRight(p)'
        \/ /\ Stage(p) = 3 /\ k = Right(p) /\ HasRight(p)' /\ ~HasRight(p)
           /\ HasLeft(p)' /\ HasLeft(p)
    BY <1>1, <1>4 DEF HasLeft, HasRight, StageKey
  <2>5. p \notin Holders(k) /\ \A q : q \in Holders(k)' <=> (q \in Holders(k) \/ q = p)
    BY <1>2, <2>4, HoldersBy, TableFacts
  <2>6. \A j \in ChopstickKeys : j # k => Same(Holders(j), Holders(j)')
    BY <1>2, <2>4, HoldersBy DEF Same
  <2>7. OutMeal(k)' = OutMeal(k) + 1
    BY <2>5, FiniteSides, OneMore DEF OutMeal
  <2>8. \A j \in ChopstickKeys : j # k => OutMeal(j)' = OutMeal(j)
    BY <2>6, SameCount DEF OutMeal
  <2>9. QED
    BY <2>3, <2>7, <2>8, FiniteSides DEF Out, OutSeat
<1>5. QED
  BY <1>3, <1>4

(* A wait that blocks takes none.                                           *)
LEMMA BlockedOut ==
    ASSUME DinnerTypes, DinnerTypes', NEW p \in Philosophers, Philosopher(p),
           Stage(p) \in 1..3, blocked' = blocked \cup {p}
    PROVE  \A j \in ChopstickKeys : Out(j)' = Out(j)
<1>1. /\ p \in Philosophers \ blocked /\ demo' = demo /\ demo \in 0..2
      /\ \A q \in Philosophers : q # p => Stage(q)' = Stage(q)
      /\ Stage(p)' = Stage(p) + 1 /\ Stage(p) \in Stages
  BY MoveFacts DEF LastStage, DinnerTypes
<1>2. \A q \in Philosophers : q # p => /\ HasSeat(q)' <=> HasSeat(q)
                                       /\ HasLeft(q)' <=> HasLeft(q)
                                       /\ HasRight(q)' <=> HasRight(q)
  BY <1>1, OthersKeep
<1>3. /\ HasSeat(p)' <=> HasSeat(p)
      /\ HasLeft(p)' <=> HasLeft(p)
      /\ HasRight(p)' <=> HasRight(p)
  BY <1>1 DEF HasSeat, HasLeft, HasRight
<1>4. \A j \in ChopstickKeys : Same(Holders(j), Holders(j)') /\ Same(Seated, Seated')
  BY <1>2, <1>3, HoldersBy DEF Same
<1>5. QED
  BY <1>4, SameCount DEF Out, OutMeal, OutSeat

(* What a signal of p puts back, and what a waiter on k gets when it wakes. *)
SeatKept(q)  == HasSeat(q)' <=> HasSeat(q)
LeftKept(q)  == HasLeft(q)' <=> HasLeft(q)
RightKept(q) == HasRight(q)' <=> HasRight(q)

PutsSeat(p, k)  == k = WaiterKey /\ HasSeat(p) /\ ~HasSeat(p)' /\ LeftKept(p) /\ RightKept(p)
PutsLeft(p, k)  == k = Left(p) /\ HasLeft(p) /\ ~HasLeft(p)' /\ SeatKept(p) /\ RightKept(p)
PutsRight(p, k) == k = Right(p) /\ HasRight(p) /\ ~HasRight(p)' /\ SeatKept(p) /\ LeftKept(p)

GetsSeat(w, k)  == k = WaiterKey /\ ~HasSeat(w) /\ HasSeat(w)' /\ LeftKept(w) /\ RightKept(w)
GetsLeft(w, k)  == k = Left(w) /\ ~HasLeft(w) /\ HasLeft(w)' /\ SeatKept(w) /\ RightKept(w)
GetsRight(w, k) == k = Right(w) /\ ~HasRight(w) /\ HasRight(w)' /\ SeatKept(w) /\ LeftKept(w)

(* A signal puts back what the meal took; a woken philosopher gets it.      *)
LEMMA SignallerPuts ==
    ASSUME DinnerTypes, NEW p \in Philosophers, Philosopher(p),
           Stage(p) \in 4..6, NEW k, k = StageKey(p, Stage(p)), p \notin blocked'
    PROVE  PutsSeat(p, k) \/ PutsLeft(p, k) \/ PutsRight(p, k)
<1>1. /\ p \in Philosophers \ blocked /\ demo' = demo /\ demo \in 0..2
      /\ Stage(p)' = (IF Stage(p) = LastStage THEN FirstStage ELSE Stage(p) + 1)
      /\ Stage(p) \in Stages
  BY MoveFacts DEF DinnerTypes
<1>2. CASE Stage(p) = 4
  <2>1. Stage(p)' = 5 /\ k = Left(p)
    BY <1>1, <1>2 DEF LastStage, StageKey
  <2>2. QED
    BY <1>1, <1>2, <2>1 DEF PutsLeft, SeatKept, RightKept, HasSeat, HasLeft, HasRight
<1>3. CASE Stage(p) = 5
  <2>1. Stage(p)' \in {2, 6} /\ (Stage(p)' = 2 => demo = 1) /\ k = Right(p)
    BY <1>1, <1>3 DEF LastStage, FirstStage, StageKey
  <2>2. QED
    BY <1>1, <1>3, <2>1 DEF PutsRight, SeatKept, LeftKept, HasSeat, HasLeft, HasRight
<1>4. CASE Stage(p) = 6
  <2>1. Stage(p)' = 1 /\ demo # 1 /\ k = WaiterKey
    BY <1>1, <1>4 DEF LastStage, FirstStage, StageKey, Stages
  <2>2. QED
    BY <1>1, <1>4, <2>1 DEF PutsSeat, LeftKept, RightKept, HasSeat, HasLeft, HasRight
<1>5. QED
  BY <1>2, <1>3, <1>4

LEMMA WokenGets ==
    ASSUME DinnerTypes, NEW w \in Philosophers, w \in blocked, w \notin blocked',
           Stage(w)' = Stage(w), demo' = demo, NEW k, WaitKey[w] = k
    PROVE  GetsSeat(w, k) \/ GetsLeft(w, k) \/ GetsRight(w, k)
<1>1. /\ Stage(w) \in 2..4 /\ Stage(w) # FirstStage /\ demo \in 0..2
      /\ k = StageKey(w, Stage(w) - 1)
  BY DEF DinnerTypes, WaitKey
<1>2. CASE Stage(w) = 2
  <2>1. demo # 1 /\ k = WaiterKey
    BY <1>1, <1>2 DEF FirstStage, StageKey
  <2>2. QED
    BY <1>2, <2>1 DEF GetsSeat, LeftKept, RightKept, HasSeat, HasLeft, HasRight
<1>3. CASE Stage(w) = 3
  <2>1. k = Left(w)
    BY <1>1, <1>3 DEF StageKey
  <2>2. QED
    BY <1>3, <2>1 DEF GetsLeft, SeatKept, RightKept, HasSeat, HasLeft, HasRight
<1>4. CASE Stage(w) = 4
  <2>1. k = Right(w)
    BY <1>1, <1>4 DEF StageKey
  <2>2. QED
    BY <1>4, <2>1 DEF GetsRight, SeatKept, LeftKept, HasSeat, HasLeft, HasRight
<1>5. QED
  BY <1>1, <1>2, <1>3, <1>4

(* A token that is banked is one less out.                                  *)
LEMMA BankedOut ==
    ASSUME DinnerTypes, DinnerTypes', NEW p \in Philosophers, Philosopher(p),
           Stage(p) \in 4..6, NEW k \in ChopstickKeys, k = StageKey(p, Stage(p)),
           blocked' = blocked
    PROVE  /\ Out(k)' = Out(k) - 1
           /\ \A j \in ChopstickKeys : j # k => Out(j)' = Out(j)
<1>1. /\ p \in Philosophers \ blocked /\ demo' = demo
      /\ \A q \in Philosophers : q # p => Stage(q)' = Stage(q)
  BY MoveFacts
<1>2. \A q \in Philosophers : q # p => SeatKept(q) /\ LeftKept(q) /\ RightKept(q)
  BY <1>1, OthersKeep DEF SeatKept, LeftKept, RightKept
<1>3. PutsSeat(p, k) \/ PutsLeft(p, k) \/ PutsRight(p, k)
  BY <1>1, SignallerPuts
<1>4. CASE PutsSeat(p, k)
  <2>1. \A j \in ChopstickKeys : Same(Holders(j), Holders(j)')
    BY <1>2, <1>4, HoldersBy DEF Same, PutsSeat, LeftKept, RightKept
  <2>2. p \in Seated /\ \A q : q \in Seated' <=> (q \in Seated /\ q # p)
    BY <1>2, <1>4, HoldersBy DEF PutsSeat, SeatKept
  <2>3. Cardinality(Seated') = Cardinality(Seated) - 1
    BY <2>2, FiniteSides, OneLess
  <2>4. \A j \in ChopstickKeys : OutMeal(j)' = OutMeal(j)
    BY <2>1, SameCount DEF OutMeal
  <2>5. k = WaiterKey
    BY <1>4 DEF PutsSeat
  <2>6. QED
    BY <2>3, <2>4, <2>5, FiniteSides DEF Out, OutSeat
<1>5. CASE PutsLeft(p, k) \/ PutsRight(p, k)
  <2>1. Same(Seated, Seated')
    BY <1>2, <1>5, HoldersBy DEF Same, PutsLeft, PutsRight, SeatKept
  <2>2. Cardinality(Seated') = Cardinality(Seated)
    BY <2>1, SameCount
  <2>3. p \in Holders(k) /\ \A q : q \in Holders(k)' <=> (q \in Holders(k) /\ q # p)
    BY <1>2, <1>5, HoldersBy, TableFacts DEF PutsLeft, PutsRight, LeftKept, RightKept
  <2>4. \A j \in ChopstickKeys : j # k => Same(Holders(j), Holders(j)')
    BY <1>2, <1>5, HoldersBy DEF Same, PutsLeft, PutsRight, LeftKept, RightKept
  <2>5. OutMeal(k)' = OutMeal(k) - 1
    BY <2>3, FiniteSides, OneLess DEF OutMeal
  <2>6. \A j \in ChopstickKeys : j # k => OutMeal(j)' = OutMeal(j)
    BY <2>4, SameCount DEF OutMeal
  <2>7. QED
    BY <2>2, <2>5, <2>6, FiniteSides DEF Out, OutSeat
<1>6. QED
  BY <1>3, <1>4, <1>5

(* A token that is handed over stays out, whether it was a seat or a        *)
(* chopstick and whatever it becomes: the waiter shares its semaphore with  *)
(* chopstick 4.                                                             *)
LEMMA HandedOut ==
    ASSUME DinnerTypes, DinnerTypes', NEW p \in Philosophers, Philosopher(p),
           Stage(p) \in 4..6, NEW k \in ChopstickKeys, k = StageKey(p, Stage(p)),
           NEW w \in Philosophers, HandedTo(w, k, WaitKey)
    PROVE  \A j \in ChopstickKeys : Out(j)' = Out(j)
<1>1. /\ p \in Philosophers \ blocked /\ demo' = demo
      /\ \A q \in Philosophers : q # p => Stage(q)' = Stage(q)
  BY MoveFacts
<1>2. w \in blocked /\ blocked' = blocked \ {w} /\ WaitKey[w] = k /\ w # p
  BY <1>1 DEF HandedTo
<1>3. \A q \in Philosophers : q # p /\ q # w => SeatKept(q) /\ LeftKept(q) /\ RightKept(q)
  BY <1>1, <1>2, OthersKeep DEF SeatKept, LeftKept, RightKept
<1>4. PutsSeat(p, k) \/ PutsLeft(p, k) \/ PutsRight(p, k)
  BY <1>1, <1>2, SignallerPuts
<1>5. GetsSeat(w, k) \/ GetsLeft(w, k) \/ GetsRight(w, k)
  BY <1>1, <1>2, WokenGets
<1>6. \A j \in ChopstickKeys : j # k => Same(Holders(j), Holders(j)')
  <2>1. ASSUME NEW j \in ChopstickKeys, j # k
        PROVE  Same(Holders(j), Holders(j)')
    <3>1. /\ j = Left(p) => LeftKept(p)
          /\ j = Right(p) => RightKept(p)
          /\ j = Left(w) => LeftKept(w)
          /\ j = Right(w) => RightKept(w)
      BY <1>4, <1>5, <2>1 DEF PutsSeat, PutsLeft, PutsRight, GetsSeat, GetsLeft, GetsRight
    <3>2. QED
      BY <3>1, <1>3, HoldersBy DEF Same, LeftKept, RightKept
  <2>2. QED
    BY <2>1
<1>7. \A j \in ChopstickKeys : j # k => OutMeal(j)' = OutMeal(j)
  BY <1>6, SameCount DEF OutMeal
<1>8. CASE PutsSeat(p, k) /\ GetsSeat(w, k)
  <2>1. p \in Seated /\ w \notin Seated
        /\ \A q : q \in Seated' <=> ((q \in Seated /\ q # p) \/ q = w)
    BY <1>2, <1>3, <1>8, HoldersBy DEF PutsSeat, GetsSeat, SeatKept
  <2>2. Cardinality(Seated') = Cardinality(Seated)
    BY <2>1, FiniteSides, OneForAnother
  <2>3. Same(Holders(k), Holders(k)')
    BY <1>3, <1>8, HoldersBy DEF Same, PutsSeat, GetsSeat, LeftKept, RightKept
  <2>4. OutMeal(k)' = OutMeal(k)
    BY <2>3, SameCount DEF OutMeal
  <2>5. QED
    BY <1>7, <2>2, <2>4 DEF Out, OutSeat
<1>9. CASE PutsSeat(p, k) /\ (GetsLeft(w, k) \/ GetsRight(w, k))
  <2>1. p \in Seated /\ \A q : q \in Seated' <=> (q \in Seated /\ q # p)
    BY <1>2, <1>3, <1>9, HoldersBy DEF PutsSeat, GetsLeft, GetsRight, SeatKept
  <2>2. Cardinality(Seated') = Cardinality(Seated) - 1
    BY <2>1, FiniteSides, OneLess
  <2>3. w \notin Holders(k) /\ \A q : q \in Holders(k)' <=> (q \in Holders(k) \/ q = w)
    BY <1>2, <1>3, <1>9, HoldersBy, TableFacts
       DEF PutsSeat, GetsLeft, GetsRight, LeftKept, RightKept
  <2>4. OutMeal(k)' = OutMeal(k) + 1
    BY <2>3, FiniteSides, OneMore DEF OutMeal
  <2>5. k = WaiterKey
    BY <1>9 DEF PutsSeat
  <2>6. QED
    BY <1>7, <2>2, <2>4, <2>5, FiniteSides DEF Out, OutSeat
<1>10. CASE (PutsLeft(p, k) \/ PutsRight(p, k)) /\ GetsSeat(w, k)
  <2>1. w \notin Seated /\ \A q : q \in Seated' <=> (q \in Seated \/ q = w)
    BY <1>2, <1>3, <1>10, HoldersBy DEF GetsSeat, PutsLeft, PutsRight, SeatKept
  <2>2. Cardinality(Seated') = Cardinality(Seated) + 1
    BY <2>1, FiniteSides, OneMore
  <2>3. p \in Holders(k) /\ \A q : q \in Holders(k)' <=> (q \in Holders(k) /\ q # p)
    BY <1>2, <1>3, <1>10, HoldersBy, TableFacts
       DEF GetsSeat, PutsLeft, PutsRight, LeftKept, RightKept
  <2>4. OutMeal(k)' = OutMeal(k) - 1
    BY <2>3, FiniteSides, OneLess DEF OutMeal
  <2>5. k = WaiterKey
    BY <1>10 DEF GetsSeat
  <2>6. QED
    BY <1>7, <2>2, <2>4, <2>5, FiniteSides DEF Out, OutSeat
<1>11. CASE (PutsLeft(p, k) \/ PutsRight(p, k)) /\ (GetsLeft(w, k) \/ GetsRight(w, k))
  <2>1. Same(Seated, Seated')
    BY <1>3, <1>11, HoldersBy
       DEF Same, PutsLeft, PutsRight, GetsLeft, GetsRight, SeatKept
  <2>2. Cardinality(Seated') = Cardinality(Seated)
    BY <2>1, SameCount
  <2>3. p \in Holders(k) /\ w \notin Holders(k)
        /\ \A q : q \in Holders(k)' <=> ((q \in Holders(k) /\ q # p) \/ q = w)
    BY <1>2, <1>3, <1>11, HoldersBy, TableFacts
       DEF PutsLeft, PutsRight, GetsLeft, GetsRight, LeftKept, RightKept
  <2>4. OutMeal(k)' = OutMeal(k)
    BY <2>3, FiniteSides, OneForAnother DEF OutMeal
  <2>5. QED
    BY <1>7, <2>2, <2>4 DEF Out, OutSeat
<1>12. QED
  BY <1>4, <1>5, <1>8, <1>9, <1>10, <1>11

-----------------------------------------------------------------------------
(* TokensConserved, in terms of Out.                                        *)
Conserved ==
    \A k \in ChopstickKeys : sems[k].count + Out(k) = InitialSems(demo)[k].count

(* The invariant property and its form in Out are the same.                 *)
LEMMA ConservedIs ==
    ASSUME DinnerTypes PROVE TokensConserved <=> Conserved
<1>1. \A k \in ChopstickKeys : sems[k].count \in Nat
  BY DEF DinnerTypes, QueuesMatch, Semaphores
<1>2. \A k \in ChopstickKeys :
        sems[k].count + Cardinality(Holders(k))
            + (IF k = WaiterKey THEN Cardinality(Seated) ELSE 0) = sems[k].count + Out(k)
  BY <1>1, FiniteSides DEF Out, OutMeal, OutSeat
<1>3. QED
  BY <1>2 DEF TokensConserved, Conserved

LEMMA ConservedNext == (DinnerTypes => (TokensConserved <=> Conserved))'
<1>1. DinnerTypes => (TokensConserved <=> Conserved)
  BY ConservedIs
<1>2. QED
  BY <1>1, PTL

(* Each call of a philosopher keeps the tokens.                             *)
LEMMA WaitStep ==
    ASSUME IInv, NEW p \in Philosophers, Philosopher(p), Op(p).op = "wait",
           WaitOn(p, Op(p).key)
    PROVE  DinnerTypes' /\ Conserved'
<1>1. /\ DinnerTypes /\ demo \in 0..2
      /\ QueuesMatch(ChopstickKeys, Philosophers, sems, blocked, WaitKey)
  BY DEF IInv, DinnerTypes
<1>2. /\ p \in Philosophers \ blocked /\ demo' = demo
      /\ pc' \in [Philosophers -> Nat]
      /\ \A q \in Philosophers : q # p => Stage(q)' = Stage(q)
      /\ Stage(p)' = (IF Stage(p) = LastStage THEN FirstStage ELSE Stage(p) + 1)
      /\ Stage(p) \in Stages
      /\ \A q \in Philosophers : Stage(q)' \in Stages'
      /\ blocked \subseteq Philosophers /\ Follows(WaitKey, WaitKey')
  BY <1>1, MoveFacts
<1>3a. /\ Stage(p) \in 1..3 /\ StageKey(p, Stage(p)) \in ChopstickKeys
       /\ WaitOn(p, StageKey(p, Stage(p)))
  <2>1. pc[p] \in Nat
    BY <1>1 DEF DinnerTypes
  <2>2. QED
    BY <2>1, <1>1, <1>2, ScriptFacts
<1>k. PICK k \in ChopstickKeys : k = StageKey(p, Stage(p))
  BY <1>3a
<1>3. Stage(p) \in 1..3 /\ k \in ChopstickKeys /\ WaitOn(p, k)
  BY <1>3a, <1>k
<1>4. Stage(p)' = Stage(p) + 1 /\ Stage(p) + 1 # FirstStage /\ FirstStage' = FirstStage
  BY <1>1, <1>2, <1>3 DEF LastStage, FirstStage, Stages
<1>5. WaitKey'[p] = k
  <2>1. WaitKey'[p] = StageKey(p, Stage(p)' - 1)
    BY DEF WaitKey
  <2>2. Stage(p)' - 1 = Stage(p)
    BY <1>3, <1>4
  <2>3. QED
    BY <2>1, <2>2, <1>k
<1>6. WaitDone(ChopstickKeys, Philosophers, p, k, WaitKey')
  BY <1>1, <1>2, <1>3, <1>5, WaitEffect
<1>7. DinnerTypes'
  <2>1. ASSUME NEW q \in blocked' PROVE Stage(q)' \in 2..4 /\ Stage(q)' # FirstStage'
    <3>1. CASE q = p
      BY <3>1, <1>3, <1>4
    <3>2. CASE q # p
      <4>1. q \in blocked
        BY <3>2, <2>1, <1>6 DEF WaitDone, Took, GotBlocked
      <4>2. QED
        BY <4>1, <3>2, <1>1, <1>2, <1>4 DEF DinnerTypes
    <3>3. QED
      BY <3>1, <3>2
  <2>2. QED
    BY <2>1, <1>1, <1>2, <1>6 DEF DinnerTypes, WaitDone
<1>8. \A j \in ChopstickKeys : sems[j].count \in Nat /\ Out(j) \in Nat
  BY <1>1, OutTypes DEF QueuesMatch, Semaphores
<1>9. \A j \in ChopstickKeys : sems[j].count + Out(j) = InitialSems(demo)[j].count
  BY <1>1, ConservedIs DEF IInv, Conserved
<1>10. \A j \in ChopstickKeys : sems'[j].count + Out(j)' = sems[j].count + Out(j)
  <2>1. CASE Took(k)
    <3>1. /\ Out(k)' = Out(k) + 1
          /\ \A j \in ChopstickKeys : j # k => Out(j)' = Out(j)
      <4>1. blocked' = blocked
        BY <2>1 DEF Took
      <4>2. QED
        BY <4>1, <1>k, <1>1, <1>3, <1>7, TookOut
    <3>2. QED
      BY <3>1, <2>1, <1>3, <1>6, <1>8 DEF Took, WaitDone, Only
  <2>2. CASE GotBlocked(p, k)
    <3>1. \A j \in ChopstickKeys : Out(j)' = Out(j)
      BY <2>2, <1>1, <1>3, <1>7, BlockedOut DEF GotBlocked
    <3>2. QED
      BY <3>1, <2>2, <1>3, <1>6 DEF GotBlocked, WaitDone, Only
  <2>3. QED
    BY <2>1, <2>2, <1>6 DEF WaitDone
<1>11. QED
  BY <1>2, <1>7, <1>9, <1>10 DEF Conserved

LEMMA SignalStep ==
    ASSUME IInv, NEW p \in Philosophers, Philosopher(p), Op(p).op = "signal",
           SignalTo(Op(p).key)
    PROVE  DinnerTypes' /\ Conserved'
<1>1. /\ DinnerTypes /\ demo \in 0..2
      /\ QueuesMatch(ChopstickKeys, Philosophers, sems, blocked, WaitKey)
  BY DEF IInv, DinnerTypes
<1>2. /\ p \in Philosophers \ blocked /\ demo' = demo
      /\ pc' \in [Philosophers -> Nat]
      /\ \A q \in Philosophers : q # p => Stage(q)' = Stage(q)
      /\ Stage(p) \in Stages
      /\ \A q \in Philosophers : Stage(q)' \in Stages'
      /\ blocked \subseteq Philosophers /\ Follows(WaitKey, WaitKey')
  BY <1>1, MoveFacts
<1>3a. /\ Stage(p) \in 4..6 /\ StageKey(p, Stage(p)) \in ChopstickKeys
       /\ SignalTo(StageKey(p, Stage(p)))
  <2>1. pc[p] \in Nat
    BY <1>1 DEF DinnerTypes
  <2>2. QED
    BY <2>1, <1>1, <1>2, ScriptFacts
<1>k. PICK k \in ChopstickKeys : k = StageKey(p, Stage(p))
  BY <1>3a
<1>3. Stage(p) \in 4..6 /\ k \in ChopstickKeys /\ SignalTo(k)
  BY <1>3a, <1>k
<1>4. SignalDone(ChopstickKeys, Philosophers, k, WaitKey, WaitKey')
  BY <1>1, <1>2, <1>3, SignalEffect
<1>5. DinnerTypes'
  <2>1. blocked' \subseteq blocked /\ FirstStage' = FirstStage
    BY <1>2, <1>4 DEF SignalDone, Banked, HandedTo, FirstStage
  <2>2. ASSUME NEW q \in blocked' PROVE Stage(q)' \in 2..4 /\ Stage(q)' # FirstStage'
    BY <2>1, <1>1, <1>2 DEF DinnerTypes
  <2>3. QED
    BY <2>2, <1>1, <1>2, <1>4 DEF DinnerTypes, SignalDone
<1>6. \A j \in ChopstickKeys : sems[j].count \in Nat /\ Out(j) \in Nat
  BY <1>1, OutTypes DEF QueuesMatch, Semaphores
<1>7. \A j \in ChopstickKeys : sems[j].count + Out(j) = InitialSems(demo)[j].count
  BY <1>1, ConservedIs DEF IInv, Conserved
<1>8. \A j \in ChopstickKeys : sems'[j].count + Out(j)' = sems[j].count + Out(j)
  <2>1. CASE Banked(k, WaitKey)
    <3>1. /\ Out(k)' = Out(k) - 1
          /\ \A j \in ChopstickKeys : j # k => Out(j)' = Out(j)
      <4>1. blocked' = blocked
        BY <2>1 DEF Banked
      <4>2. QED
        BY <4>1, <1>k, <1>1, <1>3, <1>5, BankedOut
    <3>2. QED
      BY <3>1, <2>1, <1>3, <1>4, <1>6 DEF Banked, SignalDone, Only
  <2>2. ASSUME NEW w \in Philosophers, HandedTo(w, k, WaitKey)
        PROVE  \A j \in ChopstickKeys : sems'[j].count + Out(j)' = sems[j].count + Out(j)
    <3>1. \A j \in ChopstickKeys : Out(j)' = Out(j)
      BY <2>2, <1>1, <1>3, <1>5, <1>k, HandedOut
    <3>2. QED
      BY <3>1, <2>2, <1>3, <1>4 DEF HandedTo, SignalDone, Only
  <2>3. QED
    BY <2>1, <2>2, <1>4 DEF SignalDone
<1>9. QED
  BY <1>2, <1>5, <1>7, <1>8 DEF Conserved

(* A philosopher that has finished is at the start of its script for good.  *)
LEMMA FinishedStep ==
    ASSUME DinnerTypes, FinishedAtStart, NEW p \in Philosophers, Philosopher(p)
    PROVE  FinishedAtStart'
<1>1. ~Finished(p) /\ Advance(p) /\ pc \in [Philosophers -> Nat]
  BY DEF Philosopher, Running, DinnerTypes
<1>2. \A q \in Philosophers : q # p => pc'[q] = pc[q]
  BY <1>1 DEF Advance
<1>3. ASSUME NEW q \in Philosophers, Finished(q)' PROVE pc'[q] = 1
  <2>1. CASE turn' = turn
    <3>1. Finished(q) /\ q # p
      BY <1>1, <1>3, <2>1 DEF Finished
    <3>2. QED
      BY <3>1, <1>2 DEF FinishedAtStart
  <2>2. CASE pc' = [pc EXCEPT ![p] = 1] /\ turn' = [turn EXCEPT ![p] = @ + 1]
    <3>1. CASE q = p
      BY <3>1, <2>2, <1>1
    <3>2. CASE q # p
      <4>1. turn'[q] = turn[q]
        BY <3>2, <2>2
      <4>2. QED
        BY <4>1, <3>2, <1>2, <1>3 DEF FinishedAtStart, Finished
    <3>3. QED
      BY <3>1, <3>2
  <2>3. QED
    BY <2>1, <2>2, <1>1 DEF Advance
<1>4. QED
  BY <1>3 DEF FinishedAtStart

LEMMA PhilosopherInv == ASSUME IInv, NEW p \in Philosophers, Philosopher(p) PROVE IInv'
<1>1. DinnerTypes' /\ Conserved'
  BY WaitStep, SignalStep DEF Philosopher
<1>2. FinishedAtStart'
  BY FinishedStep DEF IInv
<1>3. QED
  BY <1>1, <1>2, ConservedNext DEF IInv

LEMMA MainInv == ASSUME IInv, UNCHANGED <<demo, sems, pc, turn, blocked>> PROVE IInv'
<1>1. /\ WaitKey' = WaitKey /\ Stages' = Stages /\ FirstStage' = FirstStage
      /\ \A p \in Philosophers : Stage(p)' = Stage(p)
  BY DEF WaitKey, Stage, Stages, FirstStage
<1>2. DinnerTypes'
  BY <1>1 DEF IInv, DinnerTypes, QueuesMatch
<1>3. FinishedAtStart'
  BY DEF IInv, FinishedAtStart, Finished
<1>4. TokensConserved'
  <2>1. \A k : Holders(k)' = Holders(k)
    BY DEF Holders, Holds, MealDone, Done
  <2>2. Seated' = Seated
    BY DEF Seated, Done
  <2>3. QED
    BY <2>1, <2>2 DEF IInv, TokensConserved
<1>5. QED
  BY <1>2, <1>3, <1>4 DEF IInv

LEMMA NextInv == ASSUME IInv, [Next]_vars PROVE IInv'
<1>1. CASE Fork \/ Reap \/ UNCHANGED vars
  <2>1. UNCHANGED <<demo, sems, pc, turn, blocked>>
    BY <1>1 DEF Fork, Reap, vars
  <2>2. QED
    BY <2>1, MainInv
<1>2. QED
  BY <1>1, PhilosopherInv DEF Next

(* The chopsticks have one token, the waiter's semaphore four.              *)
LEMMA InitialTokens ==
    ASSUME NEW d \in 0..2
    PROVE  /\ InitialSems(d) \in [ChopstickKeys -> Semaphores(Philosophers)]
           /\ \A k \in ChopstickKeys :
                 /\ InitialSems(d)[k].queue = <<>>
                 /\ InitialSems(d)[k].count = (IF d # 1 /\ k = WaiterKey THEN 4 ELSE 1)
<1>1. /\ NewSemaphore(1).count = 1 /\ NewSemaphore(1).queue = <<>>
      /\ NewSemaphore(4).count = 4 /\ NewSemaphore(4).queue = <<>>
      /\ NewSemaphore(1) \in Semaphores(Philosophers)
      /\ NewSemaphore(4) \in Semaphores(Philosophers)
  BY DEF NewSemaphore, Semaphores
<1>2. ChopstickKeys \cup {WaiterKey} = ChopstickKeys /\ PHILOSOPHER_COUNT - 1 = 4
  BY TableFacts DEF PHILOSOPHER_COUNT
<1>3. CASE d = 1
  BY <1>1, <1>3 DEF InitialSems, Chopsticks
<1>4. CASE d # 1
  <2>1. InitialSems(d) = [k \in ChopstickKeys |->
                            IF k = WaiterKey THEN NewSemaphore(4) ELSE NewSemaphore(1)]
    BY <1>2, <1>4 DEF InitialSems, Chopsticks, Insert
  <2>2. QED
    BY <1>1, <1>4, <2>1
<1>5. QED
  BY <1>3, <1>4

LEMMA InitInv == ASSUME Init PROVE IInv
<1>1. /\ demo \in 0..2 /\ sems = InitialSems(demo) /\ pc = [p \in Philosophers |-> 1]
      /\ turn = [p \in Philosophers |-> 0] /\ blocked = {}
  BY DinnerAssumption DEF Init
<1>2. /\ sems \in [ChopstickKeys -> Semaphores(Philosophers)]
      /\ \A k \in ChopstickKeys :
            /\ sems[k].queue = <<>>
            /\ sems[k].count = (IF demo # 1 /\ k = WaiterKey THEN 4 ELSE 1)
  BY <1>1, InitialTokens
<1>3. \A p \in Philosophers : Stage(p) = FirstStage /\ Stage(p) \in Stages
  BY <1>1 DEF Stage, FirstStage, Stages
<1>4. DinnerTypes
  <2>1. QueuesMatch(ChopstickKeys, Philosophers, sems, blocked, WaitKey)
    BY <1>1, <1>2 DEF QueuesMatch, InQueue, NoDuplicates
  <2>2. QED
    BY <2>1, <1>1, <1>3 DEF DinnerTypes
<1>5. \A p \in Philosophers : ~HasSeat(p) /\ ~HasLeft(p) /\ ~HasRight(p)
  BY <1>1, <1>3 DEF HasSeat, HasLeft, HasRight, FirstStage
<1>6. Seated = {} /\ \A k \in ChopstickKeys : Holders(k) = {}
  <2>1. ByStage
    BY <1>4, HoldsByStage
  <2>2. \A q : q \in Seated => q \in Philosophers
    BY DEF Seated
  <2>3. QED
    BY <2>1, <2>2, <1>5 DEF ByStage, Holders
<1>7. \A k \in ChopstickKeys : Out(k) = 0
  BY <1>6, FS_EmptySet DEF Out, OutMeal, OutSeat
<1>8. \A k \in ChopstickKeys : sems[k].count \in Nat
  BY <1>2
<1>9. Conserved
  BY <1>1, <1>7, <1>8 DEF Conserved
<1>10. FinishedAtStart
  BY <1>1 DEF FinishedAtStart
<1>11. QED
  BY <1>4, <1>9, <1>10, ConservedIs DEF IInv

-----------------------------------------------------------------------------
(* The inductive invariant in every reachable state.                        *)
LEMMA Invariant == Spec => []IInv
<1>1. Init => IInv
  BY InitInv
<1>2. IInv /\ [Next]_vars => IInv'
  BY NextInv
<1>3. QED
  BY <1>1, <1>2, PTL DEF Spec

(* In every mode and for every number of turns, every token of a semaphore  *)
(* is banked in it or in the hands of a philosopher whose wait returned,    *)
(* also where the waiter and chopstick 4 hand each other's tokens over      *)
(* (main.rs of dinner).                                                     *)
THEOREM DinnerTokensConserved == Spec => []TokensConserved
<1>1. IInv => TokensConserved
  BY DEF IInv
<1>2. QED
  BY <1>1, Invariant, PTL

(* A chopstick whose semaphore is its own is never in two hands: one token  *)
(* of it exists (main.rs of dinner).                                        *)
THEOREM DinnerChopsticksExclusive == Spec => []ChopsticksExclusive
<1>1. ASSUME IInv PROVE ChopsticksExclusive
  <2> SUFFICES ASSUME NEW c \in ChopstickKeys, demo = 1 \/ c # WaiterKey
               PROVE  Cardinality(Holders(c)) <= 1
    BY DEF ChopsticksExclusive
  <2>1. DinnerTypes /\ demo \in 0..2 /\ Conserved
    BY <1>1, ConservedIs DEF IInv, DinnerTypes
  <2>2. InitialSems(demo)[c].count = 1
    BY <2>1, InitialTokens
  <2>3. sems[c].count \in Nat
    BY <2>1 DEF DinnerTypes, QueuesMatch, Semaphores
  <2>4. sems[c].count + Out(c) = 1
    BY <2>1, <2>2 DEF Conserved
  <2>5. OutMeal(c) \in Nat /\ OutSeat(c) \in Nat
    BY FiniteSides
  <2>6. OutMeal(c) <= 1
    BY <2>3, <2>4, <2>5 DEF Out
  <2>7. QED
    BY <2>6 DEF OutMeal
<1>2. QED
  BY <1>1, Invariant, PTL

(* In the deadlock demo, if nobody can go on and a chopstick is waited for, *)
(* its owner holds it and waits for the next one.                           *)
LEMMA WaitedForIsHeld ==
    ASSUME IInv, demo = 1, Stuck, NEW q \in Philosophers, q \in blocked,
           NEW k \in ChopstickKeys, WaitKey[q] = k
    PROVE  Holds(k, Left(k)) /\ k \in blocked /\ WaitKey[k] = Right(k)
<1>1. /\ DinnerTypes /\ ByStage /\ Conserved
      /\ QueuesMatch(ChopstickKeys, Philosophers, sems, blocked, WaitKey)
  BY HoldsByStage, ConservedIs DEF IInv, DinnerTypes
<1>2. sems[k].count = 0
  <2>1. InQueue(sems[k], q)
    BY <1>1 DEF QueuesMatch
  <2>2. sems[k].queue # <<>>
    BY <2>1 DEF InQueue
  <2>3. QED
    BY <2>2, <1>1 DEF QueuesMatch, Semaphores
<1>3. InitialSems(demo)[k].count = 1
  BY InitialTokens
<1>4. OutMeal(k) = 1
  <2>1. Out(k) = 1
    BY <1>1, <1>2, <1>3, OutTypes DEF Conserved
  <2>2. OutSeat(k) = 0
    BY FS_EmptySet DEF OutSeat, Seated
  <2>3. QED
    BY <2>1, <2>2, FiniteSides DEF Out
<1>5. PICK h \in Philosophers : Holds(h, k)
  <2>1. Holders(k) # {}
    BY <1>4, FS_EmptySet DEF OutMeal
  <2>2. QED
    BY <2>1 DEF Holders
<1>6. (k = Left(h) /\ HasLeft(h)) \/ (k = Right(h) /\ HasRight(h))
  BY <1>1, <1>5 DEF ByStage
<1>7. h \in blocked
  <2>1. Finished(h) => Stage(h) = 2
    BY DEF IInv, FinishedAtStart, Stage
  <2>2. ~Finished(h)
    BY <2>1, <1>6 DEF HasLeft, HasRight
  <2>3. QED
    BY <2>2 DEF Stuck
<1>8. Stage(h) \in 2..4
  BY <1>1, <1>7 DEF DinnerTypes
<1>9. Stage(h) = 4 /\ k = Left(h)
  BY <1>6, <1>7, <1>8 DEF HasLeft, HasRight
<1>10. h = k
  BY <1>9, TableFacts
<1>11. WaitKey[h] = Right(h)
  BY <1>9 DEF WaitKey, StageKey
<1>12. QED
  BY <1>5, <1>7, <1>9, <1>10, <1>11

(* The deadlock demo gets stuck in one way only: everybody holds the left   *)
(* chopstick and waits for the right one (main.rs of dinner, mode 1).       *)
THEOREM DinnerStuckIsCircular == Spec => []StuckIsCircular
<1>1. ASSUME IInv PROVE StuckIsCircular
  <2> SUFFICES ASSUME demo = 1, Stuck PROVE \A p \in Philosophers : Holds(p, Left(p))
    BY DEF StuckIsCircular
  <2>1. PICK q \in Philosophers : q \in blocked
    BY DEF Stuck
  <2> DEFINE W(k) == \E r \in Philosophers : r \in blocked /\ WaitKey[r] = k
  <2>2. PICK k \in ChopstickKeys : W(k)
    <3>1. Stage(q) \in 3..4
      BY <1>1, <2>1 DEF IInv, DinnerTypes, FirstStage
    <3>2. WaitKey[q] = Left(q) \/ WaitKey[q] = Right(q)
      BY <3>1 DEF WaitKey, StageKey
    <3>3. QED
      BY <2>1, <3>2, TableFacts
  <2>3. ASSUME NEW j \in ChopstickKeys, W(j)
        PROVE  Holds(j, Left(j)) /\ W(Right(j))
    <3>1. Holds(j, Left(j)) /\ j \in blocked /\ WaitKey[j] = Right(j)
      BY <1>1, <2>3, WaitedForIsHeld
    <3>2. QED
      BY <3>1, TableFacts
  <2> HIDE DEF W
  <2>4. W(0) => W(1) /\ Holds(0, Left(0))
    BY <2>3, TableFacts
  <2>5. W(1) => W(2) /\ Holds(1, Left(1))
    BY <2>3, TableFacts
  <2>6. W(2) => W(3) /\ Holds(2, Left(2))
    BY <2>3, TableFacts
  <2>7. W(3) => W(4) /\ Holds(3, Left(3))
    BY <2>3, TableFacts
  <2>8. W(4) => W(0) /\ Holds(4, Left(4))
    BY <2>3, TableFacts
  <2>9. W(0) \/ W(1) \/ W(2) \/ W(3) \/ W(4)
    BY <2>2, TableFacts
  <2>10. \A p \in 0..4 : Holds(p, Left(p))
    <3>1. /\ Holds(0, Left(0)) /\ Holds(1, Left(1)) /\ Holds(2, Left(2))
          /\ Holds(3, Left(3)) /\ Holds(4, Left(4))
      BY <2>4, <2>5, <2>6, <2>7, <2>8, <2>9
    <3>2. \A p \in 0..4 : p = 0 \/ p = 1 \/ p = 2 \/ p = 3 \/ p = 4
      OBVIOUS
    <3>3. QED
      BY <3>1, <3>2
  <2>11. QED
    BY <2>10, TableFacts
<1>2. QED
  BY <1>1, Invariant, PTL
=============================================================================
