------------------------------ MODULE MqProofs ------------------------------
(***************************************************************************)
(* The mq application, for every capacity of the rack, every number of     *)
(* customers and of cups per customer: no update of COFFEE_CUPS is lost,   *)
(* the semaphores agree with the rack, and main frees them in time (Mq).   *)
(***************************************************************************)
EXTENDS Mq, SemFamilyProofs, FiniteSetTheorems

MqLabels == {"need", "lock", "load", "store", "unlock", "tell"}

(* The semaphore a child is blocked on, if it is.                           *)
WaitKey == [c \in Children |-> IF pc[c] = "lock" THEN WaitsFor(c) ELSE "MUTEX"]

(* Until main begins to free the semaphores.                                *)
Serving == main <= 2 * Forked

MqTypes ==
    /\ main \in 0..(2 * Forked + 3)
    /\ pc \in [Children -> MqLabels]
    /\ reg \in [Children -> Int] /\ COFFEE_CUPS \in Int
    /\ rounds \in [Children -> Nat]
    /\ \A c \in blocked : pc[c] \in {"lock", "load"}
    /\ Serving => QueuesMatch(MqKeys, Children, sems, blocked, WaitKey)

(* Each child main has waited for has exited.                               *)
ReapedExited == \A c \in Children : main > Forked + c => Exited(c)

(* The mutex is the first semaphore to be freed.                            *)
MutexFreed == ~Serving => "MUTEX" \notin DOMAIN sems

(* Between its MUTEX.wait and its MUTEX.signal.                             *)
AtRack(c) == pc[c] \in {"store", "unlock"} \/ (pc[c] = "load" /\ c \notin blocked)

RackExclusive ==
    Serving =>
        /\ sems["MUTEX"].count \in {0, 1}
        /\ sems["MUTEX"].count = 1 <=> \A c \in Children : ~AtRack(c)
        /\ \A c, d \in Children : AtRack(c) /\ AtRack(d) => c = d

(* The copy in a register is up to date when it is stored.                  *)
RegFresh == \A c \in Children : pc[c] = "store" => reg[c] = COFFEE_CUPS

(* The children that have a token of the semaphore they wait for, and those *)
(* that will give one to the other side.                                    *)
Res == {c \in Children : Reserved(c)}
Owe == {c \in Children : Owes(c)}

ResM == Cardinality(Res \cap {Maker})
ResC == Cardinality(Res \cap Customers)
OweM == Cardinality(Owe \cap {Maker})
OweC == Cardinality(Owe \cap Customers)

FreeTokens == sems["FULL_CAPACITY"].count
CupTokens  == sems["NON_EMPTY"].count

Tokens ==
    Serving => /\ CUP_CAPACITY = FreeTokens + COFFEE_CUPS + ResM + OweC
               /\ COFFEE_CUPS = CupTokens + ResC + OweM

IInv ==
    MqTypes /\ ReapedExited /\ MutexFreed /\ RackExclusive /\ RegFresh /\ Tokens

-----------------------------------------------------------------------------
(* How many of a set are in T, when one enters or leaves the set.           *)
LEMMA CountAdd ==
    ASSUME NEW S, NEW T, NEW x, IsFiniteSet(S), x \notin S
    PROVE  /\ IsFiniteSet(S \cup {x}) /\ Cardinality(S \cap T) \in Nat
           /\ x \in T => Cardinality((S \cup {x}) \cap T) = Cardinality(S \cap T) + 1
           /\ x \notin T => Cardinality((S \cup {x}) \cap T) = Cardinality(S \cap T)
<1>1. IsFiniteSet(S \cup {x}) /\ IsFiniteSet(S \cap T)
  BY FS_AddElement, FS_Intersection
<1>2. Cardinality(S \cap T) \in Nat
  BY <1>1, FS_CardinalityType
<1>3. ASSUME x \in T PROVE Cardinality((S \cup {x}) \cap T) = Cardinality(S \cap T) + 1
  <2>1. (S \cup {x}) \cap T = (S \cap T) \cup {x} /\ x \notin S \cap T
    BY <1>3
  <2>2. Cardinality((S \cap T) \cup {x}) = Cardinality(S \cap T) + 1
    BY <1>1, <2>1, FS_AddElement
  <2>3. QED
    BY <2>1, <2>2
<1>4. ASSUME x \notin T PROVE (S \cup {x}) \cap T = S \cap T
  BY <1>4
<1>5. QED
  BY <1>1, <1>2, <1>3, <1>4

(* The counterpart of the lemma before: one leaves.                         *)
LEMMA CountRemove ==
    ASSUME NEW S, NEW T, NEW x, IsFiniteSet(S), x \in S
    PROVE  /\ IsFiniteSet(S \ {x}) /\ Cardinality(S \cap T) \in Nat
           /\ x \in T => Cardinality((S \ {x}) \cap T) = Cardinality(S \cap T) - 1
           /\ x \notin T => Cardinality((S \ {x}) \cap T) = Cardinality(S \cap T)
<1>1. IsFiniteSet(S \ {x}) /\ IsFiniteSet(S \cap T)
  BY FS_RemoveElement, FS_Intersection
<1>2. Cardinality(S \cap T) \in Nat
  BY <1>1, FS_CardinalityType
<1>3. ASSUME x \in T PROVE Cardinality((S \ {x}) \cap T) = Cardinality(S \cap T) - 1
  <2>1. (S \ {x}) \cap T = (S \cap T) \ {x} /\ x \in S \cap T
    BY <1>3
  <2>2. Cardinality((S \cap T) \ {x}) = Cardinality(S \cap T) - 1
    BY <1>1, <2>1, FS_RemoveElement
  <2>3. QED
    BY <2>1, <2>2
<1>4. ASSUME x \notin T PROVE (S \ {x}) \cap T = S \cap T
  BY <1>4
<1>5. QED
  BY <1>1, <1>2, <1>3, <1>4

(* The children and the semaphores they wait for and signal.                *)
LEMMA ChildFacts ==
    /\ Forked \in Nat /\ Maker \in Children /\ Customers \subseteq Children
    /\ \A c \in Children : /\ c \in Nat /\ c < Forked
                           /\ c \in Customers <=> c # Maker
                           /\ WaitsFor(c) \in MqKeys /\ Signals(c) \in MqKeys
                           /\ WaitsFor(c) # "MUTEX" /\ Signals(c) # "MUTEX"
    /\ "MUTEX" \in MqKeys /\ "FULL_CAPACITY" \in MqKeys /\ "NON_EMPTY" \in MqKeys
BY MqAssumption DEF Forked, Children, Customers, Maker, WaitsFor, Signals, MqKeys

(* Both sides of the balance are natural numbers.                           *)
LEMMA FiniteSides == IsFiniteSet(Res) /\ IsFiniteSet(Owe)
<1>1. IsFiniteSet(Children)
  BY MqAssumption, FS_Interval DEF Children
<1>2. Res \in SUBSET Children /\ Owe \in SUBSET Children
  BY DEF Res, Owe
<1>3. QED
  BY <1>1, <1>2, FS_Subset

LEMMA CountTypes == ResM \in Nat /\ ResC \in Nat /\ OweM \in Nat /\ OweC \in Nat
BY FiniteSides, FS_Intersection, FS_CardinalityType DEF ResM, ResC, OweM, OweC

LEMMA TokenTypes ==
    ASSUME MqTypes, Serving
    PROVE  /\ FreeTokens \in Nat /\ CupTokens \in Nat
           /\ COFFEE_CUPS \in Int /\ CUP_CAPACITY \in Nat
<1>1. QueuesMatch(MqKeys, Children, sems, blocked, WaitKey) /\ COFFEE_CUPS \in Int
  BY DEF MqTypes
<1>2. \A j \in MqKeys : sems[j].count \in Nat
  BY <1>1 DEF QueuesMatch, Semaphores
<1>3. QED
  BY <1>1, <1>2, ChildFacts, MqAssumption DEF FreeTokens, CupTokens

(* A child that enters or leaves Res or Owe changes one of the four counts. *)
LEMMA Enters ==
    ASSUME NEW c \in Children
    PROVE  /\ Res' = Res \cup {c} /\ c \notin Res =>
                 IF c = Maker THEN ResM' = ResM + 1 /\ ResC' = ResC
                              ELSE ResM' = ResM /\ ResC' = ResC + 1
           /\ Owe' = Owe \cup {c} /\ c \notin Owe =>
                 IF c = Maker THEN OweM' = OweM + 1 /\ OweC' = OweC
                              ELSE OweM' = OweM /\ OweC' = OweC + 1
<1>1. (c \in Customers <=> c # Maker) /\ (c \in {Maker} <=> c = Maker)
  BY ChildFacts
<1>2. ASSUME NEW S, IsFiniteSet(S), c \notin S
      PROVE  /\ c = Maker => /\ Cardinality((S \cup {c}) \cap {Maker}) = Cardinality(S \cap {Maker}) + 1
                             /\ Cardinality((S \cup {c}) \cap Customers) = Cardinality(S \cap Customers)
             /\ c # Maker => /\ Cardinality((S \cup {c}) \cap {Maker}) = Cardinality(S \cap {Maker})
                             /\ Cardinality((S \cup {c}) \cap Customers) = Cardinality(S \cap Customers) + 1
  BY <1>1, <1>2, CountAdd
<1>3. IsFiniteSet(Res) /\ IsFiniteSet(Owe)
  BY FiniteSides
<1>4. ASSUME Res' = Res \cup {c}, c \notin Res
      PROVE  IF c = Maker THEN ResM' = ResM + 1 /\ ResC' = ResC
                          ELSE ResM' = ResM /\ ResC' = ResC + 1
  BY <1>2, <1>3, <1>4 DEF ResM, ResC
<1>5. ASSUME Owe' = Owe \cup {c}, c \notin Owe
      PROVE  IF c = Maker THEN OweM' = OweM + 1 /\ OweC' = OweC
                          ELSE OweM' = OweM /\ OweC' = OweC + 1
  BY <1>2, <1>3, <1>5 DEF OweM, OweC
<1>6. QED
  BY <1>4, <1>5

(* How the reservations change when a child gives one up, and when not.     *)
LEMMA Leaves ==
    ASSUME NEW c \in Children
    PROVE  /\ Res' = Res \ {c} /\ c \in Res =>
                 IF c = Maker THEN ResM' = ResM - 1 /\ ResC' = ResC
                              ELSE ResM' = ResM /\ ResC' = ResC - 1
           /\ Owe' = Owe \ {c} /\ c \in Owe =>
                 IF c = Maker THEN OweM' = OweM - 1 /\ OweC' = OweC
                              ELSE OweM' = OweM /\ OweC' = OweC - 1
<1>1. (c \in Customers <=> c # Maker) /\ (c \in {Maker} <=> c = Maker)
  BY ChildFacts
<1>2. ASSUME NEW S, IsFiniteSet(S), c \in S
      PROVE  /\ c = Maker => /\ Cardinality((S \ {c}) \cap {Maker}) = Cardinality(S \cap {Maker}) - 1
                             /\ Cardinality((S \ {c}) \cap Customers) = Cardinality(S \cap Customers)
             /\ c # Maker => /\ Cardinality((S \ {c}) \cap {Maker}) = Cardinality(S \cap {Maker})
                             /\ Cardinality((S \ {c}) \cap Customers) = Cardinality(S \cap Customers) - 1
  BY <1>1, <1>2, CountRemove
<1>3. IsFiniteSet(Res) /\ IsFiniteSet(Owe)
  BY FiniteSides
<1>4. ASSUME Res' = Res \ {c}, c \in Res
      PROVE  IF c = Maker THEN ResM' = ResM - 1 /\ ResC' = ResC
                          ELSE ResM' = ResM /\ ResC' = ResC - 1
  BY <1>2, <1>3, <1>4 DEF ResM, ResC
<1>5. ASSUME Owe' = Owe \ {c}, c \in Owe
      PROVE  IF c = Maker THEN OweM' = OweM - 1 /\ OweC' = OweC
                          ELSE OweM' = OweM /\ OweC' = OweC - 1
  BY <1>2, <1>3, <1>5 DEF OweM, OweC
<1>6. QED
  BY <1>4, <1>5

LEMMA Stays ==
    /\ Res' = Res => ResM' = ResM /\ ResC' = ResC
    /\ Owe' = Owe => OweM' = OweM /\ OweC' = OweC
BY DEF ResM, ResC, OweM, OweC

(* What Go leaves of the program counters.  A child moves only before main  *)
(* frees the semaphores.                                                    *)
LEMMA GoFacts ==
    ASSUME MqTypes, ReapedExited, NEW c \in Children, NEW at, NEW to \in MqLabels,
           Go(c, at, to)
    PROVE  /\ Serving /\ Serving' /\ main' = main /\ ~Exited(c)
           /\ c \in Children \ blocked /\ pc[c] = at
           /\ pc' \in [Children -> MqLabels] /\ pc'[c] = to
           /\ \A d \in Children : d # c => pc'[d] = pc[d]
           /\ blocked \subseteq Children /\ \A d \in blocked : d # c
           /\ Follows(WaitKey, WaitKey')
           /\ QueuesMatch(MqKeys, Children, sems, blocked, WaitKey)
<1>1. /\ main > c /\ c \notin blocked /\ ~Exited(c) /\ pc[c] = at
      /\ pc' = [pc EXCEPT ![c] = to] /\ main' = main /\ main \in Nat
      /\ pc \in [Children -> MqLabels]
  BY ChildFacts DEF Go, MqTypes
<1>2. Serving /\ Serving'
  <2>1. ~(main > Forked + c)
    BY <1>1 DEF ReapedExited
  <2>2. main <= 2 * Forked
    BY <1>1, <2>1, ChildFacts
  <2>3. QED
    BY <1>1, <2>2 DEF Serving
<1>3. QueuesMatch(MqKeys, Children, sems, blocked, WaitKey) /\ blocked \subseteq Children
  BY <1>2 DEF MqTypes, QueuesMatch
<1>4. /\ pc' \in [Children -> MqLabels] /\ pc'[c] = to
      /\ \A d \in Children : d # c => pc'[d] = pc[d]
  BY <1>1
<1>5. Follows(WaitKey, WaitKey')
  BY <1>1, <1>3, <1>4 DEF Follows, WaitKey
<1>6. QED
  BY <1>1, <1>2, <1>3, <1>4, <1>5

-----------------------------------------------------------------------------
(* A first wait that returns reserves a cup or a place for one.             *)
LEMMA NeedInv == ASSUME IInv, NEW c \in Children, Need(c) PROVE IInv'
<1>1. /\ Go(c, "need", "lock") /\ WaitOn(c, WaitsFor(c))
      /\ UNCHANGED <<COFFEE_CUPS, reg, rounds>>
      /\ MqTypes /\ ReapedExited /\ "lock" \in MqLabels
  BY DEF Need, IInv, MqLabels
<1> DEFINE k == WaitsFor(c)
<1>2. /\ Serving /\ Serving' /\ main' = main /\ ~Exited(c)
      /\ c \in Children \ blocked /\ pc[c] = "need"
      /\ pc' \in [Children -> MqLabels] /\ pc'[c] = "lock"
      /\ \A d \in Children : d # c => pc'[d] = pc[d]
      /\ blocked \subseteq Children /\ \A d \in blocked : d # c
      /\ Follows(WaitKey, WaitKey')
      /\ QueuesMatch(MqKeys, Children, sems, blocked, WaitKey)
  BY <1>1, GoFacts
<1>3. k \in MqKeys /\ k # "MUTEX" /\ WaitKey'[c] = k /\ WaitOn(c, k)
  BY <1>1, <1>2, ChildFacts DEF WaitKey
<1> HIDE DEF k
<1>4. WaitDone(MqKeys, Children, c, k, WaitKey')
  BY <1>2, <1>3, WaitEffect
<1>5. MqTypes'
  <2>1. \A d \in blocked' : pc'[d] \in {"lock", "load"}
    BY <1>1, <1>2, <1>4 DEF MqTypes, WaitDone, Took, GotBlocked
  <2>2. QED
    BY <2>1, <1>1, <1>2, <1>4 DEF MqTypes, WaitDone
<1>6. ReapedExited' /\ RegFresh'
  BY <1>1, <1>2 DEF ReapedExited, Exited, IInv, RegFresh
<1>7. RackExclusive'
  <2>1. \A d \in Children : AtRack(d)' <=> AtRack(d)
    BY <1>2, <1>4 DEF AtRack, WaitDone, Took, GotBlocked
  <2>2. sems'["MUTEX"] = sems["MUTEX"]
    BY <1>3, <1>4, ChildFacts DEF WaitDone, Only
  <2>3. QED
    BY <2>1, <2>2, <1>2 DEF IInv, RackExclusive
<1>8. Tokens'
  <2>1. Owe' = Owe /\ COFFEE_CUPS' = COFFEE_CUPS
    BY <1>1, <1>2 DEF Owe, Owes
  <2>2. c \notin Res
    BY <1>2 DEF Res, Reserved
  <2>3. CASE Took(k)
    <3>1. Res' = Res \cup {c}
      BY <2>3, <1>2 DEF Took, Res, Reserved
    <3>2. IF c = Maker THEN FreeTokens' = FreeTokens - 1 /\ CupTokens' = CupTokens
                       ELSE FreeTokens' = FreeTokens /\ CupTokens' = CupTokens - 1
      BY <2>3, <1>4, ChildFacts
         DEF Took, WaitDone, Only, FreeTokens, CupTokens, k, WaitsFor
    <3>3. QED
      BY <3>1, <3>2, <2>1, <2>2, <1>1, <1>2, Enters, Stays, CountTypes, TokenTypes
         DEF IInv, Tokens
  <2>4. CASE GotBlocked(c, k)
    <3>1. Res' = Res
      BY <2>4, <1>2 DEF GotBlocked, Res, Reserved
    <3>2. FreeTokens' = FreeTokens /\ CupTokens' = CupTokens
      BY <2>4, <1>4, ChildFacts DEF GotBlocked, WaitDone, Only, FreeTokens, CupTokens
    <3>3. QED
      BY <3>1, <3>2, <2>1, <1>2, Stays DEF IInv, Tokens
  <2>5. QED
    BY <2>3, <2>4, <1>4 DEF WaitDone
<1>9. QED
  BY <1>2, <1>5, <1>6, <1>7, <1>8 DEF IInv, MutexFreed

(* The mutex: a child is at the rack when its wait returns, and its token   *)
(* of the first semaphore stays with it.                                    *)
LEMMA LockInv == ASSUME IInv, NEW c \in Children, Lock(c) PROVE IInv'
<1>1. /\ Go(c, "lock", "load") /\ WaitOn(c, "MUTEX")
      /\ UNCHANGED <<COFFEE_CUPS, reg, rounds>>
      /\ MqTypes /\ ReapedExited /\ "load" \in MqLabels
  BY DEF Lock, IInv, MqLabels
<1>2. /\ Serving /\ Serving' /\ main' = main /\ ~Exited(c)
      /\ c \in Children \ blocked /\ pc[c] = "lock"
      /\ pc' \in [Children -> MqLabels] /\ pc'[c] = "load"
      /\ \A d \in Children : d # c => pc'[d] = pc[d]
      /\ blocked \subseteq Children /\ \A d \in blocked : d # c
      /\ Follows(WaitKey, WaitKey')
      /\ QueuesMatch(MqKeys, Children, sems, blocked, WaitKey)
  BY <1>1, GoFacts
<1>3. "MUTEX" \in MqKeys /\ WaitKey'[c] = "MUTEX"
  BY <1>2, ChildFacts DEF WaitKey
<1>4. WaitDone(MqKeys, Children, c, "MUTEX", WaitKey')
  BY <1>1, <1>2, <1>3, WaitEffect
<1>5. MqTypes'
  <2>1. \A d \in blocked' : pc'[d] \in {"lock", "load"}
    BY <1>1, <1>2, <1>4 DEF MqTypes, WaitDone, Took, GotBlocked
  <2>2. QED
    BY <2>1, <1>1, <1>2, <1>4 DEF MqTypes, WaitDone
<1>6. ReapedExited' /\ RegFresh'
  BY <1>1, <1>2 DEF ReapedExited, Exited, IInv, RegFresh
<1>7. RackExclusive'
  <2>1. \A d \in Children : d # c => (AtRack(d)' <=> AtRack(d))
    BY <1>2, <1>4 DEF AtRack, WaitDone, Took, GotBlocked
  <2>2. ~AtRack(c) /\ (AtRack(c)' <=> c \notin blocked')
    BY <1>2 DEF AtRack
  <2>3. CASE Took("MUTEX")
    <3>1. sems["MUTEX"].count = 1 /\ sems'["MUTEX"].count = 0 /\ c \notin blocked'
      BY <2>3, <1>2 DEF Took, IInv, RackExclusive
    <3>2. \A d \in Children : ~AtRack(d)
      BY <3>1, <1>2 DEF IInv, RackExclusive
    <3>3. QED
      BY <2>1, <2>2, <3>1, <3>2 DEF RackExclusive
  <2>4. CASE GotBlocked(c, "MUTEX")
    <3>1. sems["MUTEX"].count = 0 /\ sems'["MUTEX"].count = 0 /\ c \in blocked'
      BY <2>4 DEF GotBlocked
    <3>2. \A d \in Children : AtRack(d)' <=> AtRack(d)
      BY <2>1, <2>2, <3>1
    <3>3. QED
      BY <3>1, <3>2, <1>2 DEF IInv, RackExclusive
  <2>5. QED
    BY <2>3, <2>4, <1>4 DEF WaitDone
<1>8. Tokens'
  <2>1. Owe' = Owe /\ COFFEE_CUPS' = COFFEE_CUPS
    BY <1>1, <1>2 DEF Owe, Owes
  <2>2. Res' = Res
    BY <1>2, <1>4 DEF Res, Reserved, WaitDone, Took, GotBlocked
  <2>3. FreeTokens' = FreeTokens /\ CupTokens' = CupTokens
    BY <1>4, ChildFacts DEF WaitDone, Only, FreeTokens, CupTokens
  <2>4. QED
    BY <2>1, <2>2, <2>3, <1>2, Stays DEF IInv, Tokens
<1>9. QED
  BY <1>2, <1>5, <1>6, <1>7, <1>8 DEF IInv, MutexFreed

(* At the rack a child has COFFEE_CUPS to itself: its copy stays fresh, and *)
(* the store counts its cup.                                                *)
LEMMA LoadInv == ASSUME IInv, NEW c \in Children, Load(c) PROVE IInv'
<1>1. /\ Go(c, "load", "store") /\ reg' = [reg EXCEPT ![c] = COFFEE_CUPS]
      /\ UNCHANGED <<sems, blocked, COFFEE_CUPS, rounds>>
      /\ MqTypes /\ ReapedExited /\ "store" \in MqLabels
  BY DEF Load, IInv, MqLabels
<1>2. /\ Serving /\ Serving' /\ main' = main /\ ~Exited(c)
      /\ c \in Children \ blocked /\ pc[c] = "load"
      /\ pc' \in [Children -> MqLabels] /\ pc'[c] = "store"
      /\ \A d \in Children : d # c => pc'[d] = pc[d]
      /\ blocked \subseteq Children /\ \A d \in blocked : d # c
      /\ Follows(WaitKey, WaitKey')
      /\ QueuesMatch(MqKeys, Children, sems, blocked, WaitKey)
  BY <1>1, GoFacts
<1>3. MqTypes'
  <2>1. QueuesMatch(MqKeys, Children, sems', blocked', WaitKey')
    BY <1>1, <1>2, QuietEffect
  <2>2. QED
    BY <2>1, <1>1, <1>2 DEF MqTypes
<1>4. ReapedExited'
  BY <1>1, <1>2 DEF ReapedExited, Exited
<1>5. RegFresh'
  BY <1>1, <1>2 DEF IInv, RegFresh, MqTypes
<1>6. RackExclusive'
  <2>1. \A d \in Children : AtRack(d)' <=> AtRack(d)
    BY <1>1, <1>2 DEF AtRack
  <2>2. QED
    BY <2>1, <1>1, <1>2 DEF IInv, RackExclusive
<1>7. Tokens'
  <2>1. Owe' = Owe /\ Res' = Res
    BY <1>1, <1>2 DEF Owe, Owes, Res, Reserved
  <2>2. FreeTokens' = FreeTokens /\ CupTokens' = CupTokens
    BY <1>1 DEF FreeTokens, CupTokens
  <2>3. QED
    BY <2>1, <2>2, <1>1, <1>2, Stays DEF IInv, Tokens
<1>8. QED
  BY <1>2, <1>3, <1>4, <1>5, <1>6, <1>7 DEF IInv, MutexFreed

(* The store of the changed counter.                                        *)
LEMMA StoreInv == ASSUME IInv, NEW c \in Children, Store(c) PROVE IInv'
<1>1. /\ Go(c, "store", "unlock")
      /\ COFFEE_CUPS' = (IF c = Maker THEN reg[c] + 1 ELSE reg[c] - 1)
      /\ UNCHANGED <<sems, blocked, reg, rounds>>
      /\ MqTypes /\ ReapedExited /\ "unlock" \in MqLabels
  BY DEF Store, IInv, MqLabels
<1>2. /\ Serving /\ Serving' /\ main' = main /\ ~Exited(c)
      /\ c \in Children \ blocked /\ pc[c] = "store"
      /\ pc' \in [Children -> MqLabels] /\ pc'[c] = "unlock"
      /\ \A d \in Children : d # c => pc'[d] = pc[d]
      /\ blocked \subseteq Children /\ \A d \in blocked : d # c
      /\ Follows(WaitKey, WaitKey')
      /\ QueuesMatch(MqKeys, Children, sems, blocked, WaitKey)
  BY <1>1, GoFacts
<1>3. reg[c] = COFFEE_CUPS /\ COFFEE_CUPS \in Int /\ COFFEE_CUPS' \in Int
  BY <1>1, <1>2 DEF IInv, RegFresh, MqTypes
<1>4. MqTypes'
  <2>1. QueuesMatch(MqKeys, Children, sems', blocked', WaitKey')
    BY <1>1, <1>2, QuietEffect
  <2>2. QED
    BY <2>1, <1>1, <1>2, <1>3 DEF MqTypes
<1>5. ReapedExited'
  BY <1>1, <1>2 DEF ReapedExited, Exited
<1>6. \A d \in Children : AtRack(d) => d = c
  BY <1>2 DEF IInv, RackExclusive, AtRack
<1>7. RegFresh'
  <2>1. \A d \in Children : pc'[d] # "store"
    BY <1>2, <1>6 DEF AtRack
  <2>2. QED
    BY <2>1 DEF RegFresh
<1>8. RackExclusive'
  <2>1. \A d \in Children : AtRack(d)' <=> AtRack(d)
    BY <1>1, <1>2 DEF AtRack
  <2>2. QED
    BY <2>1, <1>1, <1>2 DEF IInv, RackExclusive
<1>9. Tokens'
  <2>1. Res' = Res \ {c} /\ c \in Res
    BY <1>1, <1>2 DEF Res, Reserved
  <2>2. Owe' = Owe \cup {c} /\ c \notin Owe
    BY <1>1, <1>2 DEF Owe, Owes
  <2>3. FreeTokens' = FreeTokens /\ CupTokens' = CupTokens
    BY <1>1 DEF FreeTokens, CupTokens
  <2>4. QED
    BY <2>1, <2>2, <2>3, <1>1, <1>2, <1>3, Enters, Leaves, CountTypes, TokenTypes
       DEF IInv, Tokens
<1>10. QED
  BY <1>2, <1>4, <1>5, <1>7, <1>8, <1>9 DEF IInv, MutexFreed

(* The mutex is free, or its longest waiter is at the rack.                 *)
LEMMA UnlockInv == ASSUME IInv, NEW c \in Children, Unlock(c) PROVE IInv'
<1>1. /\ Go(c, "unlock", "tell") /\ SignalTo("MUTEX")
      /\ UNCHANGED <<COFFEE_CUPS, reg, rounds>>
      /\ MqTypes /\ ReapedExited /\ "tell" \in MqLabels
  BY DEF Unlock, IInv, MqLabels
<1>2. /\ Serving /\ Serving' /\ main' = main /\ ~Exited(c)
      /\ c \in Children \ blocked /\ pc[c] = "unlock"
      /\ pc' \in [Children -> MqLabels] /\ pc'[c] = "tell"
      /\ \A d \in Children : d # c => pc'[d] = pc[d]
      /\ blocked \subseteq Children /\ \A d \in blocked : d # c
      /\ Follows(WaitKey, WaitKey')
      /\ QueuesMatch(MqKeys, Children, sems, blocked, WaitKey)
  BY <1>1, GoFacts
<1>3. SignalDone(MqKeys, Children, "MUTEX", WaitKey, WaitKey')
  BY <1>1, <1>2, ChildFacts, SignalEffect
<1>4. /\ blocked' \subseteq blocked
      /\ \A d \in blocked : d \notin blocked' => pc[d] = "load"
  <2>1. \A d \in blocked : WaitKey[d] = "MUTEX" => pc[d] = "load"
    BY <1>1, <1>2, ChildFacts DEF WaitKey, MqTypes
  <2>2. QED
    BY <2>1, <1>3 DEF SignalDone, Banked, HandedTo
<1>5. MqTypes'
  <2>1. \A d \in blocked' : pc'[d] \in {"lock", "load"}
    BY <1>1, <1>2, <1>4 DEF MqTypes
  <2>2. QED
    BY <2>1, <1>1, <1>2, <1>3 DEF MqTypes, SignalDone
<1>6. ReapedExited' /\ RegFresh'
  BY <1>1, <1>2 DEF ReapedExited, Exited, IInv, RegFresh
<1>7. RackExclusive'
  <2>1. AtRack(c) /\ ~AtRack(c)' /\ \A d \in Children : AtRack(d) => d = c
    BY <1>2 DEF IInv, RackExclusive, AtRack
  <2>2. sems["MUTEX"].count = 0
    BY <2>1, <1>2 DEF IInv, RackExclusive
  <2>3. CASE Banked("MUTEX", WaitKey)
    <3>1. sems'["MUTEX"].count = 1 /\ blocked' = blocked
      BY <2>2, <2>3 DEF Banked
    <3>2. \A d \in Children : ~AtRack(d)'
      BY <2>1, <3>1, <1>2 DEF AtRack
    <3>3. QED
      BY <3>1, <3>2 DEF RackExclusive
  <2>4. ASSUME NEW w \in Children, HandedTo(w, "MUTEX", WaitKey) PROVE RackExclusive'
    <3>1. w \in blocked /\ blocked' = blocked \ {w} /\ sems'["MUTEX"].count = 0
      BY <2>4 DEF HandedTo
    <3>2. pc'[w] = "load"
      BY <3>1, <1>2, <1>4
    <3>3. AtRack(w)'
      BY <3>1, <3>2 DEF AtRack
    <3>4. \A d \in Children : d # w => ~AtRack(d)'
      BY <2>1, <3>1, <1>2 DEF AtRack
    <3>5. QED
      BY <3>1, <3>3, <3>4 DEF RackExclusive
  <2>5. QED
    BY <2>3, <2>4, <1>3 DEF SignalDone
<1>8. Tokens'
  <2>1. Owe' = Owe /\ COFFEE_CUPS' = COFFEE_CUPS
    BY <1>1, <1>2 DEF Owe, Owes
  <2>2. Res' = Res
    <3>1. \A d \in Children : Reserved(d)' <=> Reserved(d)
      BY <1>2, <1>4 DEF Reserved
    <3>2. QED
      BY <3>1 DEF Res
  <2>3. FreeTokens' = FreeTokens /\ CupTokens' = CupTokens
    BY <1>3, ChildFacts DEF SignalDone, Only, FreeTokens, CupTokens
  <2>4. QED
    BY <2>1, <2>2, <2>3, <1>2, Stays DEF IInv, Tokens
<1>9. QED
  BY <1>2, <1>5, <1>6, <1>7, <1>8 DEF IInv, MutexFreed

(* The other side is told: a token is banked, or a waiter has it at once.   *)
LEMMA TellInv == ASSUME IInv, NEW c \in Children, Tell(c) PROVE IInv'
<1>1. /\ Go(c, "tell", "need") /\ SignalTo(Signals(c))
      /\ rounds' = [rounds EXCEPT ![c] = @ + 1]
      /\ UNCHANGED <<COFFEE_CUPS, reg>>
      /\ MqTypes /\ ReapedExited /\ "need" \in MqLabels
  BY DEF Tell, IInv, MqLabels
<1>2. /\ Serving /\ Serving' /\ main' = main /\ ~Exited(c)
      /\ c \in Children \ blocked /\ pc[c] = "tell"
      /\ pc' \in [Children -> MqLabels] /\ pc'[c] = "need"
      /\ \A d \in Children : d # c => pc'[d] = pc[d]
      /\ blocked \subseteq Children /\ \A d \in blocked : d # c
      /\ Follows(WaitKey, WaitKey')
      /\ QueuesMatch(MqKeys, Children, sems, blocked, WaitKey)
  BY <1>1, GoFacts
<1> DEFINE k == Signals(c)
<1>3. k \in MqKeys /\ k # "MUTEX" /\ SignalTo(k)
  BY <1>1, ChildFacts
<1> HIDE DEF k
<1>4. SignalDone(MqKeys, Children, k, WaitKey, WaitKey')
  BY <1>2, <1>3, SignalEffect
<1>5. /\ blocked' \subseteq blocked
      /\ \A d \in blocked : d \notin blocked' => pc[d] = "lock"
  <2>1. \A d \in blocked : WaitKey[d] = k => pc[d] = "lock"
    BY <1>2, <1>3 DEF WaitKey
  <2>2. QED
    BY <2>1, <1>4 DEF SignalDone, Banked, HandedTo
<1>6. MqTypes'
  <2>1. \A d \in blocked' : pc'[d] \in {"lock", "load"}
    BY <1>1, <1>2, <1>5 DEF MqTypes
  <2>2. rounds' \in [Children -> Nat]
    BY <1>1 DEF MqTypes
  <2>3. QED
    BY <2>1, <2>2, <1>1, <1>2, <1>4 DEF MqTypes, SignalDone
<1>7. ReapedExited'
  <2>1. \A d \in Children : d # c => rounds'[d] = rounds[d]
    BY <1>1 DEF MqTypes
  <2>2. ~(main > Forked + c)
    BY <1>1, <1>2 DEF ReapedExited
  <2>3. QED
    BY <2>1, <2>2, <1>1, <1>2 DEF ReapedExited, Exited
<1>8. RegFresh'
  BY <1>1, <1>2 DEF IInv, RegFresh
<1>9. RackExclusive'
  <2>1. \A d \in Children : AtRack(d)' <=> AtRack(d)
    BY <1>2, <1>5 DEF AtRack
  <2>2. sems'["MUTEX"] = sems["MUTEX"]
    BY <1>3, <1>4, ChildFacts DEF SignalDone, Only
  <2>3. QED
    BY <2>1, <2>2, <1>2 DEF IInv, RackExclusive
<1>10. Tokens'
  <2>1. Owe' = Owe \ {c} /\ c \in Owe /\ COFFEE_CUPS' = COFFEE_CUPS
    BY <1>1, <1>2 DEF Owe, Owes
  <2>2. CASE Banked(k, WaitKey)
    <3>1. Res' = Res
      BY <2>2, <1>2 DEF Banked, Res, Reserved
    <3>2. IF c = Maker THEN FreeTokens' = FreeTokens /\ CupTokens' = CupTokens + 1
                       ELSE FreeTokens' = FreeTokens + 1 /\ CupTokens' = CupTokens
      BY <2>2, <1>4, ChildFacts
         DEF Banked, SignalDone, Only, FreeTokens, CupTokens, k, Signals
    <3>3. QED
      BY <3>1, <3>2, <2>1, <1>1, <1>2, Leaves, Stays, CountTypes, TokenTypes
         DEF IInv, Tokens
  <2>3. ASSUME NEW w \in Children, HandedTo(w, k, WaitKey) PROVE Tokens'
    <3>1. w \in blocked /\ blocked' = blocked \ {w} /\ w # c /\ WaitKey[w] = k
      BY <2>3, <1>2 DEF HandedTo
    <3>2. pc[w] = "lock" /\ pc'[w] = "lock" /\ WaitsFor(w) = k
      BY <3>1, <1>2, <1>3 DEF WaitKey
    <3>3. Res' = Res \cup {w} /\ w \notin Res
      <4>1. \A d \in Children : d # w => (Reserved(d)' <=> Reserved(d))
        BY <3>1, <1>2 DEF Reserved
      <4>2. Reserved(w)' /\ ~Reserved(w)
        BY <3>1, <3>2 DEF Reserved
      <4>3. QED
        BY <4>1, <4>2 DEF Res
    <3>4. FreeTokens' = FreeTokens /\ CupTokens' = CupTokens
      BY <2>3, <1>4, ChildFacts DEF HandedTo, SignalDone, Only, FreeTokens, CupTokens
    <3>5. w = Maker <=> c # Maker
      BY <3>2 DEF k, Signals, WaitsFor
    <3>6. QED
      BY <3>3, <3>4, <3>5, <2>1, <1>1, <1>2, Enters, Leaves, CountTypes, TokenTypes
         DEF IInv, Tokens
  <2>4. QED
    BY <2>2, <2>3, <1>4 DEF SignalDone
<1>11. QED
  BY <1>2, <1>6, <1>7, <1>8, <1>9, <1>10 DEF IInv, MutexFreed

-----------------------------------------------------------------------------
(* main.  What the invariant says of the children does not depend on it,    *)
(* except that a child it has reaped has exited.                            *)
LEMMA MainInv ==
    ASSUME IInv, UNCHANGED <<blocked, COFFEE_CUPS, pc, reg, rounds>>,
           main' \in 0..(2 * Forked + 3), Serving' => Serving /\ sems' = sems,
           ReapedExited', MutexFreed'
    PROVE  IInv'
<1>1. WaitKey' = WaitKey
  BY DEF WaitKey
<1>2. MqTypes'
  BY <1>1 DEF IInv, MqTypes
<1>3. /\ \A c \in Children : AtRack(c)' <=> AtRack(c)
      /\ Res' = Res /\ Owe' = Owe
  BY DEF AtRack, Res, Reserved, Owe, Owes
<1>4. RackExclusive' /\ RegFresh'
  BY <1>3 DEF IInv, RackExclusive, RegFresh
<1>5. Serving' => FreeTokens' = FreeTokens /\ CupTokens' = CupTokens
  BY DEF FreeTokens, CupTokens
<1>6. Tokens'
  BY <1>3, <1>5, Stays DEF IInv, Tokens
<1>7. QED
  BY <1>2, <1>4, <1>6 DEF IInv

LEMMA ForkInv == ASSUME IInv, Fork \/ Reap PROVE IInv'
<1>1. /\ main' = main + 1 /\ main \in Nat /\ main < 2 * Forked
      /\ main < Forked \/ (main >= Forked /\ Exited(main - Forked))
      /\ UNCHANGED <<sems, blocked, COFFEE_CUPS, pc, reg, rounds>>
  BY ChildFacts DEF IInv, MqTypes, Fork, Reap
<1>2. ReapedExited'
  <2>1. ASSUME NEW c \in Children, main + 1 > Forked + c PROVE Exited(c)
    <3>1. main > Forked + c \/ c = main - Forked
      BY <1>1, <2>1, ChildFacts
    <3>2. CASE main > Forked + c
      BY <3>2 DEF IInv, ReapedExited
    <3>3. CASE c = main - Forked
      <4>1. main >= Forked
        BY <1>1, <3>3, ChildFacts
      <4>2. QED
        BY <4>1, <1>1, <3>3, ChildFacts
    <3>4. QED
      BY <3>1, <3>2, <3>3
  <2>2. QED
    BY <2>1, <1>1 DEF ReapedExited, Exited
<1>3. Serving /\ main' \in 0..(2 * Forked + 3) /\ MutexFreed'
  BY <1>1, ChildFacts DEF Serving, MutexFreed
<1>4. QED
  BY <1>1, <1>2, <1>3, MainInv

LEMMA FreeInv == ASSUME IInv, Free PROVE IInv'
<1>1. /\ main \in (2 * Forked)..(2 * Forked + 2) /\ main' = main + 1
      /\ UNCHANGED <<blocked, COFFEE_CUPS, pc, reg, rounds>>
  BY DEF Free
<1>2. ~Serving' /\ main' \in 0..(2 * Forked + 3)
  BY <1>1, ChildFacts DEF Serving
<1>3. ReapedExited'
  <2>1. \A c \in Children : main > Forked + c
    BY <1>1, ChildFacts
  <2>2. QED
    BY <2>1, <1>1 DEF IInv, ReapedExited, Exited
<1>4. MutexFreed'
  <2>1. DOMAIN sems' = DOMAIN sems \ {FreeOrder[main - 2 * Forked + 1]}
    BY DEF Free, Discard
  <2>2. CASE main = 2 * Forked
    <3>1. FreeOrder[main - 2 * Forked + 1] = "MUTEX"
      BY <2>2, ChildFacts DEF FreeOrder
    <3>2. QED
      BY <2>1, <3>1 DEF MutexFreed
  <2>3. CASE main # 2 * Forked
    <3>1. ~Serving
      BY <2>3, <1>1, ChildFacts DEF Serving
    <3>2. QED
      BY <2>1, <3>1 DEF IInv, MutexFreed
  <2>4. QED
    BY <2>2, <2>3
<1>5. QED
  BY <1>1, <1>2, <1>3, <1>4, MainInv

LEMMA NextInv == ASSUME IInv, [Next]_vars PROVE IInv'
<1>1. CASE UNCHANGED vars
  <2>1. UNCHANGED <<sems, blocked, COFFEE_CUPS, pc, reg, rounds, main>>
    BY <1>1 DEF vars
  <2>2. /\ ReapedExited' /\ MutexFreed' /\ (Serving' <=> Serving)
        /\ main' \in 0..(2 * Forked + 3)
    BY <2>1 DEF IInv, ReapedExited, MutexFreed, Exited, Serving, MqTypes
  <2>3. QED
    BY <2>1, <2>2, MainInv
<1>2. ASSUME NEW c \in Children, Child(c) PROVE IInv'
  BY <1>2, NeedInv, LockInv, LoadInv, StoreInv, UnlockInv, TellInv DEF Child
<1>3. QED
  BY <1>1, <1>2, ForkInv, FreeInv DEF Next

LEMMA InitInv == ASSUME Init PROVE IInv
<1>1. /\ sems = [k \in MqKeys |-> NewSemaphore(InitialValue(k))]
      /\ blocked = {} /\ COFFEE_CUPS = 0 /\ pc = [c \in Children |-> "need"]
      /\ reg = [c \in Children |-> 0] /\ rounds = [c \in Children |-> 0]
      /\ main = 0
  BY DEF Init
<1>2. /\ InitialValue("FULL_CAPACITY") = CUP_CAPACITY /\ InitialValue("NON_EMPTY") = 0
      /\ InitialValue("MUTEX") = 1 /\ \A k \in MqKeys : InitialValue(k) \in Nat
  BY MqAssumption DEF InitialValue, MqKeys
<1>3. \A k \in MqKeys : sems[k] \in Semaphores(Children) /\ sems[k].queue = <<>>
                        /\ sems[k].count = InitialValue(k)
  <2>1. \A n \in Nat : [count |-> n, queue |-> <<>>] \in Semaphores(Children)
    BY DEF Semaphores
  <2>2. QED
    BY <2>1, <1>1, <1>2 DEF NewSemaphore
<1>4. MqTypes
  <2>1. sems \in [MqKeys -> Semaphores(Children)]
    BY <1>1, <1>3
  <2>2. QueuesMatch(MqKeys, Children, sems, blocked, WaitKey)
    BY <2>1, <1>1, <1>3 DEF QueuesMatch, InQueue, NoDuplicates
  <2>3. QED
    BY <2>2, <1>1, ChildFacts DEF MqTypes, MqLabels
<1>5. ReapedExited /\ MutexFreed /\ RegFresh
  BY <1>1, ChildFacts DEF ReapedExited, MutexFreed, Serving, RegFresh
<1>6. RackExclusive
  BY <1>1, <1>2, <1>3, ChildFacts DEF RackExclusive, AtRack
<1>7. Tokens
  <2>1. Res = {} /\ Owe = {}
    BY <1>1 DEF Res, Reserved, Owe, Owes
  <2>2. ResM = 0 /\ ResC = 0 /\ OweM = 0 /\ OweC = 0
    <3>1. \A T : {} \cap T = {}
      OBVIOUS
    <3>2. QED
      BY <2>1, <3>1, FS_EmptySet DEF ResM, ResC, OweM, OweC
  <2>3. FreeTokens = CUP_CAPACITY /\ CupTokens = 0
    BY <1>2, <1>3, ChildFacts DEF FreeTokens, CupTokens
  <2>4. QED
    BY <2>2, <2>3, <1>1, MqAssumption DEF Tokens
<1>8. QED
  BY <1>4, <1>5, <1>6, <1>7 DEF IInv

-----------------------------------------------------------------------------
(* The inductive invariant in every reachable state.                        *)
LEMMA Invariant == Spec => []IInv
<1>1. Init => IInv
  BY InitInv
<1>2. IInv /\ [Next]_vars => IInv'
  BY NextInv
<1>3. QED
  BY <1>1, <1>2, PTL DEF Spec

(* TokensMatchCups counts the same children.                                *)
LEMMA SidesCounted ==
    /\ {c \in {Maker} : Reserved(c)} = Res \cap {Maker}
    /\ {c \in {Maker} : Owes(c)} = Owe \cap {Maker}
    /\ {c \in Customers : Reserved(c)} = Res \cap Customers
    /\ {c \in Customers : Owes(c)} = Owe \cap Customers
BY ChildFacts DEF Res, Owe

(* For every capacity, number of customers and cups per customer: in every  *)
(* state the two counting semaphores agree with the rack, so no update of   *)
(* COFFEE_CUPS is lost although the clock may tick between load and store   *)
(* (main.rs:81, 106 of mq).                                                 *)
THEOREM MqTokensMatchCups == Spec => []TokensMatchCups
<1>1. ASSUME IInv PROVE TokensMatchCups
  <2> SUFFICES ASSUME MqKeys \subseteq DOMAIN sems PROVE TokensMatchCups
    BY DEF TokensMatchCups
  <2>1. Serving
    BY <1>1, ChildFacts DEF IInv, MutexFreed
  <2>2. /\ CUP_CAPACITY = FreeTokens + COFFEE_CUPS + ResM + OweC
        /\ COFFEE_CUPS = CupTokens + ResC + OweM
    BY <1>1, <2>1 DEF IInv, Tokens
  <2>3. QED
    BY <2>2, SidesCounted
       DEF TokensMatchCups, FreeTokens, CupTokens, ResM, ResC, OweM, OweC
<1>2. QED
  BY <1>1, Invariant, PTL

(* The rack never holds more cups than fit, nor less than none, for as long *)
(* as the semaphores exist: what the two counting semaphores are for        *)
(* (main.rs:81, 106 of mq).                                                 *)
THEOREM RackInBounds == Spec => [](Serving => COFFEE_CUPS \in 0..CUP_CAPACITY)
<1>1. ASSUME IInv, Serving PROVE COFFEE_CUPS \in 0..CUP_CAPACITY
  BY <1>1, CountTypes, TokenTypes DEF IInv, Tokens
<1>2. IInv => (Serving => COFFEE_CUPS \in 0..CUP_CAPACITY)
  BY <1>1
<1>3. QED
  BY <1>2, Invariant, PTL

(* main frees a semaphore only when every child has left its loop for good, *)
(* so no semaphore call fails (main.rs:57-65 of mq).                        *)
THEOREM MqFreedUnused == Spec => []FreedUnused
<1>1. ASSUME IInv PROVE FreedUnused
  <2>1. CASE Serving
    <3>1. DOMAIN sems = MqKeys
      BY <1>1, <2>1 DEF IInv, MqTypes, QueuesMatch
    <3>2. QED
      BY <3>1 DEF FreedUnused
  <2>2. CASE ~Serving
    <3>1. main \in Nat /\ main > 2 * Forked
      BY <1>1, <2>2, ChildFacts DEF IInv, MqTypes, Serving
    <3>2. \A c \in Children : main > Forked + c
      BY <3>1, ChildFacts
    <3>3. QED
      BY <1>1, <3>2 DEF IInv, ReapedExited, FreedUnused
  <2>3. QED
    BY <2>1, <2>2
<1>2. QED
  BY <1>1, Invariant, PTL
=============================================================================
