----------------------------- MODULE FishProofs -----------------------------
(***************************************************************************)
(* The fish application, for every TOTAL_PRINTS: the output is in order    *)
(* and the static variables are never shared (Fish).                       *)
(***************************************************************************)
EXTENDS Fish, SemFamilyProofs

Labels == {"own", "mutex", "check", "print", "next", "unlock",
           "byeGT", "byeLT", "byeUS", "leave", "exited"}

(* The semaphore a fish is blocked on, if it is: the saved program counter  *)
(* is past the call.                                                        *)
WaitKey == [f \in FishNames |-> IF pc[f] = "mutex" THEN f ELSE "MUTEX"]

FishTypes ==
    /\ QueuesMatch(FishKeys, FishNames, sems, blocked, WaitKey)
    /\ pc \in [FishNames -> Labels]
    /\ \A f \in blocked : pc[f] \in {"mutex", "check"}
    /\ printed \in Seq(FishNames)

(* STEP and PATTERN say how far the output is.                              *)
StaticsFollow ==
    /\ step = PRINT_COUNT % 4
    /\ pattern = (PRINT_COUNT \div 4) % 2
    /\ \A f \in FishNames : pc[f] = "print" => PRINT_COUNT < TOTAL_PRINTS

(* The token of the mutex is banked exactly when nobody is inside.          *)
MutexToken ==
    /\ sems["MUTEX"].count \in {0, 1}
    /\ sems["MUTEX"].count = 1 <=> \A f \in FishNames : ~Inside(f)

(* Until the last character there is one turn: with the fish whose          *)
(* character is next, before it entered (in its semaphore) or after, or,    *)
(* after it has printed, nowhere until it signals the next one.             *)
HasEntered(f) == pc[f] \in {"check", "print"} \/ (pc[f] = "mutex" /\ f \notin blocked)
HasTurn(f) == sems[f].count = 1 \/ HasEntered(f)

TurnToken ==
    PRINT_COUNT < TOTAL_PRINTS =>
        \A f \in FishNames :
            /\ pc[f] \in {"own", "mutex", "check", "print", "next", "unlock"}
            /\ sems[f].count <= 1
            /\ ~(sems[f].count = 1 /\ HasEntered(f))
            /\ HasTurn(f) <=> (f = NextSem /\ \A g \in FishNames : pc[g] # "next")

IInv ==
    /\ FishTypes /\ StaticsFollow /\ MutexToken /\ StaticsExclusive
    /\ TurnToken /\ OutputInOrder

-----------------------------------------------------------------------------
(* What Go leaves of the program counters; whoever is blocked stays where   *)
(* it is.                                                                   *)
LEMMA GoFacts ==
    ASSUME FishTypes, NEW f \in FishNames, NEW at, NEW to \in Labels, Go(f, at, to)
    PROVE  /\ f \notin blocked /\ pc[f] = at
           /\ pc' \in [FishNames -> Labels] /\ pc'[f] = to
           /\ \A g \in FishNames : g # f => pc'[g] = pc[g]
           /\ blocked \subseteq FishNames
           /\ Follows(WaitKey, WaitKey')
           /\ \A g \in blocked : pc'[g] = pc[g] /\ g # f
<1>1. /\ f \notin blocked /\ pc[f] = at /\ pc' = [pc EXCEPT ![f] = to]
      /\ pc \in [FishNames -> Labels] /\ blocked \subseteq FishNames
  BY DEF Go, FishTypes, QueuesMatch
<1>2. /\ pc' \in [FishNames -> Labels] /\ pc'[f] = to
      /\ \A g \in FishNames : g # f => pc'[g] = pc[g]
  BY <1>1
<1>3. ASSUME NEW g \in blocked
      PROVE  WaitKey'[g] = WaitKey[g] /\ pc'[g] = pc[g] /\ g # f
  BY <1>1, <1>2 DEF WaitKey
<1>4. QED
  BY <1>1, <1>2, <1>3 DEF Follows

(* Position and pattern move on together with the output.                   *)
LEMMA NextPosition ==
    ASSUME NEW n \in Nat
    PROVE  /\ ((n % 4) + 1) % 4 = (n + 1) % 4
           /\ (IF (n % 4) + 1 < 4 THEN (n \div 4) % 2 ELSE (((n \div 4) % 2) + 1) % 2)
                = ((n + 1) \div 4) % 2
           /\ n % 4 \in 0..3 /\ (n \div 4) % 2 \in 0..1
<1>1. PICK q \in Nat, r \in 0..3 : n = 4 * q + r
  <2>1. n \div 4 \in Nat /\ n % 4 \in 0..3 /\ n = 4 * (n \div 4) + (n % 4)
    OBVIOUS
  <2>2. QED
    BY <2>1
<1>2. n % 4 = r /\ n \div 4 = q
  BY <1>1
<1>3. r < 3 => (n + 1) % 4 = r + 1 /\ (n + 1) \div 4 = q
  BY <1>1
<1>4. r = 3 => (n + 1) % 4 = 0 /\ (n + 1) \div 4 = q + 1
  BY <1>1
<1>5. ((q % 2) + 1) % 2 = (q + 1) % 2 /\ q % 2 \in 0..1
  BY <1>1
<1>6. QED
  BY <1>1, <1>2, <1>3, <1>4, <1>5

(* The semaphore the position names is that of the fish whose character is  *)
(* next.                                                                    *)
LEMMA NextSemIsExpected ==
    ASSUME FishTypes, StaticsFollow
    PROVE  NextSem \in FishNames /\ NextSem = Expected(PRINT_COUNT + 1)
<1>1. PRINT_COUNT \in Nat
  BY DEF FishTypes, PRINT_COUNT
<1>2. step \in 0..3 /\ pattern \in 0..1
  BY <1>1, NextPosition DEF StaticsFollow
<1>3. NextSem \in FishNames
  BY <1>2 DEF NextSem, Blocks, FishNames
<1>4. (PRINT_COUNT + 1) - 1 = PRINT_COUNT
  BY <1>1
<1>5. QED
  BY <1>3, <1>4 DEF StaticsFollow, Expected, NextSem

-----------------------------------------------------------------------------
(* The types, and what each call does to tokens and blocked fishes.         *)
InsideLabels == Labels \ {"own", "mutex", "exited"}

(* What Inside means under the type invariant.                              *)
LEMMA InsideFacts ==
    ASSUME pc \in [FishNames -> Labels], NEW f \in FishNames
    PROVE  Inside(f) <=> (pc[f] \in InsideLabels /\ ~(pc[f] = "check" /\ f \in blocked))
BY DEF Inside, InsideLabels, Labels

(* The steps of a fish up to the test of the turn.                          *)
LEMMA WaitOwnInv == ASSUME IInv, NEW f \in FishNames, WaitOwn(f) PROVE IInv'
<1>1. /\ Go(f, "own", "mutex") /\ WaitOn(f, f) /\ UNCHANGED statics
      /\ FishTypes /\ "mutex" \in Labels
  BY DEF WaitOwn, IInv, Labels
<1>2. /\ f \notin blocked /\ pc[f] = "own"
      /\ pc' \in [FishNames -> Labels] /\ pc'[f] = "mutex"
      /\ \A g \in FishNames : g # f => pc'[g] = pc[g]
      /\ blocked \subseteq FishNames
      /\ Follows(WaitKey, WaitKey')
      /\ \A g \in blocked : pc'[g] = pc[g] /\ g # f
  BY <1>1, GoFacts
<1>3. f \in FishKeys /\ "MUTEX" \in FishKeys /\ f # "MUTEX" /\ FishNames \subseteq FishKeys
  BY DEF FishKeys, FishNames
<1>4. /\ f \in FishNames \ blocked /\ WaitKey'[f] = f
      /\ Follows(WaitKey, WaitKey')
  BY <1>2 DEF WaitKey
<1>5. QueuesMatch(FishKeys, FishNames, sems, blocked, WaitKey)
  BY <1>1 DEF FishTypes
<1>6. WaitDone(FishKeys, FishNames, f, f, WaitKey')
  BY <1>1, <1>3, <1>4, <1>5, WaitEffect
<1>7. FishTypes'
  BY <1>1, <1>2, <1>6 DEF FishTypes, statics, WaitDone, Only, Took, GotBlocked
<1>8. StaticsFollow' /\ OutputInOrder'
  <2>1. \A g \in FishNames : pc'[g] = "print" => pc[g] = "print"
    BY <1>2
  <2>2. QED
    BY <2>1, <1>1 DEF IInv, StaticsFollow, OutputInOrder, statics, PRINT_COUNT
<1>9. MutexToken' /\ StaticsExclusive'
  <2>1. \A g \in FishNames : Inside(g)' <=> Inside(g)
    BY <1>2, <1>6 DEF Inside, WaitDone, Only, Took, GotBlocked
  <2>2. sems'["MUTEX"] = sems["MUTEX"]
    BY <1>3, <1>6 DEF WaitDone, Only, Took, GotBlocked
  <2>3. QED
    BY <2>1, <2>2 DEF IInv, MutexToken, StaticsExclusive
<1>10. TurnToken'
  <2> SUFFICES ASSUME PRINT_COUNT' < TOTAL_PRINTS, NEW g \in FishNames
               PROVE  (/\ pc[g] \in {"own", "mutex", "check", "print", "next", "unlock"}
                       /\ sems[g].count <= 1
                       /\ ~(sems[g].count = 1 /\ HasEntered(g))
                       /\ HasTurn(g) <=> (g = NextSem /\ \A h \in FishNames : pc[h] # "next"))'
    BY DEF TurnToken
  <2>1. /\ PRINT_COUNT < TOTAL_PRINTS /\ NextSem' = NextSem
    BY <1>1 DEF statics, PRINT_COUNT, NextSem
  <2>2. (\A h \in FishNames : pc'[h] # "next") <=> (\A h \in FishNames : pc[h] # "next")
    BY <1>2
  <2>3. /\ pc[g] \in {"own", "mutex", "check", "print", "next", "unlock"}
        /\ sems[g].count <= 1
        /\ ~(sems[g].count = 1 /\ HasEntered(g))
        /\ HasTurn(g) <=> (g = NextSem /\ \A h \in FishNames : pc[h] # "next")
    BY <2>1 DEF IInv, TurnToken
  <2>4. CASE g # f
    <3>1. sems'[g] = sems[g] /\ pc'[g] = pc[g] /\ (g \in blocked' <=> g \in blocked)
      BY <2>4, <1>2, <1>3, <1>6 DEF WaitDone, Only, Took, GotBlocked
    <3>2. QED
      BY <3>1, <2>1, <2>2, <2>3 DEF HasEntered, HasTurn
  <2>5. CASE g = f
    BY <2>5, <1>2, <1>6, <2>1, <2>2, <2>3 DEF HasEntered, HasTurn, WaitDone, Only, Took, GotBlocked
  <2>6. QED
    BY <2>4, <2>5
<1>11. QED
  BY <1>7, <1>8, <1>9, <1>10 DEF IInv

LEMMA WaitMutexInv == ASSUME IInv, NEW f \in FishNames, WaitMutex(f) PROVE IInv'
<1>1. /\ Go(f, "mutex", "check") /\ WaitOn(f, "MUTEX") /\ UNCHANGED statics
      /\ FishTypes /\ "check" \in Labels
  BY DEF WaitMutex, IInv, Labels
<1>2. /\ f \notin blocked /\ pc[f] = "mutex"
      /\ pc' \in [FishNames -> Labels] /\ pc'[f] = "check"
      /\ \A g \in FishNames : g # f => pc'[g] = pc[g]
      /\ blocked \subseteq FishNames
      /\ Follows(WaitKey, WaitKey')
      /\ \A g \in blocked : pc'[g] = pc[g] /\ g # f
  BY <1>1, GoFacts
<1>3. "MUTEX" \in FishKeys /\ "MUTEX" \notin FishNames /\ FishNames \subseteq FishKeys
  BY DEF FishKeys, FishNames
<1>4. /\ f \in FishNames \ blocked /\ WaitKey'[f] = "MUTEX"
      /\ Follows(WaitKey, WaitKey')
  BY <1>2 DEF WaitKey
<1>5. QueuesMatch(FishKeys, FishNames, sems, blocked, WaitKey)
  BY <1>1 DEF FishTypes
<1>6. WaitDone(FishKeys, FishNames, f, "MUTEX", WaitKey')
  BY <1>1, <1>3, <1>4, <1>5, WaitEffect
<1>7. FishTypes'
  BY <1>1, <1>2, <1>6 DEF FishTypes, statics, WaitDone, Only, Took, GotBlocked
<1>8. StaticsFollow' /\ OutputInOrder'
  <2>1. \A g \in FishNames : pc'[g] = "print" => pc[g] = "print"
    BY <1>2
  <2>2. QED
    BY <2>1, <1>1 DEF IInv, StaticsFollow, OutputInOrder, statics, PRINT_COUNT
<1>9. MutexToken' /\ StaticsExclusive'
  <2>1. \A g \in FishNames : g # f => (Inside(g)' <=> Inside(g))
    BY <1>2, <1>6 DEF Inside, WaitDone, Only, Took, GotBlocked
  <2>2. ~Inside(f) /\ (Inside(f)' <=> f \notin blocked')
    BY <1>2 DEF Inside
  <2>3. CASE sems["MUTEX"].count > 0
    <3>1. sems["MUTEX"].count = 1 /\ sems'["MUTEX"].count = 0 /\ f \notin blocked'
      BY <2>3, <1>2, <1>6 DEF IInv, MutexToken, WaitDone, Only, Took, GotBlocked
    <3>2. \A g \in FishNames : ~Inside(g)
      BY <3>1 DEF IInv, MutexToken
    <3>3. QED
      BY <2>1, <2>2, <3>1, <3>2 DEF MutexToken, StaticsExclusive
  <2>4. CASE sems["MUTEX"].count = 0
    <3>1. sems'["MUTEX"].count = 0 /\ f \in blocked'
      BY <2>4, <1>6 DEF WaitDone, Only, Took, GotBlocked
    <3>2. \A g \in FishNames : Inside(g)' <=> Inside(g)
      BY <2>1, <2>2, <3>1
    <3>3. QED
      BY <2>4, <3>1, <3>2 DEF IInv, MutexToken, StaticsExclusive
  <2>5. QED
    BY <1>6, <2>3, <2>4 DEF WaitDone, Only, Took, GotBlocked
<1>10. TurnToken'
  <2>1. NextSem' = NextSem /\ PRINT_COUNT' = PRINT_COUNT
    BY <1>1 DEF statics, PRINT_COUNT, NextSem
  <2>2. (\A h \in FishNames : pc'[h] # "next") <=> (\A h \in FishNames : pc[h] # "next")
    BY <1>2
  <2>3. \A g \in FishNames : sems'[g] = sems[g] /\ (HasEntered(g)' <=> HasEntered(g))
    BY <1>2, <1>3, <1>6 DEF HasEntered, WaitDone, Only, Took, GotBlocked
  <2>4. \A g \in FishNames : pc'[g] = pc[g] \/ pc'[g] = "check"
    BY <1>2
  <2>5. QED
    BY <2>1, <2>2, <2>3, <2>4 DEF IInv, TurnToken, HasTurn
<1>11. QED
  BY <1>7, <1>8, <1>9, <1>10 DEF IInv

LEMMA CheckInv == ASSUME IInv, NEW f \in FishNames, Check(f) PROVE IInv'
<1> DEFINE to == IF PRINT_COUNT >= TOTAL_PRINTS THEN "byeGT" ELSE "print"
<1>1. /\ Go(f, "check", to) /\ UNCHANGED <<sems, blocked, statics>>
      /\ FishTypes /\ to \in Labels
  BY DEF Check, IInv, Labels
<1>2. /\ f \notin blocked /\ pc[f] = "check"
      /\ pc' \in [FishNames -> Labels] /\ pc'[f] = to
      /\ \A g \in FishNames : g # f => pc'[g] = pc[g]
      /\ blocked \subseteq FishNames
      /\ Follows(WaitKey, WaitKey')
      /\ \A g \in blocked : pc'[g] = pc[g] /\ g # f
  BY <1>1, GoFacts
<1>3. PRINT_COUNT \in Nat /\ PRINT_COUNT' = PRINT_COUNT /\ NextSem' = NextSem
  BY <1>1 DEF FishTypes, PRINT_COUNT, statics, NextSem
<1>4. \/ to = "byeGT" /\ ~(PRINT_COUNT < TOTAL_PRINTS)
      \/ to = "print" /\ PRINT_COUNT < TOTAL_PRINTS
  BY <1>3, FishAssumption
<1> HIDE DEF to
<1>5. FishTypes'
  <2>1. QueuesMatch(FishKeys, FishNames, sems', blocked', WaitKey')
    BY <1>1, <1>2, QuietEffect DEF FishTypes
  <2>2. QED
    BY <2>1, <1>1, <1>2 DEF FishTypes, statics
<1>6. StaticsFollow' /\ OutputInOrder'
  <2>1. \A g \in FishNames : pc'[g] = "print" => PRINT_COUNT < TOTAL_PRINTS
    BY <1>2, <1>4 DEF IInv, StaticsFollow
  <2>2. QED
    BY <2>1, <1>1 DEF IInv, StaticsFollow, OutputInOrder, statics, PRINT_COUNT
<1>7. MutexToken' /\ StaticsExclusive'
  <2>1. \A g \in FishNames : Inside(g)' <=> Inside(g)
    BY <1>1, <1>2, <1>4 DEF Inside
  <2>2. QED
    BY <2>1, <1>1 DEF IInv, MutexToken, StaticsExclusive
<1>8. TurnToken'
  <2> SUFFICES ASSUME PRINT_COUNT < TOTAL_PRINTS PROVE TurnToken'
    BY <1>3 DEF TurnToken
  <2>1. \A g \in FishNames : HasEntered(g)' <=> HasEntered(g)
    BY <1>1, <1>2, <1>4 DEF HasEntered
  <2>2. (\A h \in FishNames : pc'[h] # "next") <=> (\A h \in FishNames : pc[h] # "next")
    BY <1>2, <1>4
  <2>3. \A g \in FishNames : pc'[g] = pc[g] \/ pc'[g] = "print"
    BY <1>2, <1>4
  <2>4. QED
    BY <2>1, <2>2, <2>3, <1>1, <1>3 DEF IInv, TurnToken, HasTurn
<1>9. QED
  BY <1>5, <1>6, <1>7, <1>8 DEF IInv

(* The fish that prints has the turn, and its character is the next one.    *)
LEMMA PrintCharInv == ASSUME IInv, NEW f \in FishNames, PrintChar(f) PROVE IInv'
<1>1. /\ Go(f, "print", "next") /\ UNCHANGED <<sems, blocked>>
      /\ printed' = Append(printed, f) /\ Turn
      /\ FishTypes /\ "next" \in Labels
  BY DEF PrintChar, IInv, Labels
<1>2. /\ f \notin blocked /\ pc[f] = "print"
      /\ pc' \in [FishNames -> Labels] /\ pc'[f] = "next"
      /\ \A g \in FishNames : g # f => pc'[g] = pc[g]
      /\ blocked \subseteq FishNames
      /\ Follows(WaitKey, WaitKey')
      /\ \A g \in blocked : pc'[g] = pc[g] /\ g # f
  BY <1>1, GoFacts
<1> DEFINE n == PRINT_COUNT
<1>3. /\ n \in Nat /\ printed \in Seq(FishNames) /\ printed' \in Seq(FishNames)
      /\ PRINT_COUNT' = n + 1 /\ n < TOTAL_PRINTS
      /\ DOMAIN printed = 1..n /\ DOMAIN printed' = 1..(n + 1)
      /\ \A i \in 1..n : printed'[i] = printed[i]
      /\ printed'[n + 1] = f
  BY <1>1, <1>2 DEF FishTypes, PRINT_COUNT, IInv, StaticsFollow
<1>4. Inside(f) /\ \A g \in FishNames : g # f => ~Inside(g)
  BY <1>2 DEF IInv, StaticsExclusive, Inside
<1>5. f = NextSem /\ sems[f].count # 1 /\ \A g \in FishNames : pc[g] # "next"
  BY <1>2, <1>3 DEF IInv, TurnToken, HasTurn, HasEntered
<1>6. \A g \in FishNames : pc'[g] # "print"
  BY <1>2, <1>4 DEF Inside
<1>7. FishTypes'
  <2>1. QueuesMatch(FishKeys, FishNames, sems', blocked', WaitKey')
    BY <1>1, <1>2, QuietEffect DEF FishTypes
  <2>2. QED
    BY <2>1, <1>1, <1>2, <1>3 DEF FishTypes
<1>8. StaticsFollow'
  <2>1. step = n % 4 /\ pattern = (n \div 4) % 2
    BY DEF IInv, StaticsFollow
  <2> HIDE DEF n
  <2>2. step' = (n + 1) % 4 /\ pattern' = ((n + 1) \div 4) % 2
    BY <2>1, <1>1, <1>3, NextPosition DEF Turn
  <2>3. QED
    BY <2>2, <1>3, <1>6 DEF StaticsFollow
<1>9. OutputInOrder'
  <2>1. f = Expected(n + 1)
    BY <1>1, <1>5, NextSemIsExpected DEF IInv
  <2> HIDE DEF n
  <2>2. ASSUME NEW i \in 1..(n + 1) PROVE printed'[i] = Expected(i)
    <3>1. CASE i = n + 1
      BY <3>1, <2>1, <1>3
    <3>2. CASE i \in 1..n
      BY <3>2, <1>3 DEF IInv, OutputInOrder
    <3>3. QED
      BY <3>1, <3>2, <1>3
  <2>3. QED
    BY <2>2, <1>3 DEF OutputInOrder, Expected
<1>10. MutexToken' /\ StaticsExclusive'
  <2>1. \A g \in FishNames : Inside(g)' <=> Inside(g)
    BY <1>1, <1>2 DEF Inside
  <2>2. QED
    BY <2>1, <1>1 DEF IInv, MutexToken, StaticsExclusive
<1>11. TurnToken'
  <2>1. \A g \in FishNames :
           /\ pc[g] \in {"own", "mutex", "check", "print", "next", "unlock"}
           /\ sems[g].count <= 1
           /\ ~(sems[g].count = 1 /\ HasEntered(g))
           /\ g # f => ~HasTurn(g)
    BY <1>3, <1>5 DEF IInv, TurnToken
  <2>2. \A g \in FishNames : g # f => (HasEntered(g)' <=> HasEntered(g))
    BY <1>1, <1>2 DEF HasEntered
  <2>3. ~HasEntered(f)'
    BY <1>2 DEF HasEntered
  <2>4. \A g \in FishNames : ~HasTurn(g)' /\ sems'[g] = sems[g]
    BY <2>1, <2>2, <2>3, <1>1, <1>5 DEF HasTurn
  <2>5. \A g \in FishNames : pc'[g] = pc[g] \/ pc'[g] = "next"
    BY <1>2
  <2>6. QED
    BY <2>1, <2>4, <2>5, <1>2 DEF TurnToken, HasTurn
<1>12. QED
  BY <1>7, <1>8, <1>9, <1>10, <1>11 DEF IInv

-----------------------------------------------------------------------------
(* A fish inside signals the semaphore of a fish: whoever is woken has not  *)
(* tried the mutex yet, so nobody else is inside afterwards.                *)
LEMMA SignalInside ==
    ASSUME IInv, NEW f \in FishNames, NEW at \in InsideLabels, NEW to \in InsideLabels,
           to \notin {"check", "print"},
           Go(f, at, to), NEW k \in FishNames, SignalTo(k), UNCHANGED statics
    PROVE  /\ FishTypes' /\ StaticsFollow' /\ MutexToken' /\ StaticsExclusive'
           /\ OutputInOrder'
           /\ SignalDone(FishKeys, FishNames, k, WaitKey, WaitKey')
           /\ pc[f] = at /\ pc'[f] = to
           /\ \A g \in FishNames : g # f => pc'[g] = pc[g] /\ ~Inside(g)
<1>1. FishTypes /\ to \in Labels /\ at \in Labels
  BY DEF IInv, InsideLabels
<1>2. /\ f \notin blocked /\ pc[f] = at
      /\ pc' \in [FishNames -> Labels] /\ pc'[f] = to
      /\ \A g \in FishNames : g # f => pc'[g] = pc[g]
      /\ blocked \subseteq FishNames
      /\ Follows(WaitKey, WaitKey')
      /\ \A g \in blocked : pc'[g] = pc[g] /\ g # f
  BY <1>1, GoFacts
<1>3. k \in FishKeys /\ "MUTEX" \in FishKeys /\ k # "MUTEX" /\ FishNames \subseteq FishKeys
  BY DEF FishKeys, FishNames
<1>4. QueuesMatch(FishKeys, FishNames, sems, blocked, WaitKey)
  BY <1>1 DEF FishTypes
<1>5. SignalDone(FishKeys, FishNames, k, WaitKey, WaitKey')
  BY <1>2, <1>3, <1>4, SignalEffect
<1>6. /\ blocked' \subseteq blocked
      /\ \A g \in blocked : g \notin blocked' => pc[g] = "mutex"
  <2>1. \A g \in FishNames : WaitKey[g] = k => pc[g] = "mutex"
    BY <1>3 DEF WaitKey
  <2>2. QED
    BY <2>1, <1>5 DEF SignalDone, Banked, HandedTo
<1>7. FishTypes'
  <2>1. \A g \in blocked' : pc'[g] \in {"mutex", "check"}
    BY <1>1, <1>2, <1>6 DEF FishTypes
  <2>2. QED
    BY <2>1, <1>1, <1>2, <1>5 DEF FishTypes, SignalDone, statics
<1>8. StaticsFollow' /\ OutputInOrder'
  <2>1. \A g \in FishNames : pc'[g] = "print" => pc[g] = "print"
    BY <1>2
  <2>2. QED
    BY <2>1 DEF IInv, StaticsFollow, OutputInOrder, statics, PRINT_COUNT
<1>9. \A g \in FishNames : Inside(g)' <=> Inside(g)
  <2>1. Inside(f) /\ Inside(f)'
    BY <1>2 DEF Inside, InsideLabels
  <2>2. ASSUME NEW g \in FishNames, g # f PROVE Inside(g)' <=> Inside(g)
    BY <2>2, <1>2, <1>6 DEF Inside
  <2>3. QED
    BY <2>1, <2>2
<1>10. MutexToken' /\ StaticsExclusive'
  <2>1. sems'["MUTEX"] = sems["MUTEX"]
    BY <1>3, <1>5 DEF SignalDone, Only
  <2>2. QED
    BY <2>1, <1>9 DEF IInv, MutexToken, StaticsExclusive
<1>11. \A g \in FishNames : g # f => ~Inside(g)
  BY <1>2 DEF IInv, StaticsExclusive, Inside, InsideLabels
<1>12. QED
  BY <1>2, <1>5, <1>7, <1>8, <1>10, <1>11

(* The turn goes to the fish whose character is next.                       *)
LEMMA SignalNextInv == ASSUME IInv, NEW f \in FishNames, SignalNext(f) PROVE IInv'
<1>1. /\ Go(f, "next", "unlock") /\ SignalTo(NextSem) /\ UNCHANGED statics
      /\ "next" \in InsideLabels /\ "unlock" \in InsideLabels
  BY DEF SignalNext, InsideLabels, Labels
<1>2. NextSem \in FishNames /\ FishTypes
  BY NextSemIsExpected DEF IInv
<1>3. /\ FishTypes' /\ StaticsFollow' /\ MutexToken' /\ StaticsExclusive'
      /\ OutputInOrder'
      /\ SignalDone(FishKeys, FishNames, NextSem, WaitKey, WaitKey')
      /\ pc[f] = "next" /\ pc'[f] = "unlock"
      /\ \A g \in FishNames : g # f => pc'[g] = pc[g] /\ ~Inside(g)
  BY <1>1, <1>2, SignalInside
<1>4. TurnToken'
  <2> SUFFICES ASSUME PRINT_COUNT' < TOTAL_PRINTS PROVE TurnToken'
    BY DEF TurnToken
  <2>1. PRINT_COUNT < TOTAL_PRINTS /\ NextSem' = NextSem
    BY <1>1 DEF statics, PRINT_COUNT, NextSem
  <2>2. \A g \in FishNames :
           /\ pc[g] \in {"own", "mutex", "check", "print", "next", "unlock"}
           /\ sems[g].count <= 1 /\ ~HasTurn(g)
    BY <2>1, <1>3 DEF IInv, TurnToken
  <2>3. \A g \in FishNames : pc'[g] # "next"
    BY <1>3 DEF Inside
  <2>4. FishNames \subseteq FishKeys /\ blocked \subseteq FishNames
    BY <1>2 DEF FishKeys, FishTypes, QueuesMatch
  <2>5. ASSUME NEW g \in FishNames, g # NextSem
        PROVE  /\ sems'[g] = sems[g]
               /\ HasEntered(g)' <=> HasEntered(g)
    <3>1. sems'[g] = sems[g]
      BY <2>4, <2>5, <1>3 DEF SignalDone, Only
    <3>2. pc'[g] = "mutex" => (g \in blocked' <=> g \in blocked)
      <4>1. g # f => WaitKey[g] = (IF pc'[g] = "mutex" THEN g ELSE "MUTEX")
        BY <1>3 DEF WaitKey
      <4>2. QED
        BY <4>1, <2>5, <1>3 DEF SignalDone, Banked, HandedTo
    <3>3. QED
      BY <3>1, <3>2, <1>3 DEF HasEntered
  <2>6. /\ sems'[NextSem].count <= 1 /\ HasTurn(NextSem)'
        /\ ~(sems'[NextSem].count = 1 /\ HasEntered(NextSem)')
    <3>1. sems[NextSem].count \in Nat /\ sems[NextSem].count = 0
      BY <2>2, <1>2, <1>3 DEF SignalDone, Only, HasTurn
    <3>2. ~HasEntered(NextSem)
      BY <2>2, <1>2 DEF HasTurn
    <3>3. CASE Banked(NextSem, WaitKey)
      <4>1. sems'[NextSem].count = 1 /\ blocked' = blocked
        BY <3>1, <3>3 DEF Banked
      <4>2. ~HasEntered(NextSem)'
        BY <3>2, <4>1, <2>1, <1>2, <1>3 DEF HasEntered
      <4>3. QED
        BY <4>1, <4>2, <2>1 DEF HasTurn
    <3>4. ASSUME NEW w \in FishNames, HandedTo(w, NextSem, WaitKey)
          PROVE  /\ sems'[NextSem].count = 0 /\ HasEntered(NextSem)'
      <4>1. w \in blocked /\ WaitKey[w] = NextSem /\ w \notin blocked' /\ sems'[NextSem].count = 0
        BY <3>4 DEF HandedTo
      <4>2. "MUTEX" \notin FishNames
        BY DEF FishNames
      <4>3. pc[w] = "mutex" /\ w = NextSem
        BY <4>1, <4>2, <1>2 DEF WaitKey
      <4>4. w # f /\ pc'[w] = "mutex"
        BY <4>3, <1>3
      <4>5. QED
        BY <4>1, <4>3, <4>4, <2>1 DEF HasEntered
    <3>5. QED
      BY <3>3, <3>4, <1>3, <2>1 DEF SignalDone, HasTurn
  <2>7. \A g \in FishNames : pc'[g] = pc[g] \/ pc'[g] = "unlock"
    BY <1>3
  <2>8. QED
    BY <2>1, <2>2, <2>3, <2>5, <2>6, <2>7, <1>2 DEF TurnToken, HasTurn
<1>5. QED
  BY <1>3, <1>4 DEF IInv

(* broadcast_exit mints turns, but the output is complete.                  *)
LEMMA BroadcastInv == ASSUME IInv, NEW f \in FishNames, Broadcast(f) PROVE IInv'
<1>1. PICK at \in {"byeGT", "byeLT", "byeUS"}, to \in {"byeLT", "byeUS", "leave"},
           k \in FishNames : Go(f, at, to) /\ SignalTo(k) /\ UNCHANGED statics
  BY DEF Broadcast, FishNames
<1>2. at \in InsideLabels /\ to \in InsideLabels /\ to \notin {"check", "print"}
  BY DEF InsideLabels, Labels
<1>3. /\ FishTypes' /\ StaticsFollow' /\ MutexToken' /\ StaticsExclusive'
      /\ OutputInOrder' /\ pc[f] = at
  BY <1>1, <1>2, SignalInside
<1>4. ~(PRINT_COUNT < TOTAL_PRINTS)
  BY <1>3 DEF IInv, TurnToken
<1>5. TurnToken'
  BY <1>1, <1>4 DEF TurnToken, statics, PRINT_COUNT
<1>6. QED
  BY <1>3, <1>5 DEF IInv

(* A fish leaves: the mutex is free, or one waiter is inside.               *)
LEMMA ReleaseMutex ==
    ASSUME IInv, NEW f \in FishNames, NEW at \in InsideLabels, NEW to \in {"own", "exited"},
           Go(f, at, to), SignalTo("MUTEX"), UNCHANGED statics
    PROVE  /\ FishTypes' /\ StaticsFollow' /\ MutexToken' /\ StaticsExclusive'
           /\ OutputInOrder'
           /\ pc[f] = at /\ pc'[f] = to
           /\ \A g \in FishNames : g # f => pc'[g] = pc[g]
           /\ \A g \in FishNames : sems'[g] = sems[g]
           /\ \A g \in FishNames : pc[g] = "mutex" => (g \in blocked' <=> g \in blocked)
<1>1. FishTypes /\ to \in Labels /\ at \in Labels
  BY DEF IInv, InsideLabels, Labels
<1>2. /\ f \notin blocked /\ pc[f] = at
      /\ pc' \in [FishNames -> Labels] /\ pc'[f] = to
      /\ \A g \in FishNames : g # f => pc'[g] = pc[g]
      /\ blocked \subseteq FishNames
      /\ Follows(WaitKey, WaitKey')
      /\ \A g \in blocked : pc'[g] = pc[g] /\ g # f
  BY <1>1, GoFacts
<1>3. "MUTEX" \in FishKeys /\ "MUTEX" \notin FishNames /\ FishNames \subseteq FishKeys
  BY DEF FishKeys, FishNames
<1>4. QueuesMatch(FishKeys, FishNames, sems, blocked, WaitKey)
  BY <1>1 DEF FishTypes
<1>5. SignalDone(FishKeys, FishNames, "MUTEX", WaitKey, WaitKey')
  BY <1>2, <1>3, <1>4, SignalEffect
<1>6. \A g \in FishNames : WaitKey[g] = "MUTEX" => pc[g] # "mutex"
  BY <1>3 DEF WaitKey
<1>7. /\ \A g \in FishNames : sems'[g] = sems[g]
      /\ \A g \in FishNames : pc[g] = "mutex" => (g \in blocked' <=> g \in blocked)
      /\ blocked' \subseteq blocked
  BY <1>3, <1>5, <1>6 DEF SignalDone, Only, Banked, HandedTo
<1>8. FishTypes'
  <2>1. \A g \in blocked' : pc'[g] \in {"mutex", "check"}
    BY <1>1, <1>2, <1>7 DEF FishTypes
  <2>2. QED
    BY <2>1, <1>1, <1>2, <1>5 DEF FishTypes, SignalDone, statics
<1>9. StaticsFollow' /\ OutputInOrder'
  <2>1. \A g \in FishNames : pc'[g] = "print" => pc[g] = "print"
    BY <1>2
  <2>2. QED
    BY <2>1 DEF IInv, StaticsFollow, OutputInOrder, statics, PRINT_COUNT
<1>10. MutexToken' /\ StaticsExclusive'
  <2>1. ~Inside(f)' /\ \A g \in FishNames : ~Inside(g) \/ g = f
    BY <1>2 DEF IInv, StaticsExclusive, Inside, InsideLabels
  <2>2. Inside(f) /\ sems["MUTEX"].count = 0
    BY <1>2 DEF IInv, MutexToken, Inside, InsideLabels
  <2>3. CASE Banked("MUTEX", WaitKey)
    <3>1. sems'["MUTEX"].count = 1 /\ blocked' = blocked
      BY <2>2, <2>3 DEF Banked
    <3>2. \A g \in FishNames : ~Inside(g)'
      BY <2>1, <3>1, <1>2 DEF Inside
    <3>3. QED
      BY <3>1, <3>2 DEF MutexToken, StaticsExclusive
  <2>4. ASSUME NEW w \in FishNames, HandedTo(w, "MUTEX", WaitKey)
        PROVE  MutexToken' /\ StaticsExclusive'
    <3>1. /\ w \in blocked /\ WaitKey[w] = "MUTEX" /\ blocked' = blocked \ {w}
          /\ sems'["MUTEX"].count = 0
      BY <2>4 DEF HandedTo
    <3>2. pc[w] = "check" /\ pc'[w] = "check" /\ w # f
      BY <3>1, <1>1, <1>2, <1>6 DEF FishTypes
    <3>3. Inside(w)'
      BY <3>1, <3>2 DEF Inside
    <3>4. \A g \in FishNames : g # w => ~Inside(g)'
      BY <2>1, <3>1, <1>2 DEF Inside
    <3>5. QED
      BY <3>1, <3>3, <3>4 DEF MutexToken, StaticsExclusive
  <2>5. QED
    BY <2>3, <2>4, <1>5 DEF SignalDone
<1>11. QED
  BY <1>2, <1>7, <1>8, <1>9, <1>10

(* The steps of a fish after its print.                                     *)
LEMMA UnlockInv == ASSUME IInv, NEW f \in FishNames, Unlock(f) PROVE IInv'
<1>1. /\ Go(f, "unlock", "own") /\ SignalTo("MUTEX") /\ UNCHANGED statics
      /\ "unlock" \in InsideLabels
  BY DEF Unlock, InsideLabels, Labels
<1>2. /\ FishTypes' /\ StaticsFollow' /\ MutexToken' /\ StaticsExclusive'
      /\ OutputInOrder'
      /\ pc[f] = "unlock" /\ pc'[f] = "own"
      /\ \A g \in FishNames : g # f => pc'[g] = pc[g]
      /\ \A g \in FishNames : sems'[g] = sems[g]
      /\ \A g \in FishNames : pc[g] = "mutex" => (g \in blocked' <=> g \in blocked)
  BY <1>1, ReleaseMutex
<1>3. TurnToken'
  <2>1. NextSem' = NextSem /\ PRINT_COUNT' = PRINT_COUNT
    BY <1>1 DEF statics, PRINT_COUNT, NextSem
  <2>2. \A g \in FishNames : HasEntered(g)' <=> HasEntered(g)
    BY <1>2 DEF HasEntered
  <2>3. (\A h \in FishNames : pc'[h] # "next") <=> (\A h \in FishNames : pc[h] # "next")
    BY <1>2
  <2>4. \A g \in FishNames : pc'[g] = pc[g] \/ pc'[g] = "own"
    BY <1>2
  <2>5. QED
    BY <2>1, <2>2, <2>3, <2>4, <1>2 DEF IInv, TurnToken, HasTurn
<1>4. QED
  BY <1>2, <1>3 DEF IInv

LEMMA LeaveInv == ASSUME IInv, NEW f \in FishNames, Leave(f) PROVE IInv'
<1>1. /\ Go(f, "leave", "exited") /\ SignalTo("MUTEX") /\ UNCHANGED statics
      /\ "leave" \in InsideLabels
  BY DEF Leave, InsideLabels, Labels
<1>2. /\ FishTypes' /\ StaticsFollow' /\ MutexToken' /\ StaticsExclusive'
      /\ OutputInOrder' /\ pc[f] = "leave"
  BY <1>1, ReleaseMutex
<1>3. ~(PRINT_COUNT < TOTAL_PRINTS)
  BY <1>2 DEF IInv, TurnToken
<1>4. TurnToken'
  BY <1>1, <1>3 DEF TurnToken, statics, PRINT_COUNT
<1>5. QED
  BY <1>2, <1>4 DEF IInv

(* main forks and reaps: nothing the invariant looks at, nor does a         *)
(* stuttering step.                                                         *)
LEMMA MainInv ==
    ASSUME IInv, UNCHANGED <<sems, blocked, pc, statics>> PROVE IInv'
<1>1. WaitKey' = WaitKey
  BY DEF WaitKey
<1>2. FishTypes'
  BY <1>1 DEF IInv, FishTypes, statics
<1>3. StaticsFollow' /\ OutputInOrder' /\ PRINT_COUNT' = PRINT_COUNT /\ NextSem' = NextSem
  BY DEF IInv, StaticsFollow, OutputInOrder, statics, PRINT_COUNT, NextSem
<1>4. \A f \in FishNames : /\ Inside(f)' <=> Inside(f)
                           /\ HasEntered(f)' <=> HasEntered(f)
                           /\ HasTurn(f)' <=> HasTurn(f)
  BY DEF Inside, HasEntered, HasTurn
<1>5. MutexToken' /\ StaticsExclusive'
  BY <1>4 DEF IInv, MutexToken, StaticsExclusive
<1>6. TurnToken'
  BY <1>3, <1>4 DEF IInv, TurnToken
<1>7. QED
  BY <1>2, <1>3, <1>5, <1>6 DEF IInv

LEMMA NextInv == ASSUME IInv, [Next]_vars PROVE IInv'
<1>1. CASE Fork \/ Reap \/ UNCHANGED vars
  <2>1. UNCHANGED <<sems, blocked, pc, statics>>
    BY <1>1 DEF Fork, Reap, vars
  <2>2. QED
    BY <2>1, MainInv
<1>2. ASSUME NEW f \in FishNames, FishStep(f) PROVE IInv'
  BY <1>2, WaitOwnInv, WaitMutexInv, CheckInv, PrintCharInv, SignalNextInv, UnlockInv,
     BroadcastInv, LeaveInv DEF FishStep
<1>3. QED
  BY <1>1, <1>2 DEF Next

LEMMA InitInv == ASSUME Init PROVE IInv
<1>1. /\ sems = [k \in FishKeys |-> NewSemaphore(IF k \in {"MUTEX", "LT"} THEN 1 ELSE 0)]
      /\ blocked = {} /\ pc = [f \in FishNames |-> "own"]
      /\ step = 0 /\ pattern = 0 /\ printed = <<>>
  BY DEF Init
<1>2. "MUTEX" \in FishKeys /\ FishNames \subseteq FishKeys /\ "MUTEX" \notin FishNames
  BY DEF FishKeys, FishNames
<1>3. \A k \in FishKeys : sems[k] \in Semaphores(FishNames) /\ sems[k].queue = <<>>
                          /\ sems[k].count = (IF k \in {"MUTEX", "LT"} THEN 1 ELSE 0)
  <2>1. \A n \in {0, 1} : [count |-> n, queue |-> <<>>] \in Semaphores(FishNames)
    BY DEF Semaphores
  <2>2. QED
    BY <2>1, <1>1 DEF NewSemaphore
<1>4. FishTypes
  <2>1. sems \in [FishKeys -> Semaphores(FishNames)]
    BY <1>1, <1>3
  <2>2. QueuesMatch(FishKeys, FishNames, sems, blocked, WaitKey)
    BY <2>1, <1>1, <1>3 DEF QueuesMatch, InQueue, NoDuplicates
  <2>3. QED
    BY <2>2, <1>1 DEF FishTypes, Labels
<1>5. PRINT_COUNT = 0 /\ NextSem = "LT"
  BY <1>1 DEF PRINT_COUNT, NextSem, Blocks
<1>6. StaticsFollow
  BY <1>1, <1>5 DEF StaticsFollow
<1>7. MutexToken /\ StaticsExclusive
  BY <1>1, <1>2, <1>3 DEF MutexToken, StaticsExclusive, Inside
<1>8. TurnToken
  BY <1>1, <1>2, <1>3, <1>5 DEF TurnToken, HasTurn, HasEntered
<1>9. OutputInOrder
  BY <1>1 DEF OutputInOrder
<1>10. QED
  BY <1>4, <1>6, <1>7, <1>8, <1>9 DEF IInv

-----------------------------------------------------------------------------
(* The inductive invariant in every reachable state.                        *)
LEMMA Invariant == Spec => []IInv
<1>1. Init => IInv
  BY InitInv
<1>2. IInv /\ [Next]_vars => IInv'
  BY NextInv
<1>3. QED
  BY <1>1, <1>2, PTL DEF Spec

(* For every number of prints and every interleaving of the three fishes    *)
(* and main, what is printed is a prefix of the endless "<><_><>_": a fish  *)
(* prints only with the one turn there is (main.rs of fish).                *)
THEOREM FishOutputInOrder == Spec => []OutputInOrder
<1>1. IInv => OutputInOrder
  BY DEF IInv
<1>2. QED
  BY <1>1, Invariant, PTL

(* Also while everybody leaves, and the broadcast mints tokens, at most one *)
(* fish is between its MUTEX.wait and its MUTEX.signal (main.rs of fish).   *)
THEOREM FishStaticsExclusive == Spec => []StaticsExclusive
<1>1. IInv => StaticsExclusive
  BY DEF IInv
<1>2. QED
  BY <1>1, Invariant, PTL
=============================================================================
