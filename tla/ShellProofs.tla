----------------------------- MODULE ShellProofs -----------------------------
(***************************************************************************)
(* Theorems about Shell, for every value of its constants.                 *)
(***************************************************************************)
EXTENDS Shell, FiniteSetTheorems, FunctionTheorems, SequenceTheorems, TLAPS

-----------------------------------------------------------------------------
(* The bytes that may arrive and the characters they are decoded to, a byte *)
(* lost or not.                                                             *)
Plain == {"a", "blank", "CR", "BS", "SOH", "ESC", "bracket", "A", "B", "C", "D"}
Bytes == Plain \cup {"lead", "trail"}
Chars == Plain \cup {"w"}

LEMMA KeysAre ==
    /\ \A key \in {"a", "blank"} : BytesOf(key) = <<key>>
    /\ BytesOf("w") = <<"lead", "trail">>
    /\ BytesOf("Enter") = <<"CR">> /\ BytesOf("Backspace") = <<"BS">>
    /\ BytesOf("CtrlA") = <<"SOH">>
    /\ BytesOf("Up") = <<"ESC", "bracket", "A">> /\ BytesOf("Down") = <<"ESC", "bracket", "B">>
    /\ BytesOf("Right") = <<"ESC", "bracket", "C">> /\ BytesOf("Left") = <<"ESC", "bracket", "D">>
<1>1. \A key \in {"a", "blank"} : BytesOf(key) = <<key>>
  BY DEF BytesOf
<1>2. BytesOf("w") = <<"lead", "trail">>
  BY DEF BytesOf
<1>3. BytesOf("Enter") = <<"CR">> /\ BytesOf("Backspace") = <<"BS">> /\ BytesOf("CtrlA") = <<"SOH">>
  BY DEF BytesOf
<1>4. BytesOf("Up") = <<"ESC", "bracket", "A">> /\ BytesOf("Down") = <<"ESC", "bracket", "B">>
  BY DEF BytesOf
<1>5. BytesOf("Right") = <<"ESC", "bracket", "C">> /\ BytesOf("Left") = <<"ESC", "bracket", "D">>
  BY DEF BytesOf
<1>6. QED
  BY <1>1, <1>2, <1>3, <1>4, <1>5

LEMMA ShortSeqs ==
    ASSUME NEW S
    PROVE  /\ \A x \in S : <<x>> \in Seq(S) /\ Len(<<x>>) \in Nat \ {0}
           /\ \A x, y \in S : <<x, y>> \in Seq(S) /\ Len(<<x, y>>) \in Nat \ {0}
           /\ \A x, y, z \in S : <<x, y, z>> \in Seq(S) /\ Len(<<x, y, z>>) \in Nat \ {0}
  OBVIOUS

LEMMA KeyBytesType ==
    ASSUME NEW key \in AllKeys
    PROVE  BytesOf(key) \in Seq(Bytes) /\ Len(BytesOf(key)) \in Nat \ {0}
<1> DEFINE Fine(k) == BytesOf(k) \in Seq(Bytes) /\ Len(BytesOf(k)) \in Nat \ {0}
<1>1. /\ "a" \in Bytes /\ "blank" \in Bytes /\ "lead" \in Bytes /\ "trail" \in Bytes /\ "CR" \in Bytes
      /\ "BS" \in Bytes /\ "SOH" \in Bytes /\ "ESC" \in Bytes /\ "bracket" \in Bytes
      /\ "A" \in Bytes /\ "B" \in Bytes /\ "C" \in Bytes /\ "D" \in Bytes
  BY DEF Bytes, Plain
<1>2. Fine("a") /\ Fine("blank")
  <2>1. BytesOf("a") = <<"a">> /\ BytesOf("blank") = <<"blank">>
    BY KeysAre
  <2>2. QED
    BY <1>1, <2>1, ShortSeqs, ZenonT(60)
<1>3. Fine("w")
  <2>1. BytesOf("w") = <<"lead", "trail">>
    BY KeysAre
  <2>2. <<"lead", "trail">> \in Seq(Bytes) /\ Len(<<"lead", "trail">>) \in Nat \ {0}
    BY <1>1
  <2>3. QED
    BY <2>1, <2>2, Zenon
<1>4. Fine("Enter") /\ Fine("Backspace") /\ Fine("CtrlA")
  <2>1. BytesOf("Enter") = <<"CR">>
    BY KeysAre
  <2>2. <<"CR">> \in Seq(Bytes) /\ Len(<<"CR">>) \in Nat \ {0}
    BY <1>1
  <2>3. BytesOf("Backspace") = <<"BS">>
    BY KeysAre
  <2>4. <<"BS">> \in Seq(Bytes) /\ Len(<<"BS">>) \in Nat \ {0}
    BY <1>1
  <2>5. BytesOf("CtrlA") = <<"SOH">>
    BY KeysAre
  <2>6. <<"SOH">> \in Seq(Bytes) /\ Len(<<"SOH">>) \in Nat \ {0}
    BY <1>1
  <2>7. QED
    BY <2>1, <2>2, <2>3, <2>4, <2>5, <2>6, Zenon
<1>5. Fine("Up") /\ Fine("Down")
  <2>1. BytesOf("Up") = <<"ESC", "bracket", "A">>
    BY KeysAre
  <2>2. <<"ESC", "bracket", "A">> \in Seq(Bytes) /\ Len(<<"ESC", "bracket", "A">>) \in Nat \ {0}
    BY <1>1
  <2>3. BytesOf("Down") = <<"ESC", "bracket", "B">>
    BY KeysAre
  <2>4. <<"ESC", "bracket", "B">> \in Seq(Bytes) /\ Len(<<"ESC", "bracket", "B">>) \in Nat \ {0}
    BY <1>1
  <2>5. QED
    BY <2>1, <2>2, <2>3, <2>4, Zenon
<1>6. Fine("Left") /\ Fine("Right")
  <2>1. BytesOf("Left") = <<"ESC", "bracket", "D">>
    BY KeysAre
  <2>2. <<"ESC", "bracket", "D">> \in Seq(Bytes) /\ Len(<<"ESC", "bracket", "D">>) \in Nat \ {0}
    BY <1>1
  <2>3. BytesOf("Right") = <<"ESC", "bracket", "C">>
    BY KeysAre
  <2>4. <<"ESC", "bracket", "C">> \in Seq(Bytes) /\ Len(<<"ESC", "bracket", "C">>) \in Nat \ {0}
    BY <1>1
  <2>5. QED
    BY <2>1, <2>2, <2>3, <2>4, Zenon
<1>7. key \in {"a", "blank", "w", "Enter", "Backspace", "CtrlA", "Up", "Down", "Right", "Left"}
  BY DEF AllKeys, Letters
<1>8. QED
  BY <1>2, <1>3, <1>4, <1>5, <1>6, <1>7, Zenon

-----------------------------------------------------------------------------
(* Sequences, cut and joined.                                               *)
LEMMA Cut ==
    ASSUME NEW S, NEW s \in Seq(S), NEW i \in 0..Len(s)
    PROVE  /\ SubSeq(s, 1, i) \in Seq(S) /\ SubSeq(s, i + 1, Len(s)) \in Seq(S)
           /\ Len(SubSeq(s, 1, i)) = i /\ Len(SubSeq(s, i + 1, Len(s))) = Len(s) - i
           /\ \A k \in 1..i : SubSeq(s, 1, i)[k] = s[k]
           /\ \A k \in 1..(Len(s) - i) : SubSeq(s, i + 1, Len(s))[k] = s[k + i]
           /\ s = SubSeq(s, 1, i) \o SubSeq(s, i + 1, Len(s))
<1> DEFINE a == SubSeq(s, 1, i)
           b == SubSeq(s, i + 1, Len(s))
<1>1. Len(s) \in Nat /\ i \in Nat
  OBVIOUS
<1>2. Len(a) = i /\ Len(b) = Len(s) - i
  BY <1>1
<1>3. \A k \in 1..i : a[k] = s[k]
  BY <1>1
<1>4. \A k \in 1..(Len(s) - i) : b[k] = s[k + i]
  BY <1>1
<1>5. a \in Seq(S) /\ b \in Seq(S)
  BY <1>1
<1>6. s = a \o b
  <2> HIDE DEF a, b
  <2>1. /\ a \o b \in Seq(S) /\ Len(a \o b) = Len(s)
        /\ \A k \in 1..Len(s) : (a \o b)[k] = IF k <= i THEN a[k] ELSE b[k - i]
    BY <1>1, <1>2, <1>5, ConcatProperties
  <2>2. \A k \in 1..Len(s) : (a \o b)[k] = s[k]
    <3> TAKE k \in 1..Len(s)
    <3>1. CASE k <= i
      BY <1>3, <2>1, <3>1
    <3>2. CASE k > i
      <4>1. PICK n \in 1..(Len(s) - i) : n = k - i
        BY <1>1, <3>2
      <4>2. k = n + i
        BY <1>1, <4>1
      <4>3. b[n] = s[k]
        BY <1>4, <4>2
      <4>4. (a \o b)[k] = b[n]
        BY <1>1, <2>1, <3>2, <4>1
      <4>5. QED
        BY <4>3, <4>4
    <3>3. k <= i \/ k > i
      BY <1>1
    <3>4. QED
      BY <3>1, <3>2, <3>3, Zenon
  <2>3. QED
    BY <2>1, <2>2, SeqEqual
<1>7. QED
  BY <1>2, <1>3, <1>4, <1>5, <1>6

(* How many bytes a line takes.                                             *)
Wide(s) == {i \in DOMAIN s : s[i] = "w"}

LEMMA WideFinite ==
    ASSUME NEW S, NEW s \in Seq(S)
    PROVE  /\ IsFiniteSet(Wide(s)) /\ Cardinality(Wide(s)) \in Nat
           /\ ByteLen(s) = Len(s) + Cardinality(Wide(s))
<1>1. Len(s) \in Nat /\ DOMAIN s = 1..Len(s)
  OBVIOUS
<1>2. IsFiniteSet(1..Len(s))
  BY <1>1, FS_Interval
<1>3. IsFiniteSet(Wide(s))
  BY <1>1, <1>2, FS_Subset DEF Wide
<1>4. QED
  BY <1>3, FS_CardinalityType DEF ByteLen, Wide

LEMMA ByteLenJoin ==
    ASSUME NEW S, NEW s \in Seq(S), NEW t \in Seq(S)
    PROVE  ByteLen(s \o t) = ByteLen(s) + ByteLen(t)
<1> DEFINE W == Wide(s)
           V == Wide(t)
           U == {i + Len(s) : i \in V}
           f == [i \in V |-> i + Len(s)]
<1>1. Len(s) \in Nat /\ Len(t) \in Nat /\ s \o t \in Seq(S) /\ Len(s \o t) = Len(s) + Len(t)
  OBVIOUS
<1>2. /\ IsFiniteSet(W) /\ Cardinality(W) \in Nat /\ ByteLen(s) = Len(s) + Cardinality(W)
      /\ IsFiniteSet(V) /\ Cardinality(V) \in Nat /\ ByteLen(t) = Len(t) + Cardinality(V)
      /\ ByteLen(s \o t) = Len(s \o t) + Cardinality(Wide(s \o t))
  BY <1>1, WideFinite
<1>3. W \subseteq 1..Len(s) /\ V \subseteq 1..Len(t)
  BY DEF Wide
<1>4. f \in Bijection(V, U)
  <2>1. f \in [V -> U]
    OBVIOUS
  <2>2. \A x, y \in V : f[x] = f[y] => x = y
    BY <1>1, <1>3
  <2>3. \A u \in U : \E x \in V : f[x] = u
    OBVIOUS
  <2>4. QED
    BY <2>1, <2>2, <2>3, Fun_IsBij
<1>5. IsFiniteSet(U) /\ Cardinality(U) = Cardinality(V)
  BY <1>2, <1>4, FS_Bijection DEF ExistsBijection
<1>6. W \cap U = {}
  BY <1>1, <1>3
<1>7. Cardinality(W \cup U) = Cardinality(W) + Cardinality(U)
  <2>1. Cardinality(W \cap U) = 0
    BY <1>6, FS_EmptySet
  <2>2. Cardinality(W \cup U) = Cardinality(W) + Cardinality(U) - Cardinality(W \cap U)
    BY <1>2, <1>5, FS_Union
  <2>3. QED
    BY <1>2, <1>5, <2>1, <2>2
<1>8. Wide(s \o t) = W \cup U
  <2>1. ASSUME NEW i \in Wide(s \o t) PROVE i \in W \cup U
    <3>1. i \in 1..(Len(s) + Len(t)) /\ (s \o t)[i] = "w"
      BY <1>1 DEF Wide
    <3>2. CASE i <= Len(s)
      BY <1>1, <3>1, <3>2 DEF Wide
    <3>3. CASE i > Len(s)
      <4>1. i - Len(s) \in 1..Len(t) /\ t[i - Len(s)] = "w" /\ i = (i - Len(s)) + Len(s)
        BY <1>1, <3>1, <3>3
      <4>2. QED
        BY <4>1 DEF Wide
    <3>4. QED
      BY <1>1, <3>1, <3>2, <3>3
  <2>2. ASSUME NEW i \in W PROVE i \in Wide(s \o t)
    BY <1>1, <1>3 DEF Wide
  <2>3. ASSUME NEW j \in V PROVE j + Len(s) \in Wide(s \o t)
    <3>1. j \in 1..Len(t) /\ t[j] = "w"
      BY DEF Wide
    <3>2. (s \o t)[j + Len(s)] = t[j] /\ j + Len(s) \in 1..(Len(s) + Len(t))
      BY <1>1, <3>1
    <3>3. QED
      BY <1>1, <3>1, <3>2 DEF Wide
  <2>4. QED
    BY <2>1, <2>2, <2>3
<1>9. QED
  <2> HIDE DEF W, V, U
  <2>1. QED
    BY <1>1, <1>2, <1>5, <1>7, <1>8

LEMMA ByteLenOne ==
    ASSUME NEW S, NEW c \in S
    PROVE  <<c>> \in Seq(S) /\ ByteLen(<<c>>) \in Nat /\ ByteLen(<<c>>) >= 1
<1>1. PICK s \in Seq(S) : s = <<c>> /\ Len(s) = 1
  <2>1. <<c>> \in Seq(S) /\ Len(<<c>>) = 1
    OBVIOUS
  <2>2. QED
    BY <2>1, Zenon
<1>2. ByteLen(s) \in Nat /\ ByteLen(s) >= 1
  <2>1. Cardinality(Wide(s)) \in Nat /\ ByteLen(s) = Len(s) + Cardinality(Wide(s))
    BY WideFinite
  <2>2. QED
    BY <1>1, <2>1
<1>3. QED
  BY <1>1, <1>2, Zenon

LEMMA ByteLenNarrow ==
    ASSUME NEW S, NEW s \in Seq(S), \A i \in DOMAIN s : s[i] # "w"
    PROVE  ByteLen(s) = Len(s)
<1>1. Wide(s) = {}
  BY DEF Wide
<1>2. QED
  BY <1>1, WideFinite, FS_EmptySet

LEMMA NarrowBoundary ==
    ASSUME NEW S, NEW s \in Seq(S), \A i \in DOMAIN s : s[i] # "w", NEW k \in 0..Len(s)
    PROVE  IsBoundary(s, k) /\ Before(s, k) = k
<1>1. \A i \in 0..Len(s) : ByteLen(SubSeq(s, 1, i)) = i
  <2> TAKE i \in 0..Len(s)
  <2>1. /\ SubSeq(s, 1, i) \in Seq(S) /\ Len(SubSeq(s, 1, i)) = i
        /\ \A n \in 1..i : SubSeq(s, 1, i)[n] = s[n]
    BY Cut
  <2>2. \A n \in DOMAIN SubSeq(s, 1, i) : SubSeq(s, 1, i)[n] # "w"
    BY <2>1
  <2>3. QED
    BY <2>1, <2>2, ByteLenNarrow
<1>2. IsBoundary(s, k)
  BY <1>1 DEF IsBoundary
<1>3. Before(s, k) = k
  BY <1>1 DEF Before
<1>4. QED
  BY <1>2, <1>3

-----------------------------------------------------------------------------
(* Trim keeps a part of the line.                                           *)

(* The principle of induction, in a form that needs no predicate.           *)
LEMMA LeastNumber ==
    ASSUME NEW T \in SUBSET Nat, T # {}
    PROVE  \E m \in T : \A k \in T : m <= k
<1> DEFINE R == OpToRel(<, Nat)
<1>1. IsWellFoundedOn(R, Nat)
  BY NatLessThanWellFounded
<1>2. PICK m \in T : \A k \in T : <<k, m>> \notin R
  BY <1>1, WFMin
<1>3. \A k \in T : ~(k < m)
  BY <1>2 DEF OpToRel
<1>4. QED
  BY <1>3

LEMMA Extremes ==
    ASSUME NEW n \in Nat, NEW T \in SUBSET (1..n), T # {}
    PROVE  Min(T) \in T /\ Max(T) \in T
<1>1. T \in SUBSET Nat
  OBVIOUS
<1>2. \E m \in T : \A k \in T : m <= k
  BY <1>1, LeastNumber
<1>3. \E m \in T : \A k \in T : m >= k
  <2> PICK t \in T : TRUE
    OBVIOUS
  <2> DEFINE U == {m \in 1..n : \A k \in T : k <= m}
  <2>1. n \in U
    <3>1. n \in 1..n
      OBVIOUS
    <3>2. QED
      BY <3>1
  <2>2. U \in SUBSET Nat
    OBVIOUS
  <2>3. PICK m \in U : \A k \in U : m <= k
    <3> HIDE DEF U
    <3>1. QED
      BY <2>1, <2>2, LeastNumber
  <2>4. m \in T
    <3>1. SUFFICES ASSUME m \notin T PROVE FALSE
      OBVIOUS
    <3>2. m \in 1..n /\ \A k \in T : k <= m /\ k # m
      BY <3>1
    <3>3. \A k \in T : k \in 1..n /\ k <= m - 1
      BY <3>2
    <3>4. m - 1 \in U
      <4>1. t \in 1..n /\ t <= m - 1
        BY <3>3
      <4>2. m - 1 \in 1..n
        BY <3>2, <4>1
      <4>3. QED
        BY <3>3, <4>2
    <3>5. QED
      BY <2>3, <3>2, <3>4
  <2>5. QED
    BY <2>4
<1>4. QED
  BY <1>2, <1>3 DEF Min, Max

LEMMA TrimType ==
    ASSUME NEW S, NEW s \in Seq(S)
    PROVE  Trim(s) \in Seq(S)
<1> DEFINE Ink == {i \in DOMAIN s : s[i] # "blank"}
<1>1. CASE Ink = {}
  <2>1. Trim(s) = <<>>
    BY <1>1 DEF Trim
  <2>2. QED
    BY <2>1
<1>2. CASE Ink # {}
  <2>1. Len(s) \in Nat /\ Ink \in SUBSET (1..Len(s))
    OBVIOUS
  <2>2. Min(Ink) \in Ink /\ Max(Ink) \in Ink
    <3> HIDE DEF Ink
    <3>1. QED
      BY <1>2, <2>1, Extremes
  <2>3. Trim(s) = SubSeq(s, Min(Ink), Max(Ink))
    BY <1>2 DEF Trim
  <2>4. PICK m \in 1..Len(s), n \in 1..Len(s) : m = Min(Ink) /\ n = Max(Ink)
    BY <2>1, <2>2
  <2>5. SubSeq(s, m, n) \in Seq(S)
    BY <2>1
  <2>6. QED
    BY <2>3, <2>4, <2>5
<1>3. QED
  BY <1>1, <1>2

-----------------------------------------------------------------------------
(* What the line becomes when a character is typed or taken away, at any    *)
(* place String accepts.                                                    *)
LEMMA BeforeFacts ==
    ASSUME NEW s, NEW k, IsBoundary(s, k)
    PROVE  Before(s, k) \in 0..Len(s) /\ ByteLen(SubSeq(s, 1, Before(s, k))) = k
  BY DEF IsBoundary, Before

LEMMA InsertedFacts ==
    ASSUME NEW S, NEW s \in Seq(S), NEW k \in Nat, NEW c \in S, IsBoundary(s, k), k <= ByteLen(s)
    PROVE  Inserted(s, k, c) \in Seq(S) /\ k + 1 <= ByteLen(Inserted(s, k, c))
<1>1. PICK i \in 0..Len(s) : i = Before(s, k)
  BY BeforeFacts
<1>2. PICK a \in Seq(S), b \in Seq(S) :
          a = SubSeq(s, 1, i) /\ b = SubSeq(s, i + 1, Len(s)) /\ s = a \o b
  <2>1. /\ SubSeq(s, 1, i) \in Seq(S) /\ SubSeq(s, i + 1, Len(s)) \in Seq(S)
        /\ s = SubSeq(s, 1, i) \o SubSeq(s, i + 1, Len(s))
    BY Cut
  <2>2. QED
    BY <2>1, Zenon
<1>3. PICK d \in Seq(S) : d = <<c>> /\ ByteLen(d) \in Nat /\ ByteLen(d) >= 1
  BY ByteLenOne, Zenon
<1>4. Inserted(s, k, c) = (a \o d) \o b
  BY <1>1, <1>2, <1>3 DEF Inserted
<1>5. ByteLen(s) = ByteLen(a) + ByteLen(b)
  BY <1>2, ByteLenJoin
<1>6. a \o d \in Seq(S) /\ (a \o d) \o b \in Seq(S)
  BY ConcatProperties
<1>7. ByteLen((a \o d) \o b) = (ByteLen(a) + ByteLen(d)) + ByteLen(b)
  <2>1. ByteLen((a \o d) \o b) = ByteLen(a \o d) + ByteLen(b)
    BY <1>6, ByteLenJoin
  <2>2. ByteLen(a \o d) = ByteLen(a) + ByteLen(d)
    BY ByteLenJoin
  <2>3. QED
    BY <2>1, <2>2
<1>8. ByteLen(a) \in Nat /\ ByteLen(b) \in Nat
  <2>1. \A t \in Seq(S) : Len(t) \in Nat /\ ByteLen(t) = Len(t) + Cardinality(Wide(t)) /\ Cardinality(Wide(t)) \in Nat
    BY WideFinite
  <2>2. QED
    BY <2>1
<1>9. QED
  BY <1>3, <1>4, <1>5, <1>6, <1>7, <1>8

LEMMA RemovedFacts ==
    ASSUME NEW S, NEW s \in Seq(S), NEW k \in Nat, IsBoundary(s, k), k < ByteLen(s)
    PROVE  /\ Removed(s, k) \in Seq(S) /\ k <= ByteLen(Removed(s, k))
           /\ Before(s, k) < Len(s)
<1>1. PICK i \in 0..Len(s) : i = Before(s, k) /\ ByteLen(SubSeq(s, 1, i)) = k
  BY BeforeFacts
<1>2. i # Len(s)
  <2>1. SubSeq(s, 1, Len(s)) = s
    BY SubSeqFull
  <2>2. ByteLen(s) \in Int
    <3>1. Cardinality(Wide(s)) \in Nat /\ ByteLen(s) = Len(s) + Cardinality(Wide(s))
      BY WideFinite
    <3>2. QED
      BY <3>1
  <2>3. i = Len(s) => ByteLen(s) = k
    BY <1>1, <2>1, Zenon
  <2>4. QED
    BY <2>2, <2>3
<1>3. i + 1 \in 0..Len(s) /\ (i + 1) - 1 = i /\ (i + 1) + 1 = i + 2
  BY <1>2
<1>4. PICK a \in Seq(S), b \in Seq(S) : a = SubSeq(s, 1, i) /\ b = SubSeq(s, i + 2, Len(s))
  <2>1. SubSeq(s, 1, i) \in Seq(S)
    BY Cut
  <2>2. SubSeq(s, (i + 1) + 1, Len(s)) \in Seq(S)
    BY <1>3, Cut
  <2>3. QED
    BY <1>3, <2>1, <2>2
<1>5. Removed(s, k) = a \o b
  BY <1>1, <1>3, <1>4 DEF Removed, RemoveAt
<1>6. a \o b \in Seq(S) /\ ByteLen(a \o b) = ByteLen(a) + ByteLen(b)
  BY ConcatProperties, ByteLenJoin
<1>7. ByteLen(a) = k
  BY <1>1, <1>4
<1>8. ByteLen(b) \in Nat
  BY WideFinite
<1>9. QED
  BY <1>1, <1>2, <1>5, <1>6, <1>7, <1>8

-----------------------------------------------------------------------------
(* The invariant of every state, a byte lost or not: the cursor stays       *)
(* within the line and the index within the history.                        *)
InputInv ==
    /\ wire \in Seq(Bytes) /\ queue \in Seq(Bytes) /\ Len(queue) <= QueueCap
    /\ lead \in BOOLEAN /\ garbled \in BOOLEAN
    /\ escape \in {"none", "esc", "csi"}

LineInv == buffer \in Seq(Chars) /\ cursor \in Nat /\ cursor <= ByteLen(buffer)

HistoryInv == history \in Seq(Seq(Chars)) /\ history_index \in 0..Len(history)

ShellInv == InputInv /\ LineInv /\ HistoryInv /\ PanicNeedsWide

(* The character that read_key gives.                                       *)
LEMMA CharType ==
    ASSUME InputInv, HasKey
    PROVE  Char \in Chars /\ Head(queue) \in Bytes /\ Tail(queue) \in Seq(Bytes)
           /\ Len(Tail(queue)) <= QueueCap /\ at = "line"
<1>1. queue \in Seq(Bytes) /\ queue # <<>> /\ Len(queue) <= QueueCap /\ at = "line"
  BY DEF InputInv, HasKey, HasByte
<1>2. Head(queue) \in Bytes /\ Tail(queue) \in Seq(Bytes) /\ Len(Tail(queue)) = Len(queue) - 1
  BY <1>1, HeadTailProperties
<1>3. Char \in Chars
  <2>1. CASE lead \/ Head(queue) = "trail"
    BY <2>1 DEF Char, Chars
  <2>2. CASE ~lead /\ Head(queue) # "trail"
    <3>1. Head(queue) # "lead"
      BY <2>2 DEF HasKey
    <3>2. Head(queue) \in Plain
      BY <1>2, <2>2, <3>1 DEF Bytes
    <3>3. QED
      BY <2>2, <3>2 DEF Char, Chars
  <2>3. QED
    BY <2>1, <2>2
<1>4. QED
  BY <1>1, <1>2, <1>3, QueueAssumption

(* Without a wide character every place up to the end is a boundary.        *)
LEMMA BoundaryOrWide ==
    ASSUME LineInv, NEW k \in Nat, k <= cursor, ~IsBoundary(buffer, k)
    PROVE  "w" \in Range(buffer)
<1>1. SUFFICES ASSUME "w" \notin Range(buffer) PROVE FALSE
  OBVIOUS
<1>2. buffer \in Seq(Chars) /\ cursor \in Nat /\ cursor <= ByteLen(buffer)
  BY DEF LineInv
<1>3. \A i \in DOMAIN buffer : buffer[i] # "w"
  BY <1>1 DEF Range
<1>4. ByteLen(buffer) = Len(buffer)
  BY <1>2, <1>3, ByteLenNarrow
<1>5. k \in 0..Len(buffer)
  BY <1>2, <1>4
<1>6. QED
  BY <1>2, <1>3, <1>5, NarrowBoundary

-----------------------------------------------------------------------------
(* Every step keeps the invariant.                                          *)

(* The steps that read a key and go on with the line.                       *)
Editing == Backspace \/ Escape \/ Bracket \/ Up \/ Down \/ Sideways \/ Insert \/ Control

LEMMA EditingReads ==
    ASSUME Editing
    PROVE  /\ HasKey /\ queue' = Tail(queue) /\ lead' = FALSE
           /\ escape' \in {"none", "esc", "csi"}
           /\ UNCHANGED <<wire, entered, meant, garbled, cwd, trail>>
<1>1. CASE Backspace \/ Escape
  BY <1>1 DEF Backspace, Escape, Read, main
<1>2. CASE Bracket
  BY <1>2 DEF Bracket, Read, main
<1>3. CASE Up \/ Down
  BY <1>3 DEF Up, Down, Read
<1>4. CASE Sideways \/ Insert \/ Control
  BY <1>4 DEF Sideways, Insert, Control, Read, main
<1>5. QED
  BY <1>1, <1>2, <1>3, <1>4 DEF Editing

LEMMA NextCases ==
    ASSUME [Next]_vars
    PROVE  \/ PressKey \/ SerialHandler \/ ReadLead \/ EndOfLine \/ Editing
           \/ RunLine \/ ProgramEnds \/ UNCHANGED vars
  BY DEF Next, Editing

LEMMA InputNext ==
    ASSUME ShellInv, [Next]_vars
    PROVE  InputInv'
<1>0. /\ wire \in Seq(Bytes) /\ queue \in Seq(Bytes) /\ Len(queue) <= QueueCap
      /\ lead \in BOOLEAN /\ garbled \in BOOLEAN /\ escape \in {"none", "esc", "csi"}
  BY DEF ShellInv, InputInv
<1>1. CASE PressKey
  <2>1. PICK key \in Keys : wire' = BytesOf(key)
    BY <1>1 DEF PressKey
  <2>2. wire' \in Seq(Bytes)
    BY <2>1, KeyAssumption, KeyBytesType
  <2>3. garbled' \in BOOLEAN /\ UNCHANGED <<queue, lead, escape>>
    BY <1>1 DEF PressKey, line
  <2>4. QED
    BY <1>0, <2>2, <2>3 DEF InputInv
<1>2. CASE SerialHandler
  <2>1. wire # <<>> /\ wire' = Tail(wire) /\ queue' = Kept(Head(wire))
    BY <1>2 DEF SerialHandler
  <2>2. Head(wire) \in Bytes /\ Tail(wire) \in Seq(Bytes)
    BY <1>0, <2>1, HeadTailProperties
  <2>3. queue' \in Seq(Bytes) /\ Len(queue') <= QueueCap
    <3>1. /\ Append(queue, Head(wire)) \in Seq(Bytes)
          /\ Len(Append(queue, Head(wire))) = Len(queue) + 1
      BY <1>0, <2>2, AppendProperties
    <3>2. QED
      BY <1>0, <2>1, <3>1, QueueAssumption DEF Kept
  <2>4. garbled' \in BOOLEAN /\ UNCHANGED <<lead, escape>>
    BY <1>2 DEF SerialHandler, line
  <2>5. QED
    BY <1>0, <2>1, <2>2, <2>3, <2>4 DEF InputInv
<1>3. CASE ReadLead
  <2>1. queue # <<>> /\ queue' = Tail(queue) /\ lead' = TRUE /\ UNCHANGED <<wire, garbled, escape>>
    BY <1>3 DEF ReadLead, HasByte
  <2>2. Tail(queue) \in Seq(Bytes) /\ Len(Tail(queue)) = Len(queue) - 1
    BY <1>0, <2>1, HeadTailProperties
  <2>3. QED
    BY <1>0, <2>1, <2>2, QueueAssumption DEF InputInv
<1>4. CASE EndOfLine
  <2>1. HasKey /\ queue' = Tail(queue) /\ UNCHANGED <<wire, garbled, escape, lead>>
    BY <1>4 DEF EndOfLine, line
  <2>2. QED
    BY <1>0, <2>1, CharType DEF InputInv, ShellInv
<1>5. CASE Editing
  <2>1. Tail(queue) \in Seq(Bytes) /\ Len(Tail(queue)) <= QueueCap
    BY <1>5, EditingReads, CharType DEF ShellInv
  <2>2. QED
    BY <1>0, <1>5, <2>1, EditingReads DEF InputInv
<1>6. CASE RunLine \/ ProgramEnds \/ UNCHANGED vars
  <2>1. UNCHANGED <<wire, queue, lead, garbled, escape>>
    BY <1>6 DEF RunLine, ProgramEnds, vars, input, line
  <2>2. QED
    BY <1>0, <2>1 DEF InputInv
<1>7. QED
  BY <1>1, <1>2, <1>3, <1>4, <1>5, <1>6, NextCases

LEMMA LineNext ==
    ASSUME ShellInv, [Next]_vars
    PROVE  LineInv'
<1>0. /\ buffer \in Seq(Chars) /\ cursor \in Nat /\ cursor <= ByteLen(buffer)
      /\ \A t \in Seq(Chars) : ByteLen(t) \in Nat
  <2>1. \A t \in Seq(Chars) : Len(t) \in Nat /\ ByteLen(t) = Len(t) + Cardinality(Wide(t)) /\ Cardinality(Wide(t)) \in Nat
    BY WideFinite
  <2>2. QED
    BY <2>1 DEF ShellInv, LineInv
<1>1. ASSUME UNCHANGED <<buffer, cursor>> PROVE LineInv'
  BY <1>0, <1>1 DEF LineInv
<1>2. ASSUME buffer' = <<>>, cursor' = 0 PROVE LineInv'
  <2>1. <<>> \in Seq(Chars)
    OBVIOUS
  <2>2. ByteLen(<<>>) \in Nat
    BY <1>0, <2>1, Zenon
  <2>3. QED
    BY <1>2, <2>1, <2>2 DEF LineInv
<1>3. CASE Backspace
  <2>1. \/ UNCHANGED <<buffer, cursor>>
        \/ /\ cursor > 0 /\ IsBoundary(buffer, cursor - 1)
           /\ buffer' = Removed(buffer, cursor - 1) /\ cursor' = cursor - 1
    BY <1>3 DEF Backspace
  <2>2. CASE cursor > 0 /\ IsBoundary(buffer, cursor - 1)
             /\ buffer' = Removed(buffer, cursor - 1) /\ cursor' = cursor - 1
    <3>1. PICK k \in Nat : k = cursor - 1
      BY <1>0, <2>2
    <3>2. k < ByteLen(buffer)
      BY <1>0, <3>1
    <3>3. Removed(buffer, k) \in Seq(Chars) /\ k <= ByteLen(Removed(buffer, k))
      BY <1>0, <2>2, <3>1, <3>2, RemovedFacts
    <3>4. QED
      BY <2>2, <3>1, <3>3 DEF LineInv
  <2>3. QED
    BY <1>1, <2>1, <2>2
<1>4. CASE Insert
  <2>1. \/ UNCHANGED <<buffer, cursor>>
        \/ /\ IsBoundary(buffer, cursor)
           /\ buffer' = Inserted(buffer, cursor, Char) /\ cursor' = cursor + 1
    BY <1>4 DEF Insert
  <2>2. CASE IsBoundary(buffer, cursor)
             /\ buffer' = Inserted(buffer, cursor, Char) /\ cursor' = cursor + 1
    <3>1. Char \in Chars
      BY <1>4, CharType DEF Insert, ShellInv
    <3>2. /\ Inserted(buffer, cursor, Char) \in Seq(Chars)
          /\ cursor + 1 <= ByteLen(Inserted(buffer, cursor, Char))
      BY <1>0, <2>2, <3>1, InsertedFacts
    <3>3. QED
      BY <1>0, <2>2, <3>2 DEF LineInv
  <2>3. QED
    BY <1>1, <2>1, <2>2
<1>5. ASSUME NEW i \in Nat, i + 1 <= Len(history), Show(i) PROVE LineInv'
  <2>1. history \in Seq(Seq(Chars)) /\ i + 1 \in 1..Len(history)
    BY <1>5 DEF ShellInv, HistoryInv
  <2>2. history[i + 1] \in Seq(Chars)
    BY <2>1
  <2>3. QED
    BY <1>0, <1>5, <2>2 DEF Show, LineInv
<1>6. history \in Seq(Seq(Chars)) /\ history_index \in 0..Len(history) /\ Len(history) \in Nat
  BY DEF ShellInv, HistoryInv
<1>7. CASE Up
  <2>1. CASE history # <<>> /\ Show(IF history_index > 0 THEN history_index - 1 ELSE 0)
    <3>1. PICK i \in Nat : i = (IF history_index > 0 THEN history_index - 1 ELSE 0)
      BY <1>6
    <3>2. i + 1 <= Len(history)
      BY <1>6, <2>1, <3>1
    <3>3. QED
      BY <1>5, <2>1, <3>1, <3>2
  <2>2. QED
    BY <1>1, <1>7, <2>1 DEF Up
<1>8. CASE Down
  <2>1. CASE history_index + 1 < Len(history) /\ Show(history_index + 1)
    <3>1. PICK i \in Nat : i = history_index + 1
      BY <1>6
    <3>2. QED
      BY <1>5, <1>6, <2>1, <3>1
  <2>2. QED
    BY <1>1, <1>2, <1>8, <2>1 DEF Down
<1>9. CASE Sideways
  <2>1. UNCHANGED buffer /\ (cursor' = Rightward \/ cursor' = Leftward \/ cursor' = cursor)
    BY <1>9 DEF Sideways
  <2>2. cursor' \in Nat /\ cursor' <= ByteLen(buffer)
    BY <1>0, <2>1 DEF Rightward, Leftward
  <2>3. QED
    BY <1>0, <2>1, <2>2 DEF LineInv
<1>10. CASE Escape \/ Bracket \/ Control
  BY <1>1, <1>10 DEF Escape, Bracket, Control
<1>11. CASE PressKey \/ SerialHandler \/ ReadLead \/ EndOfLine \/ ProgramEnds \/ UNCHANGED vars
  BY <1>1, <1>11 DEF PressKey, SerialHandler, ReadLead, EndOfLine, ProgramEnds, vars, line
<1>12. CASE RunLine
  BY <1>2, <1>12 DEF RunLine
<1>13. QED
  BY <1>3, <1>4, <1>7, <1>8, <1>9, <1>10, <1>11, <1>12, NextCases DEF Editing

LEMMA HistoryNext ==
    ASSUME ShellInv, [Next]_vars
    PROVE  HistoryInv'
<1>1. history \in Seq(Seq(Chars)) /\ history_index \in 0..Len(history) /\ Len(history) \in Nat
  BY DEF ShellInv, HistoryInv
<1>2. ASSUME UNCHANGED history, history_index' \in 0..Len(history) PROVE HistoryInv'
  BY <1>1, <1>2 DEF HistoryInv
<1>3. CASE Up
  <2>1. UNCHANGED history
    BY <1>3 DEF Up
  <2>2. \/ history # <<>> /\ history_index' = (IF history_index > 0 THEN history_index - 1 ELSE 0)
        \/ history_index' = history_index
    BY <1>3 DEF Up, Show
  <2>3. history_index' \in 0..Len(history)
    BY <1>1, <2>2
  <2>4. QED
    BY <1>2, <2>1, <2>3
<1>4. CASE Down
  <2>1. UNCHANGED history
    BY <1>4 DEF Down
  <2>2. \/ history_index + 1 < Len(history) /\ history_index' = history_index + 1
        \/ history_index' = Len(history)
        \/ history_index' = history_index
    BY <1>4 DEF Down, Show
  <2>3. history_index' \in 0..Len(history)
    BY <1>1, <2>2
  <2>4. QED
    BY <1>2, <2>1, <2>3
<1>5. CASE RunLine
  <2>1. history' = Remembered /\ history_index' = NewIndex
    BY <1>5 DEF RunLine
  <2>2. Typed \in Seq(Chars)
    BY TrimType DEF Typed, ShellInv, LineInv
  <2>3. /\ Append(history, Typed) \in Seq(Seq(Chars))
        /\ Len(Append(history, Typed)) = Len(history) + 1
    BY <1>1, <2>2, AppendProperties
  <2>4. /\ Remembered \in Seq(Seq(Chars)) /\ Len(Remembered) \in Nat
        /\ Len(history) <= Len(Remembered)
    BY <1>1, <2>3 DEF Remembered
  <2>5. NewIndex \in 0..Len(Remembered)
    BY <1>1, <2>4 DEF NewIndex
  <2>6. QED
    BY <2>1, <2>4, <2>5 DEF HistoryInv
<1>6. CASE Backspace \/ Escape \/ Bracket \/ Sideways \/ Insert \/ Control
  BY <1>1, <1>2, <1>6 DEF Backspace, Escape, Bracket, Sideways, Insert, Control, main
<1>7. CASE PressKey \/ SerialHandler \/ ReadLead \/ EndOfLine \/ ProgramEnds \/ UNCHANGED vars
  BY <1>1, <1>2, <1>7 DEF PressKey, SerialHandler, ReadLead, EndOfLine, ProgramEnds, vars, main
<1>8. QED
  BY <1>3, <1>4, <1>5, <1>6, <1>7, NextCases DEF Editing

(* The two places where String panics: the character before the cursor is   *)
(* taken away, one is put at the cursor.                                    *)
LEMMA PanicNext ==
    ASSUME ShellInv, [Next]_vars
    PROVE  PanicNeedsWide'
<1>1. PanicNeedsWide /\ LineInv
  BY DEF ShellInv
<1>2. ASSUME at' # "panic" PROVE PanicNeedsWide'
  BY <1>2 DEF PanicNeedsWide
<1>3. ASSUME UNCHANGED <<at, buffer>> PROVE PanicNeedsWide'
  BY <1>1, <1>3 DEF PanicNeedsWide
<1>4. ASSUME UNCHANGED buffer, NEW k \in Nat, k <= cursor, ~IsBoundary(buffer, k)
      PROVE  PanicNeedsWide'
  BY <1>1, <1>4, BoundaryOrWide DEF PanicNeedsWide
<1>5. CASE Backspace
  <2>1. HasKey /\ at = "line"
    BY <1>5 DEF Backspace, HasKey, HasByte
  <2>2. CASE cursor > 0 /\ ~IsBoundary(buffer, cursor - 1) /\ UNCHANGED buffer
    <3>1. PICK k \in Nat : k = cursor - 1 /\ k <= cursor
      BY <1>1, <2>2 DEF LineInv
    <3>2. QED
      BY <1>4, <2>2, <3>1
  <2>3. CASE UNCHANGED at
    BY <1>2, <2>1, <2>3
  <2>4. QED
    BY <1>5, <2>2, <2>3 DEF Backspace
<1>6. CASE Insert
  <2>1. HasKey /\ at = "line"
    BY <1>6 DEF Insert, HasKey, HasByte
  <2>2. CASE ~IsBoundary(buffer, cursor) /\ UNCHANGED buffer
    BY <1>1, <1>4, <2>2 DEF LineInv
  <2>3. CASE UNCHANGED at
    BY <1>2, <2>1, <2>3
  <2>4. QED
    BY <1>6, <2>2, <2>3 DEF Insert
<1>7. CASE Escape \/ Bracket \/ Up \/ Down \/ Sideways \/ Control
  <2>1. at = "line" /\ UNCHANGED at
    BY <1>7 DEF Escape, Bracket, Up, Down, Sideways, Control, HasKey, HasByte
  <2>2. QED
    BY <1>2, <2>1
<1>8. CASE PressKey \/ SerialHandler \/ ReadLead \/ UNCHANGED vars
  BY <1>3, <1>8 DEF PressKey, SerialHandler, ReadLead, vars, line
<1>9. CASE EndOfLine \/ ProgramEnds
  BY <1>2, <1>9 DEF EndOfLine, ProgramEnds
<1>10. CASE RunLine
  <2>1. at' = NextAt
    BY <1>10 DEF RunLine
  <2>2. NextAt # "panic"
    BY DEF NextAt
  <2>3. QED
    BY <1>2, <2>1, <2>2
<1>11. QED
  BY <1>5, <1>6, <1>7, <1>8, <1>9, <1>10, NextCases DEF Editing

LEMMA ShellInit ==
    ASSUME Init
    PROVE  ShellInv
<1>1. <<>> \in Seq(Bytes) /\ <<>> \in Seq(Chars) /\ <<>> \in Seq(Seq(Chars)) /\ Len(<<>>) = 0
  OBVIOUS
<1>2. InputInv
  <2>1. /\ wire = <<>> /\ queue = <<>> /\ lead = FALSE /\ garbled = FALSE /\ escape = "none"
    BY DEF Init
  <2>2. wire \in Seq(Bytes) /\ queue \in Seq(Bytes)
    BY <1>1, <2>1
  <2>3. Len(queue) = Len(<<>>)
    BY <2>1, Zenon
  <2>4. Len(queue) <= QueueCap
    BY <1>1, <2>3, QueueAssumption
  <2>5. QED
    BY <2>1, <2>2, <2>4 DEF InputInv
<1>3. LineInv
  <2>1. ByteLen(<<>>) = 0
    <3>1. PICK s \in Seq(Chars) : s = <<>> /\ Len(s) = 0 /\ \A i \in DOMAIN s : s[i] # "w"
      <4>1. DOMAIN <<>> = {}
        OBVIOUS
      <4>2. QED
        BY <1>1, <4>1, Zenon
    <3>2. ByteLen(s) = Len(s)
      BY <3>1, ByteLenNarrow
    <3>3. QED
      BY <3>1, <3>2, Zenon
  <2>2. QED
    BY <1>1, <2>1 DEF Init, LineInv
<1>4. HistoryInv
  <2>1. history = <<>> /\ history_index = 0
    BY DEF Init
  <2>2. 0 \in 0..Len(<<>>)
    BY <1>1
  <2>3. QED
    <3>1. history \in Seq(Seq(Chars))
      BY <1>1, <2>1
    <3>2. Len(history) = Len(<<>>)
      BY <2>1, Zenon
    <3>3. history_index \in 0..Len(history)
      BY <1>1, <2>1, <3>2
    <3>4. QED
      BY <3>1, <3>3 DEF HistoryInv
<1>5. PanicNeedsWide
  BY DEF Init, PanicNeedsWide
<1>6. QED
  BY <1>2, <1>3, <1>4, <1>5 DEF ShellInv

LEMMA ShellInvariant == Spec => []ShellInv
<1>1. ShellInv /\ [Next]_vars => ShellInv'
  BY InputNext, LineNext, HistoryNext, PanicNext DEF ShellInv
<1>2. QED
  BY <1>1, ShellInit, PTL DEF Spec

(* A panic of the line editor (app/sh main.rs:53-168: String::remove and    *)
(* String::insert want an index between two characters) takes a line with a *)
(* character of several bytes, whatever the keys, lost bytes and lines of   *)
(* the history before it.                                                   *)
THEOREM PanicOnlyWide == Spec => []PanicNeedsWide
<1>1. ShellInv => PanicNeedsWide
  BY DEF ShellInv
<1>2. QED
  BY <1>1, ShellInvariant, PTL

-----------------------------------------------------------------------------
(* Sequences, joined and taken apart.                                       *)
LEMMA One ==
    ASSUME NEW S, NEW x \in S
    PROVE  <<x>> \in Seq(S) /\ Len(<<x>>) = 1 /\ <<x>>[1] = x
  OBVIOUS

LEMMA HeadFirst ==
    ASSUME NEW S, NEW s \in Seq(S), s # <<>>
    PROVE  /\ Head(s) \in S /\ Tail(s) \in Seq(S) /\ Head(s) = s[1]
           /\ <<Head(s)>> \in Seq(S) /\ s = <<Head(s)>> \o Tail(s)
<1>1. Head(s) \in S /\ Tail(s) \in Seq(S) /\ Head(s) = s[1] /\ Len(Tail(s)) = Len(s) - 1
      /\ \A i \in 1..Len(Tail(s)) : Tail(s)[i] = s[i + 1]
  BY HeadTailProperties
<1>2. PICK a \in Seq(S) : a = <<Head(s)>> /\ Len(a) = 1 /\ a[1] = s[1]
  <2>1. <<Head(s)>> \in Seq(S) /\ Len(<<Head(s)>>) = 1 /\ <<Head(s)>>[1] = Head(s)
    BY <1>1, One
  <2>2. QED
    BY <1>1, <2>1, Zenon
<1>3. PICK b \in Seq(S) : b = Tail(s) /\ Len(b) = Len(s) - 1 /\ \A i \in 1..Len(b) : b[i] = s[i + 1]
  BY <1>1, Zenon
<1>4. s = a \o b
  <2>1. /\ a \o b \in Seq(S) /\ Len(a \o b) = Len(a) + Len(b)
        /\ \A i \in 1..(Len(a) + Len(b)) : (a \o b)[i] = IF i <= Len(a) THEN a[i] ELSE b[i - Len(a)]
    BY ConcatProperties
  <2>2. Len(s) \in Nat /\ Len(a \o b) = Len(s)
    BY <1>2, <1>3, <2>1
  <2>3. \A i \in 1..Len(s) : (a \o b)[i] = s[i]
    <3> TAKE i \in 1..Len(s)
    <3>1. CASE i = 1
      BY <1>2, <1>3, <2>1, <2>2, <3>1
    <3>2. CASE i > 1
      <4>1. PICK k \in 1..Len(b) : i = k + 1 /\ k = i - 1
        BY <1>3, <2>2, <3>2
      <4>2. (a \o b)[i] = b[k]
        BY <1>2, <1>3, <2>1, <2>2, <3>2, <4>1
      <4>3. QED
        BY <1>3, <4>1, <4>2
    <3>3. i = 1 \/ i > 1
      BY <2>2
    <3>4. QED
      BY <3>1, <3>2, <3>3, Zenon
  <2>4. QED
    BY <2>1, <2>2, <2>3, SeqEqual
<1>5. QED
  BY <1>1, <1>2, <1>3, <1>4, Zenon

(* A byte passes from one part of the input to the next.                    *)
LEMMA Handed ==
    ASSUME NEW S, NEW d \in Seq(S), NEW q \in Seq(S), NEW w \in Seq(S), q # <<>>
    PROVE  d \o (q \o w) = (d \o <<Head(q)>>) \o (Tail(q) \o w)
<1>1. <<Head(q)>> \in Seq(S) /\ Tail(q) \in Seq(S) /\ q = <<Head(q)>> \o Tail(q)
  BY HeadFirst
<1>2. PICK a \in Seq(S), b \in Seq(S) : a = <<Head(q)>> /\ b = Tail(q)
  BY <1>1, Zenon
<1>3. q = a \o b
  BY <1>1, <1>2, Zenon
<1>4. PICK y \in Seq(S) : y = b \o w
  <2>1. b \o w \in Seq(S)
    BY ConcatProperties
  <2>2. QED
    BY <2>1
<1>5. (a \o b) \o w = a \o y
  BY <1>4, ConcatAssociative, SMTT(30)
<1>6. (d \o a) \o y = d \o (a \o y)
  BY ConcatAssociative, SMTT(30)
<1>7. d \o (q \o w) = (d \o a) \o (b \o w)
  BY <1>3, <1>4, <1>5, <1>6, Zenon
<1>8. QED
  BY <1>2, <1>7, Zenon

(* The pieces of a sequence that was joined.                                *)
LEMMA Pieces ==
    ASSUME NEW S, NEW a \in Seq(S), NEW b \in Seq(S)
    PROVE  /\ SubSeq(a \o b, 1, Len(a)) = a
           /\ SubSeq(a \o b, Len(a) + 1, Len(a \o b)) = b
           /\ Len(a) \in 0..Len(a \o b)
<1>0. /\ a \o b \in Seq(S) /\ Len(a \o b) = Len(a) + Len(b) /\ Len(a) \in Nat /\ Len(b) \in Nat
      /\ \A i \in 1..(Len(a) + Len(b)) : (a \o b)[i] = IF i <= Len(a) THEN a[i] ELSE b[i - Len(a)]
  BY ConcatProperties
<1>1. PICK s \in Seq(S) : s = a \o b
  BY <1>0, Zenon
<1>2. /\ Len(s) = Len(a) + Len(b) /\ Len(a) \in Nat /\ Len(b) \in Nat
      /\ \A i \in 1..Len(s) : s[i] = IF i <= Len(a) THEN a[i] ELSE b[i - Len(a)]
  BY <1>0, <1>1, Zenon
<1>3. Len(a) \in 0..Len(s)
  BY <1>2
<1>4. PICK x \in Seq(S), y \in Seq(S) :
          /\ x = SubSeq(s, 1, Len(a)) /\ y = SubSeq(s, Len(a) + 1, Len(s))
          /\ Len(x) = Len(a) /\ Len(y) = Len(s) - Len(a)
          /\ \A k \in 1..Len(a) : x[k] = s[k]
          /\ \A k \in 1..(Len(s) - Len(a)) : y[k] = s[k + Len(a)]
  <2>1. /\ SubSeq(s, 1, Len(a)) \in Seq(S) /\ SubSeq(s, Len(a) + 1, Len(s)) \in Seq(S)
        /\ Len(SubSeq(s, 1, Len(a))) = Len(a) /\ Len(SubSeq(s, Len(a) + 1, Len(s))) = Len(s) - Len(a)
        /\ \A k \in 1..Len(a) : SubSeq(s, 1, Len(a))[k] = s[k]
        /\ \A k \in 1..(Len(s) - Len(a)) : SubSeq(s, Len(a) + 1, Len(s))[k] = s[k + Len(a)]
    BY <1>3, Cut
  <2>2. QED
    BY <2>1, Zenon
<1>5. x = a
  <2>1. \A k \in 1..Len(x) : x[k] = a[k]
    BY <1>2, <1>4
  <2>2. QED
    BY <1>4, <2>1, SeqEqual
<1>6. y = b
  <2>1. \A k \in 1..Len(y) : y[k] = b[k]
    <3> TAKE k \in 1..Len(y)
    <3>1. PICK i \in 1..Len(s) : i = k + Len(a) /\ ~(i <= Len(a)) /\ i - Len(a) = k
      <4>1. PICK m \in Nat, n \in Nat : m = Len(a) /\ n = Len(b)
        BY <1>2
      <4>2. k \in 1..n /\ Len(s) = m + n
        BY <1>2, <1>4, <4>1
      <4>3. k + m \in 1..(m + n) /\ ~(k + m <= m) /\ (k + m) - m = k
        BY <4>2
      <4>4. QED
        BY <4>1, <4>2, <4>3, Zenon
    <3>2. s[i] = b[k]
      BY <1>2, <3>1
    <3>3. k \in 1..(Len(s) - Len(a))
      BY <1>4
    <3>4. y[k] = s[k + Len(a)]
      BY <1>4, <3>3, Zenon
    <3>5. QED
      BY <3>1, <3>2, <3>4, Zenon
  <2>2. Len(y) = Len(b)
    BY <1>2, <1>4
  <2>3. QED
    BY <2>1, <2>2, SeqEqual
<1>7. QED
  BY <1>1, <1>3, <1>4, <1>5, <1>6, Zenon

-----------------------------------------------------------------------------
(* Keys by their bytes: what the three reads of an escape sequence need.    *)
CalmKeys == AllKeys \ {"w"}
Arrows   == {"Up", "Down", "Right", "Left"}

LEMMA ArrowBytes ==
    ASSUME NEW key \in Arrows
    PROVE  \E x \in Bytes :
               /\ BytesOf(key) = <<"ESC", "bracket", x>>
               /\ x = "A" <=> key = "Up"
               /\ x = "B" <=> key = "Down"
               /\ x = "C" <=> key = "Right"
               /\ x = "D" <=> key = "Left"
<1>1. "A" \in Bytes /\ "B" \in Bytes /\ "C" \in Bytes /\ "D" \in Bytes
  BY DEF Bytes, Plain
<1>2. CASE key = "Up"
  BY <1>1, <1>2, KeysAre
<1>3. CASE key = "Down"
  BY <1>1, <1>3, KeysAre
<1>4. CASE key = "Right"
  BY <1>1, <1>4, KeysAre
<1>5. CASE key = "Left"
  BY <1>1, <1>5, KeysAre
<1>6. QED
  BY <1>2, <1>3, <1>4, <1>5 DEF Arrows

(* The other keys send one byte.                                            *)
ByteOfKey(key) ==
    CASE key = "Enter" -> "CR" [] key = "Backspace" -> "BS" [] key = "CtrlA" -> "SOH" [] OTHER -> key

LEMMA PlainBytes ==
    ASSUME NEW key \in CalmKeys, key \notin Arrows
    PROVE  /\ key \in {"a", "blank", "Enter", "Backspace", "CtrlA"}
           /\ BytesOf(key) = <<ByteOfKey(key)>>
           /\ ByteOfKey(key) \in Bytes \ {"ESC", "trail", "lead"}
<1>1. key \in {"a", "blank", "Enter", "Backspace", "CtrlA"}
  BY DEF CalmKeys, AllKeys, Letters, Arrows
<1>2. ByteOfKey(key) \in Bytes \ {"ESC", "trail", "lead"}
  BY <1>1 DEF ByteOfKey, Bytes, Plain
<1>3. CASE key \in {"a", "blank"}
  <2>1. BytesOf(key) = <<key>> /\ ByteOfKey(key) = key
    BY <1>3, KeysAre DEF ByteOfKey
  <2>2. QED
    BY <1>1, <1>2, <2>1, Zenon
<1>4. CASE key = "Enter"
  <2>1. BytesOf(key) = <<"CR">> /\ ByteOfKey(key) = "CR"
    BY <1>4, KeysAre DEF ByteOfKey
  <2>2. QED
    BY <1>1, <1>2, <2>1, Zenon
<1>5. CASE key = "Backspace"
  <2>1. BytesOf(key) = <<"BS">> /\ ByteOfKey(key) = "BS"
    BY <1>5, KeysAre DEF ByteOfKey
  <2>2. QED
    BY <1>1, <1>2, <2>1, Zenon
<1>6. CASE key = "CtrlA"
  <2>1. BytesOf(key) = <<"SOH">> /\ ByteOfKey(key) = "SOH"
    BY <1>6, KeysAre DEF ByteOfKey
  <2>2. QED
    BY <1>1, <1>2, <2>1, Zenon
<1>7. QED
  BY <1>1, <1>3, <1>4, <1>5, <1>6

-----------------------------------------------------------------------------
(* The user's idea of the line, and what a key makes of it.                 *)
Narrow == {"a", "blank"}
Ideas == {m \in [left : Seq(Narrow), right : Seq(Narrow), lines : Seq(Seq(Narrow)), index : Nat] :
             m.index <= Len(m.lines)}

LEMMA IdeaFields ==
    ASSUME NEW m \in Ideas
    PROVE  /\ m.left \in Seq(Narrow) /\ m.right \in Seq(Narrow) /\ m.lines \in Seq(Seq(Narrow))
           /\ m.index \in 0..Len(m.lines) /\ Len(m.lines) \in Nat
           /\ m = [left |-> m.left, right |-> m.right, lines |-> m.lines, index |-> m.index]
  BY DEF Ideas

LEMMA IdeaOf ==
    ASSUME NEW l \in Seq(Narrow), NEW r \in Seq(Narrow), NEW h \in Seq(Seq(Narrow)), NEW i \in 0..Len(h)
    PROVE  /\ Idea(l, r, h, i) \in Ideas
           /\ Idea(l, r, h, i).left = l /\ Idea(l, r, h, i).right = r
           /\ Idea(l, r, h, i).lines = h /\ Idea(l, r, h, i).index = i
  BY DEF Ideas, Idea

(* The arms of Press.                                                       *)
LEMMA Pressed ==
    ASSUME NEW m
    PROVE  /\ Press(m, "Enter") = Enter(m) /\ Press(m, "Backspace") = Erase(m)
           /\ Press(m, "Left") = GoLeft(m) /\ Press(m, "Right") = GoRight(m)
           /\ Press(m, "Up") = GoUp(m) /\ Press(m, "Down") = GoDown(m)
           /\ Press(m, "CtrlA") = m
           /\ \A key \in Narrow : Press(m, key) = Moved(m, Append(m.left, key), m.right)
<1>1. Press(m, "Enter") = Enter(m) /\ Press(m, "Backspace") = Erase(m)
  BY DEF Press, Letters
<1>2. Press(m, "Left") = GoLeft(m) /\ Press(m, "Right") = GoRight(m)
  BY DEF Press, Letters
<1>3. Press(m, "Up") = GoUp(m) /\ Press(m, "Down") = GoDown(m)
  BY DEF Press, Letters
<1>4. Press(m, "CtrlA") = m
  BY DEF Press, Letters
<1>5. \A key \in Narrow : Press(m, key) = Moved(m, Append(m.left, key), m.right)
  BY DEF Press, Letters, Narrow
<1>6. QED
  BY <1>1, <1>2, <1>3, <1>4, <1>5

LEMMA FrontFacts ==
    ASSUME NEW S, NEW s \in Seq(S), s # <<>>
    PROVE  /\ Front(s) \in Seq(S) /\ Last(s) \in S /\ <<Last(s)>> \in Seq(S)
           /\ Len(Front(s)) = Len(s) - 1 /\ Len(s) \in Nat \ {0}
           /\ s = Front(s) \o <<Last(s)>>
<1>1. PICK n \in Nat : n + 1 = Len(s) /\ n = Len(s) - 1
  <2>1. Len(s) \in Nat \ {0}
    OBVIOUS
  <2>2. Len(s) - 1 \in Nat /\ (Len(s) - 1) + 1 = Len(s)
    BY <2>1
  <2>3. QED
    BY <2>2, Zenon
<1>2. /\ SubSeq(s, 1, n) \in Seq(S) /\ Len(SubSeq(s, 1, n)) = n
      /\ \A k \in 1..n : SubSeq(s, 1, n)[k] = s[k]
  <2>1. n \in 0..Len(s)
    BY <1>1
  <2>2. QED
    BY <2>1, Cut
<1>3. Front(s) = SubSeq(s, 1, n) /\ Last(s) = s[n + 1] /\ s[n + 1] \in S
  BY <1>1 DEF Front, Last
<1>4. PICK f \in Seq(S), l \in Seq(S) :
          /\ f = Front(s) /\ l = <<Last(s)>> /\ Len(f) = n /\ Len(l) = 1 /\ l[1] = s[n + 1]
          /\ \A k \in 1..n : f[k] = s[k]
  <2>1. <<s[n + 1]>> \in Seq(S) /\ Len(<<s[n + 1]>>) = 1 /\ <<s[n + 1]>>[1] = s[n + 1]
    BY <1>3, One
  <2>2. QED
    BY <1>2, <1>3, <2>1, Zenon
<1>5. s = f \o l
  <2>1. /\ f \o l \in Seq(S) /\ Len(f \o l) = n + 1
        /\ \A i \in 1..(n + 1) : (f \o l)[i] = IF i <= n THEN f[i] ELSE l[i - n]
    <3>1. /\ f \o l \in Seq(S) /\ Len(f \o l) = Len(f) + Len(l)
          /\ \A i \in 1..(Len(f) + Len(l)) : (f \o l)[i] = IF i <= Len(f) THEN f[i] ELSE l[i - Len(f)]
      BY ConcatProperties
    <3>2. Len(f) = n /\ Len(l) = 1
      BY <1>4
    <3>3. QED
      BY <3>1, <3>2, Zenon
  <2>2. \A i \in 1..(n + 1) : (f \o l)[i] = s[i]
    <3> TAKE i \in 1..(n + 1)
    <3>1. CASE i <= n
      <4>1. (f \o l)[i] = f[i] /\ i \in 1..n
        BY <2>1, <3>1
      <4>2. QED
        BY <1>4, <4>1, Zenon
    <3>2. CASE i = n + 1
      <4>1. i - n = 1 /\ ~(i <= n)
        BY <3>2
      <4>2. (f \o l)[i] = l[i - n]
        BY <2>1, <4>1
      <4>3. QED
        BY <1>4, <3>2, <4>1, <4>2, Zenon
    <3>3. i <= n \/ i = n + 1
      OBVIOUS
    <3>4. QED
      BY <3>1, <3>2, <3>3, Zenon
  <2>3. Len(f \o l) = Len(s) /\ \A i \in 1..Len(s) : s[i] = (f \o l)[i]
    BY <1>1, <2>1, <2>2, Zenon
  <2>4. QED
    BY <2>1, <2>3, SeqEqual
<1>6. Len(s) \in Nat \ {0} /\ Len(f) = Len(s) - 1
  BY <1>1, <1>4
<1>7. QED
  BY <1>3, <1>4, <1>5, <1>6, Zenon

LEMMA PressIdeas ==
    ASSUME NEW m \in Ideas, NEW key \in CalmKeys
    PROVE  Press(m, key) \in Ideas
<1>1. PICK l \in Seq(Narrow), r \in Seq(Narrow), h \in Seq(Seq(Narrow)), i \in Nat :
          l = m.left /\ r = m.right /\ h = m.lines /\ i = m.index /\ i \in 0..Len(h)
  BY IdeaFields
<1>2. <<>> \in Seq(Narrow) /\ Len(h) \in Nat
  OBVIOUS
<1>3. Erase(m) \in Ideas
  <2>1. l # <<>> => Front(l) \in Seq(Narrow)
    BY FrontFacts
  <2>2. QED
    BY <1>1, <2>1, IdeaOf DEF Erase, Moved
<1>4. GoLeft(m) \in Ideas
  <2>1. CASE l # <<>>
    <3>1. Front(l) \in Seq(Narrow) /\ <<Last(l)>> \in Seq(Narrow)
      BY <2>1, FrontFacts
    <3>2. <<Last(l)>> \o r \in Seq(Narrow)
      BY <3>1, ConcatProperties
    <3>3. QED
      BY <1>1, <2>1, <3>1, <3>2, IdeaOf DEF GoLeft, Moved
  <2>2. QED
    BY <1>1, <2>1 DEF GoLeft
<1>5. GoRight(m) \in Ideas
  <2>1. CASE r # <<>>
    <3>1. Head(r) \in Narrow /\ Tail(r) \in Seq(Narrow)
      BY <2>1, HeadFirst
    <3>2. Append(l, Head(r)) \in Seq(Narrow)
      BY <3>1, AppendProperties
    <3>3. QED
      BY <1>1, <2>1, <3>1, <3>2, IdeaOf DEF GoRight, Moved
  <2>2. QED
    BY <1>1, <2>1 DEF GoRight
<1>6. ASSUME NEW j \in 0..(Len(h) - 1) PROVE Recall(m, j) \in Ideas
  <2>1. h[j + 1] \in Seq(Narrow) /\ j \in 0..Len(h)
    <3>1. j + 1 \in 1..Len(h) /\ j \in 0..Len(h)
      BY <1>2
    <3>2. QED
      BY <3>1
  <2>2. QED
    BY <1>1, <1>2, <2>1, IdeaOf DEF Recall
<1>7. GoUp(m) \in Ideas
  <2>1. CASE h # <<>>
    <3>1. (IF i > 0 THEN i - 1 ELSE 0) \in 0..(Len(h) - 1)
      <4>1. Len(h) # 0
        BY <2>1
      <4>2. QED
        BY <1>1, <1>2, <4>1
    <3>2. QED
      BY <1>1, <1>6, <2>1, <3>1 DEF GoUp
  <2>2. QED
    BY <1>1, <2>1 DEF GoUp
<1>8. GoDown(m) \in Ideas
  <2>1. CASE i + 1 < Len(h)
    <3>1. i + 1 \in 0..(Len(h) - 1)
      BY <1>2, <2>1
    <3>2. Recall(m, i + 1) \in Ideas
      BY <1>6, <3>1
    <3>3. QED
      BY <1>1, <2>1, <3>2 DEF GoDown
  <2>2. CASE ~(i + 1 < Len(h))
    <3>1. Idea(<<>>, <<>>, h, Len(h)) \in Ideas
      <4>1. Len(h) \in 0..Len(h)
        BY <1>2
      <4>2. QED
        BY <1>2, <4>1, IdeaOf
    <3>2. QED
      BY <1>1, <2>2, <3>1 DEF GoDown
  <2>3. QED
    BY <2>1, <2>2
<1>9. Enter(m) \in Ideas
  <2>1. PICK t \in Seq(Narrow) : t = Trim(l \o r)
    <3>1. l \o r \in Seq(Narrow)
      BY ConcatProperties
    <3>2. Trim(l \o r) \in Seq(Narrow)
      BY <3>1, TrimType
    <3>3. QED
      BY <3>2, Zenon
  <2>2. Append(h, t) \in Seq(Seq(Narrow)) /\ Len(Append(h, t)) = Len(h) + 1
    BY AppendProperties
  <2>3. PICK g \in Seq(Seq(Narrow)) :
            /\ g = IF t = <<>> \/ (h # <<>> /\ Last(h) = t) THEN h ELSE Append(h, t)
            /\ Len(h) <= Len(g) /\ Len(g) \in Nat
    <3>1. PICK g \in Seq(Seq(Narrow)) :
              g = IF t = <<>> \/ (h # <<>> /\ Last(h) = t) THEN h ELSE Append(h, t)
      BY <2>2
    <3>2. Len(h) <= Len(g) /\ Len(g) \in Nat
      BY <1>2, <2>2, <3>1
    <3>3. QED
      BY <3>1, <3>2
  <2>4. Enter(m) = Idea(<<>>, <<>>, g, IF t = <<>> THEN i ELSE Len(g))
    BY <1>1, <2>1, <2>3, Zenon DEF Enter
  <2>5. PICK k \in 0..Len(g) : k = IF t = <<>> THEN i ELSE Len(g)
    BY <1>1, <1>2, <2>3
  <2>6. Idea(<<>>, <<>>, g, k) \in Ideas
    BY <1>2, IdeaOf
  <2>7. QED
    BY <2>4, <2>5, <2>6, Zenon
<1>10. \A c \in Narrow : Moved(m, Append(l, c), r) \in Ideas
  <2> TAKE c \in Narrow
  <2>1. Append(l, c) \in Seq(Narrow)
    BY AppendProperties
  <2>2. QED
    BY <1>1, <2>1, IdeaOf DEF Moved
<1>11. key \in Narrow \/ key \in {"Enter", "Backspace", "CtrlA", "Up", "Down", "Right", "Left"}
  BY DEF CalmKeys, AllKeys, Letters, Narrow
<1>12. QED
  BY <1>1, <1>3, <1>4, <1>5, <1>7, <1>8, <1>9, <1>10, <1>11, Pressed

-----------------------------------------------------------------------------
(* Bytes that have been sent and not yet made anything of: they belong to   *)
(* keys that lead from one idea to another.                                 *)
Keyed(n, ks, ss, ms) ==
    /\ ks \in [1..n -> CalmKeys] /\ ss \in [0..n -> Seq(Bytes)] /\ ms \in [0..n -> Ideas]
    /\ \A i \in 1..n : /\ ss[i - 1] = BytesOf(ks[i]) \o ss[i]
                       /\ ms[i] = Press(ms[i - 1], ks[i])

Decodes(s, m, t) ==
    \E n \in Nat : \E ks, ss, ms :
        /\ Keyed(n, ks, ss, ms)
        /\ ss[0] = s /\ ss[n] = <<>> /\ ms[0] = m /\ ms[n] = t

LEMMA DecodesTypes ==
    ASSUME NEW s, NEW m, NEW t, Decodes(s, m, t)
    PROVE  s \in Seq(Bytes) /\ m \in Ideas /\ t \in Ideas
<1>0. PICK n \in Nat : \E ks, ss, ms :
          Keyed(n, ks, ss, ms) /\ ss[0] = s /\ ms[0] = m /\ ms[n] = t
  BY DEF Decodes
<1>1. PICK ks, ss, ms :
          Keyed(n, ks, ss, ms) /\ ss[0] = s /\ ms[0] = m /\ ms[n] = t
  BY <1>0
<1>2. 0 \in 0..n /\ n \in 0..n
  OBVIOUS
<1>3. QED
  BY <1>1, <1>2 DEF Keyed

LEMMA DecodesNothing ==
    ASSUME NEW m \in Ideas
    PROVE  Decodes(<<>>, m, m)
<1> DEFINE ks == [i \in 1..0 |-> "Enter"]
           ss == [i \in 0..0 |-> <<>>]
           ms == [i \in 0..0 |-> m]
<1>1. <<>> \in Seq(Bytes)
  OBVIOUS
<1>2. Keyed(0, ks, ss, ms)
  BY <1>1 DEF Keyed
<1>3. ss[0] = <<>> /\ ms[0] = m
  OBVIOUS
<1>4. QED
  <2> HIDE DEF ks, ss, ms
  <2>1. 0 \in Nat
    OBVIOUS
  <2>2. QED
    BY <1>2, <1>3, <2>1 DEF Decodes

(* One more key at the end.                                                 *)
LEMMA DecodesMore ==
    ASSUME NEW s, NEW m, NEW t, Decodes(s, m, t), NEW key \in CalmKeys
    PROVE  Decodes(s \o BytesOf(key), m, Press(t, key))
<1>0. PICK n \in Nat : \E ks, ss, ms :
          Keyed(n, ks, ss, ms) /\ ss[0] = s /\ ss[n] = <<>> /\ ms[0] = m /\ ms[n] = t
  BY DEF Decodes
<1>1. PICK ks, ss, ms :
          Keyed(n, ks, ss, ms) /\ ss[0] = s /\ ss[n] = <<>> /\ ms[0] = m /\ ms[n] = t
  BY <1>0
<1>2. PICK b \in Seq(Bytes) : b = BytesOf(key)
  BY KeyBytesType DEF CalmKeys
<1>3. PICK p \in Ideas : p = Press(t, key)
  BY DecodesTypes, PressIdeas
<1> DEFINE kx == [i \in 1..(n + 1) |-> IF i = n + 1 THEN key ELSE ks[i]]
           sx == [i \in 0..(n + 1) |-> IF i = n + 1 THEN <<>> ELSE ss[i] \o b]
           mx == [i \in 0..(n + 1) |-> IF i = n + 1 THEN p ELSE ms[i]]
<1>4. /\ ks \in [1..n -> CalmKeys] /\ ss \in [0..n -> Seq(Bytes)] /\ ms \in [0..n -> Ideas]
      /\ \A i \in 1..n : ss[i - 1] = BytesOf(ks[i]) \o ss[i] /\ ms[i] = Press(ms[i - 1], ks[i])
  BY <1>1 DEF Keyed
<1>5. \A i \in 0..n : i \in 0..(n + 1) /\ i # n + 1 /\ ss[i] \o b \in Seq(Bytes)
  <2> TAKE i \in 0..n
  <2>1. ss[i] \in Seq(Bytes)
    BY <1>4
  <2>2. ss[i] \o b \in Seq(Bytes)
    BY <2>1, ConcatProperties
  <2>3. QED
    BY <2>2
<1>6. <<>> \in Seq(Bytes) /\ n + 1 \in 0..(n + 1) /\ n + 1 \in 1..(n + 1) /\ n \in 0..n /\ 0 \in 0..n
      /\ (n + 1) - 1 = n
  OBVIOUS
<1>7. \A i \in 0..(n + 1) : i = n + 1 \/ i \in 0..n
  OBVIOUS
<1>8. \A i \in 1..(n + 1) : i = n + 1 \/ i \in 1..n
  OBVIOUS
<1>9. kx \in [1..(n + 1) -> CalmKeys]
  BY <1>4, <1>8
<1>10. sx \in [0..(n + 1) -> Seq(Bytes)]
  BY <1>5, <1>6, <1>7
<1>11. mx \in [0..(n + 1) -> Ideas]
  BY <1>4, <1>7
<1>12. \A i \in 0..n : sx[i] = ss[i] \o b /\ mx[i] = ms[i]
  BY <1>5
<1>13. sx[n + 1] = <<>> /\ mx[n + 1] = p /\ kx[n + 1] = key
  BY <1>6
<1>14. \A i \in 1..n : kx[i] = ks[i] /\ i \in 0..n /\ i - 1 \in 0..n
  <2> TAKE i \in 1..n
  <2>1. i \in 1..(n + 1) /\ i # n + 1 /\ i \in 0..n /\ i - 1 \in 0..n
    OBVIOUS
  <2>2. QED
    BY <2>1
<1> HIDE DEF kx, sx, mx
<1>15. ASSUME NEW i \in 1..(n + 1)
       PROVE  sx[i - 1] = BytesOf(kx[i]) \o sx[i] /\ mx[i] = Press(mx[i - 1], kx[i])
  <2>1. CASE i = n + 1
    <3>1. sx[n] = <<>> \o b /\ mx[n] = t
      BY <1>1, <1>6, <1>12
    <3>2. <<>> \o b = b /\ b \o <<>> = b
      BY ConcatEmptySeq
    <3>3. i - 1 = n
      BY <2>1
    <3>4. QED
      BY <1>2, <1>3, <1>13, <2>1, <3>1, <3>2, <3>3, Zenon
  <2>2. CASE i \in 1..n
    <3>1. PICK j \in 0..n : j = i - 1
      BY <1>14, <2>2
    <3>2. sx[j] = ss[j] \o b /\ mx[j] = ms[j] /\ sx[i] = ss[i] \o b /\ mx[i] = ms[i] /\ kx[i] = ks[i]
      BY <1>12, <1>14, <2>2, Zenon
    <3>3. PICK a \in Seq(Bytes), c \in Seq(Bytes) : a = BytesOf(ks[i]) /\ c = ss[i]
      <4>1. ks[i] \in AllKeys /\ ss[i] \in Seq(Bytes)
        BY <1>4, <1>14, <2>2 DEF CalmKeys
      <4>2. BytesOf(ks[i]) \in Seq(Bytes)
        BY <4>1, KeyBytesType
      <4>3. QED
        BY <4>1, <4>2
    <3>4. ss[j] = a \o c /\ ms[i] = Press(ms[j], ks[i])
      BY <1>4, <2>2, <3>1, <3>3, Zenon
    <3>5. (a \o c) \o b = a \o (c \o b)
      BY ConcatAssociative
    <3>6. sx[j] = a \o (c \o b)
      BY <3>2, <3>4, <3>5, Zenon
    <3>7. QED
      BY <3>1, <3>2, <3>3, <3>4, <3>6, Zenon
  <2>3. QED
    BY <1>8, <2>1, <2>2
<1>16. Keyed(n + 1, kx, sx, mx)
  BY <1>9, <1>10, <1>11, <1>15, Zenon DEF Keyed
<1>17. sx[0] = s \o b /\ mx[0] = m /\ n + 1 \in Nat
  <2>1. n + 1 \in Nat
    OBVIOUS
  <2>2. QED
    BY <1>1, <1>6, <1>12, <2>1, Zenon
<1>18. QED
  <2>1. Decodes(s \o b, m, p)
    BY <1>13, <1>16, <1>17, Zenon DEF Decodes
  <2>2. QED
    BY <1>2, <1>3, <2>1, Zenon

(* The first key taken off.                                                 *)
LEMMA DecodesFirst ==
    ASSUME NEW s, NEW m, NEW t, Decodes(s, m, t), s # <<>>
    PROVE  \E key \in CalmKeys, rest \in Seq(Bytes) :
               /\ s = BytesOf(key) \o rest
               /\ Decodes(rest, Press(m, key), t)
<1>0. PICK n \in Nat : \E ks, ss, ms :
          Keyed(n, ks, ss, ms) /\ ss[0] = s /\ ss[n] = <<>> /\ ms[0] = m /\ ms[n] = t
  BY DEF Decodes
<1>1. PICK ks, ss, ms :
          Keyed(n, ks, ss, ms) /\ ss[0] = s /\ ss[n] = <<>> /\ ms[0] = m /\ ms[n] = t
  BY <1>0
<1>2. n # 0
  BY <1>1
<1>3. PICK k \in Nat : n = k + 1 /\ k = n - 1
  BY <1>2
<1> DEFINE kx == [i \in 1..k |-> ks[i + 1]]
           sx == [i \in 0..k |-> ss[i + 1]]
           mx == [i \in 0..k |-> ms[i + 1]]
<1>4. /\ ks \in [1..n -> CalmKeys] /\ ss \in [0..n -> Seq(Bytes)] /\ ms \in [0..n -> Ideas]
      /\ \A i \in 1..n : ss[i - 1] = BytesOf(ks[i]) \o ss[i] /\ ms[i] = Press(ms[i - 1], ks[i])
  BY <1>1 DEF Keyed
<1>5. /\ \A i \in 1..k : i + 1 \in 1..n /\ (i + 1) - 1 = (i - 1) + 1 /\ i \in 0..k /\ i - 1 \in 0..k
      /\ \A i \in 0..k : i + 1 \in 0..n
      /\ 1 \in 1..n /\ 1 - 1 = 0 /\ 0 + 1 = 1 /\ 0 \in 0..k /\ k \in 0..k
  BY <1>3
<1>6. kx \in [1..k -> CalmKeys] /\ sx \in [0..k -> Seq(Bytes)] /\ mx \in [0..k -> Ideas]
  BY <1>4, <1>5
<1>7. /\ \A i \in 1..k : kx[i] = ks[i + 1]
      /\ \A i \in 0..k : sx[i] = ss[i + 1] /\ mx[i] = ms[i + 1]
  OBVIOUS
<1> HIDE DEF kx, sx, mx
<1>8. \A i \in 1..k : sx[i - 1] = BytesOf(kx[i]) \o sx[i] /\ mx[i] = Press(mx[i - 1], kx[i])
  <2> TAKE i \in 1..k
  <2>1. PICK j \in 1..n : j = i + 1 /\ j - 1 = (i - 1) + 1
    BY <1>5
  <2>2. ss[j - 1] = BytesOf(ks[j]) \o ss[j] /\ ms[j] = Press(ms[j - 1], ks[j])
    BY <1>4
  <2>3. /\ sx[i - 1] = ss[j - 1] /\ mx[i - 1] = ms[j - 1]
        /\ sx[i] = ss[j] /\ mx[i] = ms[j] /\ kx[i] = ks[j]
    BY <1>5, <1>7, <2>1, Zenon
  <2>4. QED
    BY <2>2, <2>3, Zenon
<1>9. Keyed(k, kx, sx, mx)
  BY <1>6, <1>8, Zenon DEF Keyed
<1>10. /\ sx[0] = ss[1] /\ mx[0] = ms[1] /\ sx[k] = <<>> /\ mx[k] = t
  BY <1>1, <1>3, <1>5, <1>7
<1>11. Decodes(ss[1], ms[1], t)
  BY <1>9, <1>10, Zenon DEF Decodes
<1>12. s = BytesOf(ks[1]) \o ss[1] /\ ms[1] = Press(m, ks[1])
  BY <1>1, <1>4, <1>5
<1>13. ks[1] \in CalmKeys /\ ss[1] \in Seq(Bytes)
  BY <1>4, <1>5
<1>14. QED
  BY <1>11, <1>12, <1>13

LEMMA SameStart ==
    ASSUME NEW S, NEW a \in Seq(S), NEW b \in Seq(S), NEW c \in Seq(S), NEW d \in Seq(S),
           a \o b = c \o d, Len(a) = Len(c)
    PROVE  a = c /\ b = d
<1> DEFINE Holds(s, x, y) == /\ Len(s) = Len(x) + Len(y)
                             /\ \A i \in 1..Len(x) : s[i] = x[i]
                             /\ \A i \in 1..Len(y) : s[Len(x) + i] = y[i]
<1>1. ASSUME NEW x \in Seq(S), NEW y \in Seq(S) PROVE Holds(x \o y, x, y)
  <2>1. /\ Len(x \o y) = Len(x) + Len(y)
        /\ \A i \in 1..(Len(x) + Len(y)) : (x \o y)[i] = IF i <= Len(x) THEN x[i] ELSE y[i - Len(x)]
    BY ConcatProperties
  <2>2. PICK m \in Nat, n \in Nat : m = Len(x) /\ n = Len(y)
    OBVIOUS
  <2>3. \A i \in 1..m : i <= m /\ i \in 1..(m + n)
    OBVIOUS
  <2>4. \A i \in 1..n : ~(m + i <= m) /\ m + i \in 1..(m + n) /\ (m + i) - m = i
    OBVIOUS
  <2>5. QED
    BY <2>1, <2>2, <2>3, <2>4
<1> HIDE DEF Holds
<1>2. PICK s, n : s = a \o b /\ s = c \o d /\ n = Len(a) /\ n = Len(c)
  OBVIOUS
<1>3. Holds(s, a, b) /\ Holds(s, c, d)
  <2>1. Holds(a \o b, a, b) /\ Holds(c \o d, c, d)
    BY <1>1
  <2>2. QED
    BY <1>2, <2>1, Zenon
<1>4. Len(b) \in Nat /\ Len(d) \in Nat /\ n \in Nat
  BY <1>2
<1>5. Len(b) = Len(d)
  <2>1. Len(s) = n + Len(b) /\ Len(s) = n + Len(d)
    BY <1>2, <1>3, Zenon DEF Holds
  <2>2. QED
    BY <1>4, <2>1
<1>6. \A i \in 1..Len(a) : a[i] = c[i]
  BY <1>2, <1>3, Zenon DEF Holds
<1>7. \A i \in 1..Len(b) : b[i] = d[i]
  BY <1>2, <1>3, <1>5, Zenon DEF Holds
<1>8. QED
  <2>1. a = c
    BY <1>6, SeqEqual
  <2>2. b = d
    BY <1>5, <1>7, SeqEqual
  <2>3. QED
    BY <2>1, <2>2

LEMMA Starts ==
    ASSUME NEW S, NEW a \in Seq(S), NEW b \in Seq(S)
    PROVE  /\ Len(a \o b) = Len(a) + Len(b)
           /\ Len(a) \in Nat /\ Len(b) \in Nat
           /\ \A i \in 1..Len(a) : (a \o b)[i] = a[i]
<1>1. /\ Len(a \o b) = Len(a) + Len(b)
      /\ \A i \in 1..(Len(a) + Len(b)) : (a \o b)[i] = IF i <= Len(a) THEN a[i] ELSE b[i - Len(a)]
  BY ConcatProperties
<1>2. Len(a) \in Nat /\ Len(b) \in Nat
  OBVIOUS
<1>3. \A i \in 1..Len(a) : i <= Len(a) /\ i \in 1..(Len(a) + Len(b))
  BY <1>2
<1>4. QED
  BY <1>1, <1>2, <1>3

(* The first key of a stream, and whether it is an arrow.                   *)
Begins(s, m, t, key, b, rest) ==
    /\ s = b \o rest /\ b = BytesOf(key) /\ Decodes(rest, Press(m, key), t)
    /\ key \in Arrows <=> s[1] = "ESC"
    /\ key \in Arrows =>
          /\ Len(b) = 3 /\ Len(s) >= 3 /\ s[2] = "bracket"
          /\ b = <<"ESC", "bracket", s[3]>> /\ s[3] \in Bytes
    /\ key \notin Arrows => b = <<ByteOfKey(key)>> /\ s[1] = ByteOfKey(key)

LEMMA FirstKey ==
    ASSUME NEW s, NEW m, NEW t, Decodes(s, m, t), s # <<>>
    PROVE  \E key \in CalmKeys, b \in Seq(Bytes), rest \in Seq(Bytes) : Begins(s, m, t, key, b, rest)
<1>1. PICK key \in CalmKeys, rest \in Seq(Bytes) :
          s = BytesOf(key) \o rest /\ Decodes(rest, Press(m, key), t)
  BY DecodesFirst
<1>2. PICK b \in Seq(Bytes) : b = BytesOf(key) /\ Len(b) >= 1
  BY KeyBytesType DEF CalmKeys
<1>3. s = b \o rest
  BY <1>1, <1>2
<1>4. Len(s) = Len(b) + Len(rest) /\ Len(b) \in Nat /\ Len(rest) \in Nat
      /\ \A i \in 1..Len(b) : s[i] = b[i]
  BY <1>3, Starts
<1>5. CASE key \in Arrows
  <2>1. PICK x \in Bytes : b = <<"ESC", "bracket", x>>
    BY <1>2, <1>5, ArrowBytes
  <2>2. Len(b) = 3 /\ b[1] = "ESC" /\ b[2] = "bracket" /\ b[3] = x
    BY <2>1
  <2>3. s[1] = b[1] /\ s[2] = b[2] /\ s[3] = b[3] /\ Len(s) >= 3
    BY <1>4, <2>2
  <2>4. b = <<"ESC", "bracket", s[3]>> /\ s[3] \in Bytes
    BY <2>1, <2>2, <2>3, Zenon
  <2>5. QED
    BY <1>1, <1>2, <1>3, <1>5, <2>2, <2>3, <2>4, Zenon DEF Begins
<1>6. CASE key \notin Arrows
  <2>1. b = <<ByteOfKey(key)>> /\ ByteOfKey(key) # "ESC"
    BY <1>2, <1>6, PlainBytes
  <2>2. b[1] = ByteOfKey(key) /\ s[1] = b[1]
    <3>1. b[1] = ByteOfKey(key)
      BY <2>1
    <3>2. 1 \in 1..Len(b)
      BY <1>2, <1>4
    <3>3. QED
      BY <1>4, <3>1, <3>2
  <2>3. QED
    BY <1>1, <1>2, <1>3, <1>6, <2>1, <2>2, Zenon DEF Begins
<1>7. QED
  BY <1>5, <1>6

(* Between two keys.                                                        *)
LEMMA PeelPlain ==
    ASSUME NEW q \in Seq(Bytes), NEW w \in Seq(Bytes), q # <<>>,
           NEW m, NEW t, Decodes(q \o w, m, t)
    PROVE  \/ Head(q) = "ESC"
           \/ \E key \in CalmKeys \ Arrows :
                  Head(q) = ByteOfKey(key) /\ Decodes(Tail(q) \o w, Press(m, key), t)
<1>1. PICK h \in Bytes, tl \in Seq(Bytes), a \in Seq(Bytes) :
          h = Head(q) /\ tl = Tail(q) /\ a = <<h>> /\ q = a \o tl
  <2>1. Head(q) \in Bytes /\ Tail(q) \in Seq(Bytes) /\ <<Head(q)>> \in Seq(Bytes)
        /\ q = <<Head(q)>> \o Tail(q)
    BY HeadFirst
  <2>2. QED
    BY <2>1, Zenon
<1>2. PICK y \in Seq(Bytes) : y = tl \o w
  <2>1. tl \o w \in Seq(Bytes)
    BY ConcatProperties
  <2>2. QED
    BY <2>1
<1>3. PICK s \in Seq(Bytes) : s = q \o w /\ s = a \o y
  <2>1. (a \o tl) \o w = a \o y
    BY <1>2, ConcatAssociative, SMTT(30)
  <2>2. a \o y \in Seq(Bytes)
    BY ConcatProperties
  <2>3. QED
    BY <1>1, <2>1, <2>2, Zenon
<1>4. Len(a) = 1 /\ a[1] = h
  BY <1>1
<1>5. s[1] = h /\ s # <<>>
  <2>1. Len(s) = Len(a) + Len(y) /\ Len(y) \in Nat /\ \A i \in 1..Len(a) : s[i] = a[i]
    BY <1>3, Starts
  <2>2. QED
    BY <1>4, <2>1
<1>6. PICK key \in CalmKeys, b \in Seq(Bytes), rest \in Seq(Bytes) : Begins(s, m, t, key, b, rest)
  <2>1. Decodes(s, m, t)
    BY <1>3
  <2>2. QED
    BY <1>5, <2>1, FirstKey, Zenon
<1>7. CASE key \in Arrows
  BY <1>1, <1>5, <1>6, <1>7, Zenon DEF Begins
<1>8. CASE key \notin Arrows
  <2>0. s = b \o rest /\ Decodes(rest, Press(m, key), t)
        /\ b = <<ByteOfKey(key)>> /\ s[1] = ByteOfKey(key)
    BY <1>6, <1>8, Zenon DEF Begins
  <2>1. h = ByteOfKey(key) /\ b = a
    BY <1>1, <1>5, <2>0, Zenon
  <2>2. a \o y = b \o rest /\ Len(a) = Len(b)
    BY <1>3, <2>0, <2>1
  <2>3. rest = y
    BY <2>2, SameStart
  <2>4. QED
    BY <1>1, <1>2, <1>8, <2>0, <2>1, <2>3, Zenon
<1>9. QED
  BY <1>7, <1>8

(* Behind the first byte of an escape sequence, and behind the second.      *)
LEMMA PeelEsc ==
    ASSUME NEW q \in Seq(Bytes), NEW w \in Seq(Bytes), q # <<>>,
           NEW m, NEW t, Decodes(<<"ESC">> \o (q \o w), m, t)
    PROVE  Head(q) = "bracket"
<1>1. PICK d \in Seq(Bytes), h \in Bytes, c \in Seq(Bytes), y \in Seq(Bytes) :
          /\ d = <<"ESC">> /\ h = Head(q) /\ c = d \o <<h>> /\ y = Tail(q) \o w
          /\ d \o (q \o w) = c \o y
  <2>1. "ESC" \in Bytes
    BY DEF Bytes, Plain
  <2>2. PICK d \in Seq(Bytes) : d = <<"ESC">>
    BY <2>1, ShortSeqs, Zenon
  <2>3. Head(q) \in Bytes /\ Tail(q) \in Seq(Bytes) /\ <<Head(q)>> \in Seq(Bytes)
    BY HeadFirst
  <2>4. d \o (q \o w) = (d \o <<Head(q)>>) \o (Tail(q) \o w)
    BY Handed, SMTT(30)
  <2>5. d \o <<Head(q)>> \in Seq(Bytes) /\ Tail(q) \o w \in Seq(Bytes)
    BY <2>3, ConcatProperties
  <2>6. QED
    BY <2>2, <2>3, <2>4, <2>5, Zenon
<1>2. Len(c) = 2 /\ c[1] = "ESC" /\ c[2] = h
  BY <1>1
<1>3. PICK s \in Seq(Bytes) : s = c \o y /\ Decodes(s, m, t)
  <2>1. c \o y \in Seq(Bytes)
    BY ConcatProperties
  <2>2. Decodes(c \o y, m, t)
    BY <1>1, Zenon
  <2>3. QED
    BY <2>1, <2>2
<1>4. s[1] = "ESC" /\ s[2] = h /\ s # <<>>
  <2>1. Len(s) = Len(c) + Len(y) /\ Len(y) \in Nat /\ \A i \in 1..Len(c) : s[i] = c[i]
    BY <1>3, Starts
  <2>2. QED
    BY <1>2, <2>1
<1>5. s[2] = "bracket"
  BY <1>3, <1>4, FirstKey, Zenon DEF Begins
<1>6. QED
  BY <1>1, <1>4, <1>5

LEMMA PeelCsi ==
    ASSUME NEW q \in Seq(Bytes), NEW w \in Seq(Bytes), q # <<>>,
           NEW m, NEW t, Decodes(<<"ESC", "bracket">> \o (q \o w), m, t)
    PROVE  \E key \in Arrows :
               /\ BytesOf(key) = <<"ESC", "bracket", Head(q)>>
               /\ Decodes(Tail(q) \o w, Press(m, key), t)
<1>1. PICK d \in Seq(Bytes), h \in Bytes, c \in Seq(Bytes), y \in Seq(Bytes) :
          /\ d = <<"ESC", "bracket">> /\ h = Head(q) /\ c = d \o <<h>> /\ y = Tail(q) \o w
          /\ d \o (q \o w) = c \o y
  <2>1. "ESC" \in Bytes /\ "bracket" \in Bytes
    BY DEF Bytes, Plain
  <2>2. PICK d \in Seq(Bytes) : d = <<"ESC", "bracket">>
    BY <2>1, ShortSeqs, Zenon
  <2>3. Head(q) \in Bytes /\ Tail(q) \in Seq(Bytes) /\ <<Head(q)>> \in Seq(Bytes)
    BY HeadFirst
  <2>4. d \o (q \o w) = (d \o <<Head(q)>>) \o (Tail(q) \o w)
    BY Handed, SMTT(30)
  <2>5. d \o <<Head(q)>> \in Seq(Bytes) /\ Tail(q) \o w \in Seq(Bytes)
    BY <2>3, ConcatProperties
  <2>6. QED
    BY <2>2, <2>3, <2>4, <2>5, Zenon
<1>2. Len(c) = 3 /\ c[1] = "ESC" /\ c[2] = "bracket" /\ c[3] = h
  BY <1>1
<1>3. PICK s \in Seq(Bytes) : s = c \o y /\ Decodes(s, m, t)
  <2>1. c \o y \in Seq(Bytes)
    BY ConcatProperties
  <2>2. Decodes(c \o y, m, t)
    BY <1>1, Zenon
  <2>3. QED
    BY <2>1, <2>2
<1>4. s[1] = "ESC" /\ s[3] = h /\ s # <<>>
  <2>1. Len(s) = Len(c) + Len(y) /\ Len(y) \in Nat /\ \A i \in 1..Len(c) : s[i] = c[i]
    BY <1>3, Starts
  <2>2. QED
    BY <1>2, <2>1
<1>5. PICK key \in CalmKeys, b \in Seq(Bytes), rest \in Seq(Bytes) :
          /\ s = b \o rest /\ b = BytesOf(key) /\ Decodes(rest, Press(m, key), t)
          /\ key \in Arrows /\ Len(b) = 3 /\ b = <<"ESC", "bracket", s[3]>>
  <2>1. PICK key \in CalmKeys, b \in Seq(Bytes), rest \in Seq(Bytes) : Begins(s, m, t, key, b, rest)
    BY <1>3, <1>4, FirstKey, Zenon
  <2>2. /\ s = b \o rest /\ b = BytesOf(key) /\ Decodes(rest, Press(m, key), t)
        /\ key \in Arrows /\ Len(b) = 3 /\ b = <<"ESC", "bracket", s[3]>>
    BY <1>4, <2>1, Zenon DEF Begins
  <2>3. QED
    BY <2>2, Zenon
<1>6. rest = y
  <2>1. c \o y = b \o rest /\ Len(c) = Len(b)
    BY <1>2, <1>3, <1>5
  <2>2. QED
    BY <2>1, SameStart
<1>7. QED
  BY <1>1, <1>4, <1>5, <1>6, Zenon

(* Behind the end of a line, and where nothing more is to come.             *)
LEMMA PeelEnter ==
    ASSUME NEW r \in Seq(Bytes), NEW m, NEW t, Decodes(<<"CR">> \o r, m, t)
    PROVE  Decodes(r, Press(m, "Enter"), t)
<1>1. PICK a \in Seq(Bytes) : a = <<"CR">>
  <2>1. "CR" \in Bytes
    BY DEF Bytes, Plain
  <2>2. QED
    BY <2>1, ShortSeqs, Zenon
<1>2. Len(a) = 1 /\ a[1] = "CR"
  BY <1>1
<1>3. PICK s \in Seq(Bytes) : s = a \o r /\ Decodes(s, m, t)
  <2>1. a \o r \in Seq(Bytes)
    BY ConcatProperties
  <2>2. Decodes(a \o r, m, t)
    BY <1>1, Zenon
  <2>3. QED
    BY <2>1, <2>2
<1>4. s[1] = "CR" /\ s # <<>>
  <2>1. Len(s) = Len(a) + Len(r) /\ Len(r) \in Nat /\ \A i \in 1..Len(a) : s[i] = a[i]
    BY <1>3, Starts
  <2>2. QED
    BY <1>2, <2>1
<1>5. PICK key \in CalmKeys, b \in Seq(Bytes), rest \in Seq(Bytes) : Begins(s, m, t, key, b, rest)
  BY <1>3, <1>4, FirstKey, Zenon
<1>6. /\ s = b \o rest /\ Decodes(rest, Press(m, key), t)
      /\ key \notin Arrows /\ ByteOfKey(key) = "CR" /\ b = a
  <2>1. key \notin Arrows
    BY <1>4, <1>5 DEF Begins
  <2>2. QED
    BY <1>1, <1>4, <1>5, <2>1, Zenon DEF Begins
<1>7. key = "Enter"
  <2>1. key \in {"a", "blank", "Enter", "Backspace", "CtrlA"}
    BY <1>6, PlainBytes
  <2>2. QED
    BY <1>6, <2>1 DEF ByteOfKey
<1>8. rest = r
  <2>1. a \o r = b \o rest /\ Len(a) = Len(b)
    BY <1>3, <1>6
  <2>2. QED
    BY <2>1, SameStart
<1>9. QED
  BY <1>6, <1>7, <1>8

LEMMA PeelEmpty ==
    ASSUME NEW m, NEW t, Decodes(<<>>, m, t)
    PROVE  m = t
<1>0. PICK n \in Nat : \E ks, ss, ms :
          Keyed(n, ks, ss, ms) /\ ss[0] = <<>> /\ ss[n] = <<>> /\ ms[0] = m /\ ms[n] = t
  BY DEF Decodes
<1>1. PICK ks, ss, ms :
          Keyed(n, ks, ss, ms) /\ ss[0] = <<>> /\ ss[n] = <<>> /\ ms[0] = m /\ ms[n] = t
  BY <1>0
<1>2. CASE n = 0
  BY <1>1, <1>2
<1>3. CASE n # 0
  <2>1. 1 \in 1..n /\ 1 - 1 = 0 /\ 1 \in 0..n
    BY <1>3
  <2>2. ks[1] \in CalmKeys /\ ss[1] \in Seq(Bytes) /\ ss[0] = BytesOf(ks[1]) \o ss[1]
    BY <1>1, <2>1 DEF Keyed
  <2>3. PICK b \in Seq(Bytes) : b = BytesOf(ks[1]) /\ Len(b) >= 1
    BY <2>2, KeyBytesType DEF CalmKeys
  <2>4. Len(b \o ss[1]) = Len(b) + Len(ss[1]) /\ Len(b) \in Nat /\ Len(ss[1]) \in Nat
    BY <2>2, Starts
  <2>5. b \o ss[1] = <<>>
    BY <1>1, <2>2, <2>3, Zenon
  <2>6. QED
    BY <2>3, <2>4, <2>5
<1>4. QED
  BY <1>2, <1>3

LEMMA PeelStuck ==
    ASSUME NEW s \in Seq(Bytes), NEW m, NEW t, Decodes(s, m, t), s # <<>>, s[1] = "ESC"
    PROVE  Len(s) >= 3
  BY FirstKey, Zenon DEF Begins

-----------------------------------------------------------------------------
(* A line without wide characters, as what is left and right of the cursor. *)
LEMMA NarrowLine ==
    ASSUME NEW s \in Seq(Narrow)
    PROVE  /\ ByteLen(s) = Len(s)
           /\ \A k \in 0..Len(s) : IsBoundary(s, k) /\ Before(s, k) = k
<1>1. \A i \in DOMAIN s : s[i] # "w"
  BY DEF Narrow
<1>2. ByteLen(s) = Len(s)
  BY <1>1, ByteLenNarrow
<1>3. \A k \in 0..Len(s) : IsBoundary(s, k) /\ Before(s, k) = k
  BY <1>1, NarrowBoundary
<1>4. QED
  BY <1>2, <1>3

LEMMA Typing ==
    ASSUME NEW l \in Seq(Narrow), NEW r \in Seq(Narrow), NEW c \in Narrow
    PROVE  /\ IsBoundary(l \o r, Len(l))
           /\ Inserted(l \o r, Len(l), c) = Append(l, c) \o r
           /\ Append(l, c) \in Seq(Narrow) /\ Len(Append(l, c)) = Len(l) + 1
<1>1. PICK s \in Seq(Narrow) : s = l \o r
  <2>1. l \o r \in Seq(Narrow)
    BY ConcatProperties
  <2>2. QED
    BY <2>1, Zenon
<1>2. SubSeq(s, 1, Len(l)) = l /\ SubSeq(s, Len(l) + 1, Len(s)) = r /\ Len(l) \in 0..Len(s)
  <2>1. SubSeq(l \o r, 1, Len(l)) = l /\ SubSeq(l \o r, Len(l) + 1, Len(l \o r)) = r
        /\ Len(l) \in 0..Len(l \o r)
    BY Pieces
  <2>2. QED
    BY <1>1, <2>1, Zenon
<1>3. IsBoundary(s, Len(l)) /\ Before(s, Len(l)) = Len(l)
  BY <1>2, NarrowLine
<1>4. Inserted(s, Len(l), c) = l \o <<c>> \o r
  BY <1>2, <1>3, Zenon DEF Inserted
<1>5. l \o <<c>> = Append(l, c)
  BY AppendIsConcat
<1>6. Append(l, c) \in Seq(Narrow) /\ Len(Append(l, c)) = Len(l) + 1
  BY AppendProperties
<1>7. QED
  BY <1>1, <1>3, <1>4, <1>5, <1>6, Zenon

LEMMA Erasing ==
    ASSUME NEW l \in Seq(Narrow), NEW r \in Seq(Narrow), l # <<>>
    PROVE  /\ IsBoundary(l \o r, Len(l) - 1)
           /\ Removed(l \o r, Len(l) - 1) = Front(l) \o r
           /\ Front(l) \in Seq(Narrow) /\ Len(Front(l)) = Len(l) - 1 /\ Len(l) \in Nat \ {0}
<1>1. PICK f \in Seq(Narrow), e \in Seq(Narrow) :
          f = Front(l) /\ e = <<Last(l)>> /\ Len(f) = Len(l) - 1 /\ l = f \o e /\ Len(e) = 1
  <2>1. Front(l) \in Seq(Narrow) /\ Last(l) \in Narrow /\ <<Last(l)>> \in Seq(Narrow)
        /\ Len(Front(l)) = Len(l) - 1 /\ l = Front(l) \o <<Last(l)>>
    BY FrontFacts
  <2>2. Len(<<Last(l)>>) = 1
    BY <2>1, One
  <2>3. QED
    BY <2>1, <2>2, Zenon
<1>2. Len(l) \in Nat \ {0}
  BY FrontFacts
<1>3. PICK s \in Seq(Narrow) : s = l \o r
  <2>1. l \o r \in Seq(Narrow)
    BY ConcatProperties
  <2>2. QED
    BY <2>1, Zenon
<1>4. /\ SubSeq(s, 1, Len(l)) = l /\ SubSeq(s, Len(l) + 1, Len(s)) = r /\ Len(l) \in 0..Len(s)
  <2>1. SubSeq(l \o r, 1, Len(l)) = l /\ SubSeq(l \o r, Len(l) + 1, Len(l \o r)) = r
        /\ Len(l) \in 0..Len(l \o r)
    BY Pieces
  <2>2. QED
    BY <1>3, <2>1, Zenon
<1>5. PICK y \in Seq(Narrow) : y = e \o r
  <2>1. e \o r \in Seq(Narrow)
    BY ConcatProperties
  <2>2. QED
    BY <2>1, Zenon
<1>6. s = f \o y
  <2>1. (f \o e) \o r = f \o (e \o r)
    BY ConcatAssociative, SMTT(30)
  <2>2. QED
    BY <1>1, <1>3, <1>5, <2>1, Zenon
<1>7. SubSeq(s, 1, Len(f)) = f
  <2>1. SubSeq(f \o y, 1, Len(f)) = f
    BY Pieces
  <2>2. QED
    BY <1>6, <2>1, Zenon
<1>8. PICK k \in 0..Len(s) : k = Len(l) - 1 /\ k = Len(f) /\ k + 1 = Len(l) /\ (k + 1) - 1 = k
                           /\ (k + 1) + 1 = Len(l) + 1
  <2>1. Len(l) - 1 \in 0..Len(s) /\ (Len(l) - 1) + 1 = Len(l)
    BY <1>2, <1>4
  <2>2. QED
    BY <1>1, <1>2, <2>1
<1>9. IsBoundary(s, k) /\ Before(s, k) = k
  BY NarrowLine
<1>10. Removed(s, k) = SubSeq(s, 1, (k + 1) - 1) \o SubSeq(s, (k + 1) + 1, Len(s))
  BY <1>9, Zenon DEF Removed, RemoveAt
<1>11. Removed(s, k) = f \o r
  BY <1>4, <1>7, <1>8, <1>10, Zenon
<1>12. QED
  BY <1>1, <1>2, <1>3, <1>8, <1>9, <1>11, Zenon

LEMMA Leaving ==
    ASSUME NEW l \in Seq(Narrow), NEW r \in Seq(Narrow), l # <<>>
    PROVE  /\ Front(l) \in Seq(Narrow) /\ <<Last(l)>> \o r \in Seq(Narrow)
           /\ l \o r = Front(l) \o (<<Last(l)>> \o r)
           /\ Len(Front(l)) = Len(l) - 1 /\ Len(l) \in Nat \ {0}
<1>1. PICK f \in Seq(Narrow), e \in Seq(Narrow) :
          f = Front(l) /\ e = <<Last(l)>> /\ Len(f) = Len(l) - 1 /\ l = f \o e
  <2>1. Front(l) \in Seq(Narrow) /\ <<Last(l)>> \in Seq(Narrow)
        /\ Len(Front(l)) = Len(l) - 1 /\ l = Front(l) \o <<Last(l)>>
    BY FrontFacts
  <2>2. QED
    BY <2>1, Zenon
<1>2. Len(l) \in Nat \ {0}
  BY FrontFacts
<1>3. (f \o e) \o r = f \o (e \o r)
  BY ConcatAssociative
<1>4. e \o r \in Seq(Narrow)
  BY ConcatProperties
<1>5. QED
  BY <1>1, <1>2, <1>3, <1>4, Zenon

LEMMA Entering ==
    ASSUME NEW l \in Seq(Narrow), NEW r \in Seq(Narrow), r # <<>>
    PROVE  /\ Append(l, Head(r)) \in Seq(Narrow) /\ Tail(r) \in Seq(Narrow)
           /\ l \o r = Append(l, Head(r)) \o Tail(r)
           /\ Len(Append(l, Head(r))) = Len(l) + 1 /\ Len(l) < Len(l \o r)
<1>1. PICK h \in Narrow, e \in Seq(Narrow), t \in Seq(Narrow) :
          h = Head(r) /\ e = <<h>> /\ t = Tail(r) /\ r = e \o t
  <2>1. Head(r) \in Narrow /\ Tail(r) \in Seq(Narrow) /\ <<Head(r)>> \in Seq(Narrow)
        /\ r = <<Head(r)>> \o Tail(r)
    BY HeadFirst
  <2>2. QED
    BY <2>1, Zenon
<1>2. l \o (e \o t) = (l \o e) \o t
  BY ConcatAssociative, SMTT(30)
<1>3. l \o <<h>> = Append(l, h)
  BY AppendIsConcat
<1>4. Append(l, h) \in Seq(Narrow) /\ Len(Append(l, h)) = Len(l) + 1
  BY AppendProperties
<1>5. Len(l) < Len(l \o r)
  <2>1. Len(l \o r) = Len(l) + Len(r) /\ Len(l) \in Nat /\ Len(r) \in Nat
    BY Starts
  <2>2. Len(r) # 0
    OBVIOUS
  <2>3. QED
    BY <2>1, <2>2
<1>6. QED
  BY <1>1, <1>2, <1>3, <1>4, <1>5, Zenon

-----------------------------------------------------------------------------
(* While nothing is garbled the bytes still to be taken are those of keys   *)
(* that lead from the idea the shell shows to the one the user has.  The    *)
(* bytes of the key the shell is in the middle of count as still to come.   *)
Working == at \in {"line", "run", "wait"}

DoneOf(a, e) ==
    IF a = "run" THEN <<"CR">>
    ELSE IF e = "esc" THEN <<"ESC">>
    ELSE IF e = "csi" THEN <<"ESC", "bracket">>
    ELSE <<>>

Shown(m) ==
    /\ buffer = m.left \o m.right /\ cursor = Len(m.left)
    /\ history = m.lines /\ history_index = m.index

Reads(m) ==
    /\ ~lead /\ (at # "line" => escape = "none")
    /\ Shown(m)
    /\ Decodes(DoneOf(at, escape) \o (queue \o wire), m, meant)

ReadInv == (~garbled /\ Working) => \E m \in Ideas : Reads(m)

LEMMA DoneIs ==
    ASSUME NEW a, NEW e
    PROVE  /\ DoneOf(a, e) \in Seq(Bytes)
           /\ a = "run" => DoneOf(a, e) = <<"CR">>
           /\ a # "run" /\ e = "esc" => DoneOf(a, e) = <<"ESC">>
           /\ a # "run" /\ e = "csi" => DoneOf(a, e) = <<"ESC", "bracket">>
           /\ a # "run" /\ e = "none" => DoneOf(a, e) = <<>>
<1>1. "ESC" \in Bytes /\ "bracket" \in Bytes /\ "CR" \in Bytes
  BY DEF Bytes, Plain
<1>2. <<"CR">> \in Seq(Bytes) /\ <<"ESC">> \in Seq(Bytes) /\ <<"ESC", "bracket">> \in Seq(Bytes)
  BY <1>1, ShortSeqs, Zenon
<1>3. <<>> \in Seq(Bytes)
  OBVIOUS
<1>4. DoneOf(a, e) \in Seq(Bytes)
  BY <1>2, <1>3, Zenon DEF DoneOf
<1>5. a = "run" => DoneOf(a, e) = <<"CR">>
  BY Zenon DEF DoneOf
<1>6. a # "run" /\ e = "esc" => DoneOf(a, e) = <<"ESC">>
  BY Zenon DEF DoneOf
<1>7. a # "run" /\ e = "csi" => DoneOf(a, e) = <<"ESC", "bracket">>
  <2>1. "csi" # "esc"
    OBVIOUS
  <2>2. QED
    BY <2>1, Zenon DEF DoneOf
<1>8. a # "run" /\ e = "none" => DoneOf(a, e) = <<>>
  <2>1. "none" # "esc" /\ "none" # "csi"
    OBVIOUS
  <2>2. QED
    BY <2>1, Zenon DEF DoneOf
<1>9. QED
  BY <1>4, <1>5, <1>6, <1>7, <1>8, Zenon

LEMMA NothingDone ==
    ASSUME NEW a, a # "run", NEW q \in Seq(Bytes), NEW w \in Seq(Bytes)
    PROVE  DoneOf(a, "none") \o (q \o w) = q \o w
<1>1. PICK y \in Seq(Bytes) : y = q \o w
  <2>1. q \o w \in Seq(Bytes)
    BY ConcatProperties
  <2>2. QED
    BY <2>1, Zenon
<1>2. <<>> \o y = y
  BY ConcatEmptySeq
<1>3. DoneOf(a, "none") = <<>>
  BY DoneIs
<1>4. QED
  BY <1>1, <1>2, <1>3, Zenon

LEMMA ReadInit ==
    ASSUME Init
    PROVE  ReadInv
<1>1. /\ wire = <<>> /\ queue = <<>> /\ meant = Blank /\ at = "line" /\ escape = "none"
      /\ ~lead /\ buffer = <<>> /\ cursor = 0 /\ history = <<>> /\ history_index = 0
  BY DEF Init
<1>2. <<>> \in Seq(Narrow) /\ <<>> \in Seq(Seq(Narrow)) /\ <<>> \in Seq(Bytes) /\ Len(<<>>) = 0
  OBVIOUS
<1>3. <<>> \o <<>> = <<>>
  BY <1>2, ConcatEmptySeq
<1>4. /\ Blank \in Ideas /\ Blank.left = <<>> /\ Blank.right = <<>>
      /\ Blank.lines = <<>> /\ Blank.index = 0
  <2>1. PICK l \in Seq(Narrow), h \in Seq(Seq(Narrow)) : l = <<>> /\ h = <<>> /\ Len(h) = 0
    BY <1>2
  <2>2. 0 \in 0..Len(h)
    BY <2>1
  <2>3. /\ Idea(l, l, h, 0) \in Ideas
        /\ Idea(l, l, h, 0).left = l /\ Idea(l, l, h, 0).right = l
        /\ Idea(l, l, h, 0).lines = h /\ Idea(l, l, h, 0).index = 0
    BY <2>2, IdeaOf
  <2>4. QED
    BY <2>1, <2>3, Zenon DEF Blank
<1>5. Shown(Blank)
  BY <1>1, <1>2, <1>3, <1>4, Zenon DEF Shown
<1>6. DoneOf("line", "none") = <<>>
  <2>1. "line" # "run"
    OBVIOUS
  <2>2. QED
    BY <2>1, DoneIs, Zenon
<1>7. DoneOf(at, escape) \o (queue \o wire) = <<>>
  BY <1>1, <1>3, <1>6, Zenon
<1>8. Decodes(<<>>, Blank, Blank)
  BY <1>4, DecodesNothing
<1>9. QED
  BY <1>1, <1>4, <1>5, <1>7, <1>8, Zenon DEF ReadInv, Reads

(* A key is pressed; its bytes come last.                                   *)
LEMMA ReadPress ==
    ASSUME ShellInv, NEW m \in Ideas, Reads(m), PressKey, ~garbled'
    PROVE  Reads(m)'
<1>1. queue \in Seq(Bytes) /\ wire = <<>>
  BY DEF ShellInv, InputInv, PressKey
<1>2. PICK key \in Keys :
          /\ wire' = BytesOf(key) /\ garbled' = (garbled \/ key = "w")
          /\ meant' = IF garbled' THEN Blank ELSE Press(meant, key)
  BY DEF PressKey
<1>3. key \in CalmKeys /\ meant' = Press(meant, key)
  <2>1. key # "w"
    BY <1>2
  <2>2. QED
    BY <1>2, <2>1, KeyAssumption DEF CalmKeys
<1>4. UNCHANGED <<queue, escape, lead, buffer, cursor, history, history_index, at>>
  BY DEF PressKey, line, main
<1>5. PICK d \in Seq(Bytes) : d = DoneOf(at, escape)
  BY DoneIs
<1>6. PICK b \in Seq(Bytes) : b = BytesOf(key)
  BY <1>3, KeyBytesType DEF CalmKeys
<1>7. Decodes(d \o queue, m, meant)
  <2>1. queue \o <<>> = queue
    BY <1>1, ConcatEmptySeq
  <2>2. d \o (queue \o wire) = d \o queue
    BY <1>1, <2>1, Zenon
  <2>3. QED
    BY <1>5, <2>2, Zenon DEF Reads
<1>8. Decodes((d \o queue) \o b, m, Press(meant, key))
  BY <1>3, <1>6, <1>7, DecodesMore, Zenon
<1>9. (d \o queue) \o b = d \o (queue \o b)
  BY <1>1, ConcatAssociative
<1>10. Decodes(d \o (queue \o b), m, meant')
  BY <1>3, <1>8, <1>9, Zenon
<1>11. DoneOf(at', escape') \o (queue' \o wire') = d \o (queue \o b)
  BY <1>2, <1>4, <1>5, <1>6, Zenon
<1>12. Shown(m)'
  BY <1>4 DEF Reads, Shown
<1>13. QED
  BY <1>4, <1>10, <1>11, <1>12, Zenon DEF Reads

(* A byte goes from the line into the queue.                                *)
LEMMA ReadSerial ==
    ASSUME ShellInv, NEW m \in Ideas, Reads(m), SerialHandler, ~garbled'
    PROVE  Reads(m)'
<1>1. /\ queue \in Seq(Bytes) /\ wire \in Seq(Bytes) /\ wire # <<>> /\ wire' = Tail(wire)
      /\ queue' = Kept(Head(wire)) /\ Len(queue) # QueueCap /\ Len(queue) <= QueueCap
  BY DEF ShellInv, InputInv, SerialHandler
<1>2. PICK h \in Bytes, e \in Seq(Bytes), t \in Seq(Bytes) :
          h = Head(wire) /\ e = <<h>> /\ t = Tail(wire) /\ wire = e \o t
  <2>1. Head(wire) \in Bytes /\ Tail(wire) \in Seq(Bytes) /\ <<Head(wire)>> \in Seq(Bytes)
        /\ wire = <<Head(wire)>> \o Tail(wire)
    BY <1>1, HeadFirst
  <2>2. QED
    BY <2>1, Zenon
<1>3. queue' = queue \o e
  <2>1. Len(queue) < QueueCap
    BY <1>1, QueueAssumption
  <2>2. queue' = Append(queue, h)
    BY <1>1, <1>2, <2>1 DEF Kept
  <2>3. Append(queue, h) = queue \o <<h>>
    BY <1>1, AppendIsConcat
  <2>4. QED
    BY <1>2, <2>2, <2>3, Zenon
<1>4. queue' \o wire' = queue \o wire
  <2>1. (queue \o e) \o t = queue \o (e \o t)
    BY <1>1, ConcatAssociative, SMTT(30)
  <2>2. QED
    BY <1>1, <1>2, <1>3, <2>1, Zenon
<1>5. UNCHANGED <<meant, escape, lead, buffer, cursor, history, history_index, at>>
  BY DEF SerialHandler, line, main
<1>6. Shown(m)'
  BY <1>5 DEF Reads, Shown
<1>7. DoneOf(at', escape') \o (queue' \o wire') = DoneOf(at, escape) \o (queue \o wire)
  BY <1>4, <1>5, Zenon
<1>8. QED
  BY <1>5, <1>6, <1>7, Zenon DEF Reads

(* What a read finds between two keys, and inside an escape sequence.       *)
LEMMA QueueIs ==
    ASSUME ShellInv, HasByte
    PROVE  queue \in Seq(Bytes) /\ queue # <<>> /\ wire \in Seq(Bytes) /\ at = "line"
           /\ Head(queue) \in Bytes /\ Tail(queue) \in Seq(Bytes) /\ Tail(queue) \o wire \in Seq(Bytes)
<1>1. queue \in Seq(Bytes) /\ queue # <<>> /\ wire \in Seq(Bytes) /\ at = "line"
  BY DEF ShellInv, InputInv, HasByte
<1>2. Head(queue) \in Bytes /\ Tail(queue) \in Seq(Bytes)
  BY <1>1, HeadTailProperties
<1>3. PICK t \in Seq(Bytes) : t = Tail(queue)
  BY <1>2, Zenon
<1>4. t \o wire \in Seq(Bytes)
  BY <1>1, ConcatProperties
<1>5. QED
  BY <1>1, <1>2, <1>3, <1>4, Zenon

LEMMA PlainRead ==
    ASSUME ShellInv, NEW m \in Ideas, Reads(m), HasByte, escape = "none"
    PROVE  /\ Head(queue) \notin {"lead", "trail"} /\ Char = Head(queue)
           /\ Decodes(queue \o wire, m, meant)
           /\ \/ Head(queue) = "ESC"
              \/ \E key \in CalmKeys \ Arrows :
                     Head(queue) = ByteOfKey(key) /\ Decodes(Tail(queue) \o wire, Press(m, key), meant)
<1>1. queue \in Seq(Bytes) /\ queue # <<>> /\ wire \in Seq(Bytes) /\ at = "line"
  BY QueueIs
<1>2. Decodes(queue \o wire, m, meant) /\ ~lead
  <2>1. DoneOf(at, escape) \o (queue \o wire) = queue \o wire
    <3>1. at # "run"
      BY <1>1
    <3>2. DoneOf(at, "none") \o (queue \o wire) = queue \o wire
      BY <1>1, <3>1, NothingDone
    <3>3. QED
      BY <3>2, Zenon
  <2>2. QED
    BY <2>1, Zenon DEF Reads
<1>3. \/ Head(queue) = "ESC"
      \/ \E key \in CalmKeys \ Arrows :
             Head(queue) = ByteOfKey(key) /\ Decodes(Tail(queue) \o wire, Press(m, key), meant)
  BY <1>1, <1>2, PeelPlain, Zenon
<1>4. Head(queue) \notin {"lead", "trail"}
  <2>1. CASE Head(queue) = "ESC"
    BY <2>1
  <2>2. CASE Head(queue) # "ESC"
    <3>1. PICK key \in CalmKeys \ Arrows : Head(queue) = ByteOfKey(key)
      BY <1>3, <2>2, Zenon
    <3>2. ByteOfKey(key) \in Bytes \ {"ESC", "trail", "lead"}
      BY <3>1, PlainBytes
    <3>3. QED
      BY <3>1, <3>2
  <2>3. QED
    BY <2>1, <2>2, Zenon
<1>5. Char = Head(queue)
  BY <1>2, <1>4 DEF Char
<1>6. QED
  BY <1>2, <1>3, <1>4, <1>5, Zenon

LEMMA EscRead ==
    ASSUME ShellInv, NEW m \in Ideas, Reads(m), HasByte, escape = "esc"
    PROVE  Head(queue) = "bracket" /\ Char = "bracket"
<1>1. queue \in Seq(Bytes) /\ queue # <<>> /\ wire \in Seq(Bytes) /\ at = "line"
  BY QueueIs
<1>2. DoneOf(at, escape) = <<"ESC">>
  BY <1>1, DoneIs
<1>3. Decodes(<<"ESC">> \o (queue \o wire), m, meant) /\ ~lead
  BY <1>2, Zenon DEF Reads
<1>4. Head(queue) = "bracket"
  BY <1>1, <1>3, PeelEsc, Zenon
<1>5. QED
  BY <1>3, <1>4 DEF Char

LEMMA CsiRead ==
    ASSUME ShellInv, NEW m \in Ideas, Reads(m), HasByte, escape = "csi"
    PROVE  /\ Head(queue) # "lead"
           /\ \E key \in Arrows :
                  /\ Char = "A" <=> key = "Up"
                  /\ Char = "B" <=> key = "Down"
                  /\ Char = "C" <=> key = "Right"
                  /\ Char = "D" <=> key = "Left"
                  /\ Decodes(Tail(queue) \o wire, Press(m, key), meant)
<1>1. queue \in Seq(Bytes) /\ queue # <<>> /\ wire \in Seq(Bytes) /\ at = "line"
  BY QueueIs
<1>2. DoneOf(at, escape) = <<"ESC", "bracket">>
  BY <1>1, DoneIs
<1>3. Decodes(<<"ESC", "bracket">> \o (queue \o wire), m, meant) /\ ~lead
  BY <1>2, Zenon DEF Reads
<1>4. PICK key \in Arrows :
          /\ BytesOf(key) = <<"ESC", "bracket", Head(queue)>>
          /\ Decodes(Tail(queue) \o wire, Press(m, key), meant)
  BY <1>1, <1>3, PeelCsi, Zenon
<1>5. PICK x \in Bytes :
          /\ BytesOf(key) = <<"ESC", "bracket", x>>
          /\ x = "A" <=> key = "Up"
          /\ x = "B" <=> key = "Down"
          /\ x = "C" <=> key = "Right"
          /\ x = "D" <=> key = "Left"
  BY ArrowBytes
<1>6. x = Head(queue)
  <2>1. PICK h : h = Head(queue)
    OBVIOUS
  <2>2. <<"ESC", "bracket", h>> = <<"ESC", "bracket", x>>
    BY <1>4, <1>5, <2>1, Zenon
  <2>3. h = x
    BY <2>2
  <2>4. QED
    BY <2>1, <2>3
<1>7. x \in {"A", "B", "C", "D"}
  BY <1>5 DEF Arrows
<1>8. Char = x /\ Head(queue) # "lead"
  BY <1>3, <1>6, <1>7 DEF Char
<1>9. QED
  BY <1>4, <1>5, <1>8, Zenon

(* Two ways to keep the invariant: the shell has finished a key, or is only *)
(* further into it.                                                         *)
LEMMA Finished ==
    ASSUME ShellInv, HasByte, NEW x \in Ideas,
           queue' = Tail(queue), wire' = wire, meant' = meant, ~lead', escape' = "none", at' = "line",
           Shown(x)', Decodes(Tail(queue) \o wire, x, meant)
    PROVE  Reads(x)'
<1>1. Tail(queue) \in Seq(Bytes) /\ wire \in Seq(Bytes)
  BY QueueIs
<1>2. at' # "run"
  OBVIOUS
<1>3. PICK t \in Seq(Bytes) : t = Tail(queue)
  BY <1>1, Zenon
<1>4. DoneOf(at', "none") \o (t \o wire) = t \o wire
  BY <1>1, <1>2, NothingDone
<1>5. QED
  BY <1>3, <1>4, Zenon DEF Reads

LEMMA HandedHere ==
    ASSUME ShellInv, HasByte, NEW d \in Seq(Bytes)
    PROVE  d \o (queue \o wire) = (d \o <<Head(queue)>>) \o (Tail(queue) \o wire)
<1>1. queue \in Seq(Bytes) /\ queue # <<>> /\ wire \in Seq(Bytes)
  BY QueueIs
<1>2. QED
  BY <1>1, Handed, SMTT(30)

LEMMA Further ==
    ASSUME ShellInv, HasByte, NEW m \in Ideas, Reads(m),
           queue' = Tail(queue), wire' = wire, meant' = meant, ~lead', at' # "line" => escape' = "none",
           Shown(m)', DoneOf(at', escape') = DoneOf(at, escape) \o <<Head(queue)>>
    PROVE  Reads(m)'
<1>2. PICK d \in Seq(Bytes) : d = DoneOf(at, escape)
  BY DoneIs
<1>3. d \o (queue \o wire) = (d \o <<Head(queue)>>) \o (Tail(queue) \o wire)
  BY HandedHere
<1>4. DoneOf(at', escape') \o (queue' \o wire') = DoneOf(at, escape) \o (queue \o wire)
  BY <1>2, <1>3, Zenon
<1>5. QED
  BY <1>4, Zenon DEF Reads

-----------------------------------------------------------------------------
(* The shell reads.                                                         *)
LEMMA NoLead ==
    ASSUME ShellInv, NEW m \in Ideas, Reads(m), HasByte
    PROVE  Head(queue) # "lead" /\ HasKey
<1>1. escape \in {"none", "esc", "csi"}
  BY DEF ShellInv, InputInv
<1>2. Head(queue) # "lead"
  <2>1. escape = "none" => Head(queue) # "lead"
    BY PlainRead
  <2>2. escape = "esc" => Head(queue) # "lead"
    BY EscRead
  <2>3. escape = "csi" => Head(queue) # "lead"
    BY CsiRead, Zenon
  <2>4. QED
    BY <1>1, <2>1, <2>2, <2>3
<1>3. QED
  BY <1>2 DEF HasKey

LEMMA Begun == <<"ESC">> \o <<"bracket">> = <<"ESC", "bracket">>
<1>1. PICK S : "ESC" \in S /\ "bracket" \in S
  <2>1. "ESC" \in {"ESC", "bracket"} /\ "bracket" \in {"ESC", "bracket"}
    OBVIOUS
  <2>2. QED
    BY <2>1, Zenon
<1>2. PICK s \in Seq(S) : s = <<"ESC">> /\ Len(s) = 1 /\ s[1] = "ESC"
  <2>1. <<"ESC">> \in Seq(S) /\ Len(<<"ESC">>) = 1 /\ <<"ESC">>[1] = "ESC"
    BY <1>1, One
  <2>2. QED
    BY <2>1, Zenon
<1>3. PICK t \in Seq(S) : t = <<"bracket">> /\ Len(t) = 1 /\ t[1] = "bracket"
  <2>1. <<"bracket">> \in Seq(S) /\ Len(<<"bracket">>) = 1 /\ <<"bracket">>[1] = "bracket"
    BY <1>1, One
  <2>2. QED
    BY <2>1, Zenon
<1>4. PICK u \in Seq(S) : u = <<"ESC", "bracket">> /\ Len(u) = 2 /\ u[1] = "ESC" /\ u[2] = "bracket"
  <2>1. <<"ESC", "bracket">> \in Seq(S)
    BY <1>1, ShortSeqs, Zenon
  <2>2. /\ Len(<<"ESC", "bracket">>) = 2
        /\ <<"ESC", "bracket">>[1] = "ESC" /\ <<"ESC", "bracket">>[2] = "bracket"
    OBVIOUS
  <2>3. QED
    BY <2>1, <2>2, Zenon
<1>5. s \o t = u
  <2>1. /\ s \o t \in Seq(S) /\ Len(s \o t) = Len(s) + Len(t)
        /\ \A i \in 1..(Len(s) + Len(t)) : (s \o t)[i] = IF i <= Len(s) THEN s[i] ELSE t[i - Len(s)]
    BY ConcatProperties
  <2>2. Len(s \o t) = 2 /\ (s \o t)[1] = "ESC" /\ (s \o t)[2] = "bracket"
    BY <1>2, <1>3, <2>1
  <2>3. \A i \in 1..Len(s \o t) : (s \o t)[i] = u[i]
    <3> TAKE i \in 1..Len(s \o t)
    <3>1. i = 1 \/ i = 2
      BY <2>2
    <3>2. QED
      BY <1>4, <2>2, <3>1, Zenon
  <2>4. QED
    BY <1>4, <2>1, <2>2, <2>3, SeqEqual
<1>6. QED
  BY <1>2, <1>3, <1>4, <1>5, Zenon

LEMMA Within ==
    ASSUME ShellInv, NEW m \in Ideas, Reads(m), EndOfLine \/ Escape \/ Bracket
    PROVE  Reads(m)'
<1>1. HasByte /\ at = "line" /\ UNCHANGED <<wire, meant, buffer, cursor, history, history_index>>
  BY DEF EndOfLine, Escape, Bracket, HasKey, HasByte, Read, line, main
<1>2. Shown(m)'
  BY <1>1 DEF Reads, Shown
<1>3. "line" # "run"
  OBVIOUS
<1>4. CASE EndOfLine
  <2>1. /\ queue' = Tail(queue) /\ ~lead' /\ at' = "run" /\ escape' = "none" /\ escape = "none" /\ Char = "CR"
    BY <1>4 DEF EndOfLine, line, Reads
  <2>2. Head(queue) = "CR"
    BY <1>1, <2>1, PlainRead
  <2>3. DoneOf(at', escape') = <<"CR">>
    BY <2>1, DoneIs
  <2>4. DoneOf(at, escape) = <<>>
    BY <1>1, <1>3, <2>1, DoneIs, Zenon
  <2>5. <<>> \o <<"CR">> = <<"CR">>
    OBVIOUS
  <2>6. DoneOf(at', escape') = DoneOf(at, escape) \o <<Head(queue)>>
    BY <2>2, <2>3, <2>4, <2>5, Zenon
  <2>7. QED
    BY <1>1, <1>2, <2>1, <2>6, Further, Zenon
<1>5. CASE Escape
  <2>1. /\ queue' = Tail(queue) /\ ~lead' /\ at' = "line" /\ escape' = "esc" /\ escape = "none" /\ Char = "ESC"
    BY <1>1, <1>5 DEF Escape, Read
  <2>2. Head(queue) = "ESC"
    BY <1>1, <2>1, PlainRead
  <2>3. DoneOf(at', escape') = <<"ESC">>
    BY <1>3, <2>1, DoneIs, Zenon
  <2>4. DoneOf(at, escape) = <<>>
    BY <1>1, <1>3, <2>1, DoneIs, Zenon
  <2>5. <<>> \o <<"ESC">> = <<"ESC">>
    OBVIOUS
  <2>6. DoneOf(at', escape') = DoneOf(at, escape) \o <<Head(queue)>>
    BY <2>2, <2>3, <2>4, <2>5, Zenon
  <2>7. QED
    BY <1>1, <1>2, <2>1, <2>6, Further, Zenon
<1>6. CASE Bracket
  <2>1. /\ queue' = Tail(queue) /\ ~lead' /\ at' = "line" /\ escape = "esc"
        /\ escape' = IF Char = "bracket" THEN "csi" ELSE "none"
    BY <1>1, <1>6 DEF Bracket, Read
  <2>2. Head(queue) = "bracket" /\ Char = "bracket"
    BY <1>1, <2>1, EscRead
  <2>3. escape' = "csi"
    BY <2>1, <2>2
  <2>4. DoneOf(at', escape') = <<"ESC", "bracket">>
    BY <1>3, <2>1, <2>3, DoneIs, Zenon
  <2>5. DoneOf(at, escape) = <<"ESC">>
    BY <1>1, <1>3, <2>1, DoneIs, Zenon
  <2>6. <<"ESC">> \o <<"bracket">> = <<"ESC", "bracket">>
    BY Begun
  <2>7. DoneOf(at', escape') = DoneOf(at, escape) \o <<Head(queue)>>
    BY <2>2, <2>4, <2>5, <2>6, Zenon
  <2>8. QED
    BY <1>1, <1>2, <2>1, <2>7, Further, Zenon
<1>7. QED
  BY <1>4, <1>5, <1>6

(* What is shown, in parts.                                                 *)
LEMMA Parts ==
    ASSUME NEW m \in Ideas, Shown(m)
    PROVE  \E l \in Seq(Narrow), r \in Seq(Narrow), h \in Seq(Seq(Narrow)), i \in Nat :
               /\ l = m.left /\ r = m.right /\ h = m.lines /\ i = m.index /\ i \in 0..Len(h)
               /\ buffer = l \o r /\ cursor = Len(l) /\ history = h /\ history_index = i
<1>1. PICK l \in Seq(Narrow), r \in Seq(Narrow), h \in Seq(Seq(Narrow)), i \in Nat :
          l = m.left /\ r = m.right /\ h = m.lines /\ i = m.index /\ i \in 0..Len(h)
  BY IdeaFields
<1>2. QED
  BY <1>1, Zenon DEF Shown

LEMMA ShownAs ==
    ASSUME NEW l \in Seq(Narrow), NEW r \in Seq(Narrow), NEW h \in Seq(Seq(Narrow)), NEW i \in 0..Len(h),
           buffer' = l \o r, cursor' = Len(l), history' = h, history_index' = i
    PROVE  Shown(Idea(l, r, h, i))'
<1>1. /\ Idea(l, r, h, i).left = l /\ Idea(l, r, h, i).right = r
      /\ Idea(l, r, h, i).lines = h /\ Idea(l, r, h, i).index = i
  BY IdeaOf
<1>2. QED
  BY <1>1, Zenon DEF Shown

LEMMA Edited ==
    ASSUME ShellInv, NEW m \in Ideas, Reads(m), Backspace \/ Insert \/ Control, Working'
    PROVE  \E x \in Ideas : Reads(x)'
<1>1. /\ HasByte /\ at = "line" /\ escape = "none" /\ queue' = Tail(queue) /\ wire' = wire
      /\ meant' = meant /\ ~lead' /\ escape' = "none" /\ Char # "ESC"
      /\ history' = history /\ history_index' = history_index
  BY DEF Backspace, Insert, Control, HasKey, HasByte, Read, main
<1>2. at' = "line"
  BY <1>1 DEF Working, Backspace, Insert, Control
<1>3. PICK key \in CalmKeys \ Arrows :
          Char = ByteOfKey(key) /\ Decodes(Tail(queue) \o wire, Press(m, key), meant)
  BY <1>1, PlainRead, Zenon
<1>4. key \in {"a", "blank", "Enter", "Backspace", "CtrlA"}
  BY <1>3, PlainBytes
<1>5. PICK l \in Seq(Narrow), r \in Seq(Narrow), h \in Seq(Seq(Narrow)), i \in Nat :
          /\ l = m.left /\ r = m.right /\ h = m.lines /\ i = m.index /\ i \in 0..Len(h)
          /\ buffer = l \o r /\ cursor = Len(l) /\ history = h /\ history_index = i
  BY Parts, Zenon DEF Reads
<1>6. Press(m, key) \in Ideas
  BY <1>3, PressIdeas
<1>7. SUFFICES Shown(Press(m, key))'
  BY <1>1, <1>2, <1>3, <1>6, Finished, Zenon
<1>8. ASSUME UNCHANGED <<buffer, cursor>>, Press(m, key) = m
      PROVE  Shown(Press(m, key))'
  BY <1>1, <1>8 DEF Reads, Shown
<1>9. CASE Backspace
  <2>1. Char = "BS"
    BY <1>9 DEF Backspace
  <2>2. key = "Backspace"
    BY <1>3, <1>4, <2>1 DEF ByteOfKey
  <2>3. Press(m, key) = Erase(m)
    BY <2>2, Pressed, Zenon
  <2>4. CASE l = <<>>
    <3>1. Press(m, key) = m
      BY <1>5, <2>3, <2>4 DEF Erase
    <3>2. cursor = 0
      BY <1>5, <2>4
    <3>3. UNCHANGED <<buffer, cursor>>
      BY <1>9, <3>2 DEF Backspace
    <3>4. QED
      BY <1>8, <3>1, <3>3
  <2>5. CASE l # <<>>
    <3>1. /\ IsBoundary(buffer, cursor - 1) /\ Removed(buffer, cursor - 1) = Front(l) \o r
          /\ Front(l) \in Seq(Narrow) /\ Len(Front(l)) = cursor - 1 /\ cursor \in Nat \ {0}
      BY <1>5, <2>5, Erasing
    <3>2. ~(cursor = 0)
      BY <3>1
    <3>3. buffer' = Removed(buffer, cursor - 1) /\ cursor' = cursor - 1
      BY <1>9, <3>1, <3>2, Zenon DEF Backspace
    <3>4. Press(m, key) = Idea(Front(l), r, h, i)
      BY <1>5, <2>3, <2>5, Zenon DEF Erase, Moved
    <3>5. PICK f \in Seq(Narrow) : f = Front(l)
      BY <3>1, Zenon
    <3>6. buffer' = f \o r /\ cursor' = Len(f) /\ history' = h /\ history_index' = i
      BY <1>1, <1>5, <3>1, <3>3, <3>5, Zenon
    <3>7. Shown(Idea(f, r, h, i))'
      BY <1>5, <3>6, ShownAs
    <3>8. QED
      BY <3>4, <3>5, <3>7, Zenon
  <2>6. QED
    BY <2>4, <2>5, Zenon
<1>10. CASE Insert
  <2>1. Char \notin {"CR", "BS", "SOH"}
    BY <1>10 DEF Insert
  <2>2. key \in Narrow /\ Char = key
    BY <1>3, <1>4, <2>1 DEF ByteOfKey, Narrow
  <2>3. Press(m, key) = Moved(m, Append(m.left, key), m.right)
    BY <2>2, Pressed
  <2>4. /\ IsBoundary(buffer, cursor) /\ Inserted(buffer, cursor, Char) = Append(l, key) \o r
        /\ Append(l, key) \in Seq(Narrow) /\ Len(Append(l, key)) = cursor + 1
    BY <1>5, <2>2, Typing
  <2>5. buffer' = Inserted(buffer, cursor, Char) /\ cursor' = cursor + 1
    BY <1>10, <2>4, Zenon DEF Insert
  <2>6. Press(m, key) = Idea(Append(l, key), r, h, i)
    BY <1>5, <2>3, Zenon DEF Moved
  <2>7. PICK f \in Seq(Narrow) : f = Append(l, key)
    BY <2>4, Zenon
  <2>8. buffer' = f \o r /\ cursor' = Len(f) /\ history' = h /\ history_index' = i
    BY <1>1, <1>5, <2>4, <2>5, <2>7, Zenon
  <2>9. Shown(Idea(f, r, h, i))'
    BY <1>5, <2>8, ShownAs
  <2>10. QED
    BY <2>6, <2>7, <2>9, Zenon
<1>11. CASE Control
  <2>1. Char = "SOH" /\ UNCHANGED <<buffer, cursor>>
    BY <1>11 DEF Control
  <2>2. key = "CtrlA"
    BY <1>3, <1>4, <2>1 DEF ByteOfKey
  <2>3. Press(m, key) = m
    BY <2>2, Pressed, Zenon
  <2>4. QED
    BY <1>8, <2>1, <2>3
<1>12. QED
  BY <1>9, <1>10, <1>11

(* A line of the history, shown with the cursor at its end.                 *)
LEMMA Recalled ==
    ASSUME NEW h \in Seq(Seq(Narrow)), NEW j \in Nat, j < Len(h), NEW m, m.lines = h,
           buffer' = h[j + 1], cursor' = ByteLen(h[j + 1]), history' = h, history_index' = j
    PROVE  Shown(Recall(m, j))'
<1>1. j + 1 \in 1..Len(h) /\ j \in 0..Len(h)
  OBVIOUS
<1>2. PICK s \in Seq(Narrow) : s = h[j + 1]
  BY <1>1
<1>3. ByteLen(s) = Len(s) /\ s \o <<>> = s
  BY NarrowLine, ConcatEmptySeq
<1>4. PICK e \in Seq(Narrow) : e = <<>>
  <2>1. <<>> \in Seq(Narrow)
    OBVIOUS
  <2>2. QED
    BY <2>1, Zenon
<1>5. buffer' = s \o e /\ cursor' = Len(s)
  BY <1>2, <1>3, <1>4, Zenon
<1>6. Shown(Idea(s, e, h, j))'
  BY <1>1, <1>5, ShownAs, Zenon
<1>7. Recall(m, j) = Idea(s, e, h, j)
  BY <1>2, <1>4, Zenon DEF Recall
<1>8. QED
  BY <1>6, <1>7, Zenon

LEMMA Upward ==
    ASSUME NEW m \in Ideas, Shown(m), Up
    PROVE  Shown(GoUp(m))'
<1>1. PICK l \in Seq(Narrow), r \in Seq(Narrow), h \in Seq(Seq(Narrow)), i \in Nat :
          /\ l = m.left /\ r = m.right /\ h = m.lines /\ i = m.index /\ i \in 0..Len(h)
          /\ buffer = l \o r /\ cursor = Len(l) /\ history = h /\ history_index = i
  BY Parts, Zenon
<1>2. history' = h
  BY <1>1 DEF Up
<1>3. CASE h = <<>>
  <2>1. GoUp(m) = m
    BY <1>1, <1>3 DEF GoUp
  <2>2. UNCHANGED <<history_index, buffer, cursor>>
    BY <1>1, <1>3 DEF Up
  <2>3. QED
    BY <1>1, <1>2, <2>1, <2>2 DEF Shown
<1>4. CASE h # <<>>
  <2>1. PICK j \in Nat : j = (IF i > 0 THEN i - 1 ELSE 0) /\ j < Len(h)
    <3>1. Len(h) \in Nat \ {0}
      BY <1>4
    <3>2. QED
      BY <1>1, <3>1
  <2>2. Show(j)
    BY <1>1, <1>4, <2>1 DEF Up
  <2>3. history_index' = j /\ buffer' = h[j + 1] /\ cursor' = ByteLen(h[j + 1])
    BY <1>1, <2>2, Zenon DEF Show
  <2>4. Shown(Recall(m, j))'
    BY <1>1, <1>2, <2>1, <2>3, Recalled, Zenon
  <2>5. GoUp(m) = Recall(m, j)
    BY <1>1, <1>4, <2>1, Zenon DEF GoUp
  <2>6. QED
    BY <2>4, <2>5, Zenon
<1>5. QED
  BY <1>3, <1>4, Zenon

LEMMA Downward ==
    ASSUME NEW m \in Ideas, Shown(m), Down
    PROVE  Shown(GoDown(m))'
<1>1. PICK l \in Seq(Narrow), r \in Seq(Narrow), h \in Seq(Seq(Narrow)), i \in Nat :
          /\ l = m.left /\ r = m.right /\ h = m.lines /\ i = m.index /\ i \in 0..Len(h)
          /\ buffer = l \o r /\ cursor = Len(l) /\ history = h /\ history_index = i
  BY Parts, Zenon
<1>2. history' = h /\ Len(h) \in Nat
  BY <1>1 DEF Down
<1>3. CASE h = <<>>
  <2>1. GoDown(m) = m
    BY <1>1, <1>3 DEF GoDown
  <2>2. Len(h) = 0 /\ ~(i + 1 < Len(h))
    BY <1>3
  <2>3. UNCHANGED <<history_index, buffer, cursor>>
    BY <1>1, <1>3, <2>2 DEF Down
  <2>4. QED
    BY <1>1, <1>2, <2>1, <2>3 DEF Shown
<1>4. CASE h # <<>> /\ i + 1 < Len(h)
  <2>1. PICK j \in Nat : j = i + 1 /\ j < Len(h)
    BY <1>4
  <2>2. Show(j)
    <3>1. ~(i + 1 >= Len(h))
      BY <1>1, <1>2, <1>4
    <3>2. history_index + 1 = j /\ history # <<>> /\ ~(history_index + 1 >= Len(history))
      BY <1>1, <1>4, <2>1, <3>1, Zenon
    <3>3. Show(history_index + 1)
      BY <3>2, Zenon DEF Down
    <3>4. QED
      BY <3>2, <3>3, Zenon
  <2>3. history_index' = j /\ buffer' = h[j + 1] /\ cursor' = ByteLen(h[j + 1])
    BY <1>1, <2>2, Zenon DEF Show
  <2>4. Shown(Recall(m, j))'
    BY <1>1, <1>2, <2>1, <2>3, Recalled, Zenon
  <2>5. GoDown(m) = Recall(m, j)
    BY <1>1, <1>4, <2>1, Zenon DEF GoDown
  <2>6. QED
    BY <2>4, <2>5, Zenon
<1>5. CASE h # <<>> /\ ~(i + 1 < Len(h))
  <2>1. history_index' = Len(h) /\ buffer' = <<>> /\ cursor' = 0
    BY <1>1, <1>2, <1>5 DEF Down
  <2>2. PICK e \in Seq(Narrow) : e = <<>> /\ Len(e) = 0 /\ e \o e = e
    <3>1. <<>> \in Seq(Narrow) /\ Len(<<>>) = 0 /\ <<>> \o <<>> = <<>>
      BY ConcatEmptySeq
    <3>2. QED
      BY <3>1, Zenon
  <2>3. PICK n \in 0..Len(h) : n = Len(h)
    BY <1>2
  <2>4. buffer' = e \o e /\ cursor' = Len(e) /\ history_index' = n
    BY <2>1, <2>2, <2>3, Zenon
  <2>5. Shown(Idea(e, e, h, n))'
    BY <1>2, <2>4, ShownAs, Zenon
  <2>6. GoDown(m) = Idea(e, e, h, n)
    BY <1>1, <1>5, <2>2, <2>3, Zenon DEF GoDown
  <2>7. QED
    BY <2>5, <2>6, Zenon
<1>6. QED
  BY <1>3, <1>4, <1>5, Zenon

LEMMA Sidewards ==
    ASSUME NEW m \in Ideas, Shown(m), Sideways
    PROVE  /\ Char = "C" => Shown(GoRight(m))'
           /\ Char = "D" => Shown(GoLeft(m))'
<1>1. PICK l \in Seq(Narrow), r \in Seq(Narrow), h \in Seq(Seq(Narrow)), i \in Nat :
          /\ l = m.left /\ r = m.right /\ h = m.lines /\ i = m.index /\ i \in 0..Len(h)
          /\ buffer = l \o r /\ cursor = Len(l) /\ history = h /\ history_index = i
  BY Parts, Zenon
<1>2. history' = h /\ history_index' = i /\ buffer' = buffer
  BY <1>1 DEF Sideways, main
<1>3. ASSUME cursor' = cursor PROVE Shown(m)'
  BY <1>1, <1>2, <1>3 DEF Shown
<1>4. ByteLen(l \o r) = Len(l \o r) /\ Len(l \o r) = Len(l) + Len(r) /\ Len(l) \in Nat /\ Len(r) \in Nat
  <2>1. l \o r \in Seq(Narrow)
    BY ConcatProperties
  <2>2. ByteLen(l \o r) = Len(l \o r)
    BY <2>1, NarrowLine
  <2>3. Len(l \o r) = Len(l) + Len(r) /\ Len(l) \in Nat /\ Len(r) \in Nat
    BY Starts
  <2>4. QED
    BY <2>2, <2>3
<1>5. ASSUME Char = "C" PROVE Shown(GoRight(m))'
  <2>1. cursor' = Rightward
    BY <1>5 DEF Sideways
  <2>2. CASE r = <<>>
    <3>1. Len(r) = 0
      BY <2>2
    <3>2. cursor' = cursor
      <4>1. ~(Len(l) < Len(l \o r))
        BY <1>4, <3>1
      <4>2. ~(cursor < ByteLen(buffer))
        BY <1>1, <1>4, <4>1, Zenon
      <4>3. QED
        BY <2>1, <4>2, Zenon DEF Rightward
    <3>3. GoRight(m) = m
      BY <1>1, <2>2 DEF GoRight
    <3>4. QED
      BY <1>3, <3>2, <3>3, Zenon
  <2>3. CASE r # <<>>
    <3>1. /\ Append(l, Head(r)) \in Seq(Narrow) /\ Tail(r) \in Seq(Narrow)
          /\ l \o r = Append(l, Head(r)) \o Tail(r)
          /\ Len(Append(l, Head(r))) = Len(l) + 1 /\ Len(l) < Len(l \o r)
      BY <2>3, Entering
    <3>2. cursor' = cursor + 1
      <4>1. cursor < ByteLen(buffer)
        BY <1>1, <1>4, <3>1, Zenon
      <4>2. QED
        BY <2>1, <4>1, Zenon DEF Rightward
    <3>3. PICK f \in Seq(Narrow), g \in Seq(Narrow) : f = Append(l, Head(r)) /\ g = Tail(r)
      BY <3>1, Zenon
    <3>4. buffer' = f \o g /\ cursor' = Len(f)
      BY <1>1, <1>2, <3>1, <3>2, <3>3, Zenon
    <3>5. Shown(Idea(f, g, h, i))'
      BY <1>1, <1>2, <3>4, ShownAs, Zenon
    <3>6. GoRight(m) = Idea(f, g, h, i)
      BY <1>1, <2>3, <3>3, Zenon DEF GoRight, Moved
    <3>7. QED
      BY <3>5, <3>6, Zenon
  <2>4. QED
    BY <2>2, <2>3, Zenon
<1>6. ASSUME Char = "D" PROVE Shown(GoLeft(m))'
  <2>1. cursor' = Leftward
    BY <1>6 DEF Sideways
  <2>2. CASE l = <<>>
    <3>1. Len(l) = 0
      BY <2>2
    <3>2. cursor' = cursor
      BY <1>1, <2>1, <3>1 DEF Leftward
    <3>3. GoLeft(m) = m
      BY <1>1, <2>2 DEF GoLeft
    <3>4. QED
      BY <1>3, <3>2, <3>3, Zenon
  <2>3. CASE l # <<>>
    <3>1. /\ Front(l) \in Seq(Narrow) /\ <<Last(l)>> \o r \in Seq(Narrow)
          /\ l \o r = Front(l) \o (<<Last(l)>> \o r)
          /\ Len(Front(l)) = Len(l) - 1 /\ Len(l) \in Nat \ {0}
      BY <2>3, Leaving
    <3>2. cursor' = cursor - 1
      BY <1>1, <2>1, <3>1 DEF Leftward
    <3>3. PICK f \in Seq(Narrow), g \in Seq(Narrow) : f = Front(l) /\ g = <<Last(l)>> \o r
      BY <3>1, Zenon
    <3>4. buffer' = f \o g /\ cursor' = Len(f)
      BY <1>1, <1>2, <3>1, <3>2, <3>3, Zenon
    <3>5. Shown(Idea(f, g, h, i))'
      BY <1>1, <1>2, <3>4, ShownAs, Zenon
    <3>6. GoLeft(m) = Idea(f, g, h, i)
      BY <1>1, <2>3, <3>3, Zenon DEF GoLeft, Moved
    <3>7. QED
      BY <3>5, <3>6, Zenon
  <2>4. QED
    BY <2>2, <2>3, Zenon
<1>7. QED
  BY <1>5, <1>6

LEMMA Arrowed ==
    ASSUME ShellInv, NEW m \in Ideas, Reads(m), Up \/ Down \/ Sideways
    PROVE  \E x \in Ideas : Reads(x)'
<1>1. /\ HasByte /\ at = "line" /\ escape = "csi" /\ queue' = Tail(queue) /\ wire' = wire
      /\ meant' = meant /\ ~lead' /\ escape' = "none" /\ at' = "line"
  BY DEF Up, Down, Sideways, HasKey, HasByte, Read, main
<1>2. PICK key \in Arrows :
          /\ Char = "A" <=> key = "Up"
          /\ Char = "B" <=> key = "Down"
          /\ Char = "C" <=> key = "Right"
          /\ Char = "D" <=> key = "Left"
          /\ Decodes(Tail(queue) \o wire, Press(m, key), meant)
  BY <1>1, CsiRead, Zenon
<1>3. Press(m, key) \in Ideas
  <2>1. key \in CalmKeys
    BY <1>2 DEF Arrows, CalmKeys, AllKeys, Letters
  <2>2. QED
    BY <2>1, PressIdeas
<1>4. SUFFICES Shown(Press(m, key))'
  BY <1>1, <1>2, <1>3, Finished, Zenon
<1>5. Shown(m)
  BY DEF Reads
<1>6. CASE Up
  <2>1. Char = "A"
    BY <1>6 DEF Up
  <2>2. Press(m, key) = GoUp(m)
    BY <1>2, <2>1, Pressed, Zenon
  <2>3. QED
    BY <1>5, <1>6, <2>2, Upward, Zenon
<1>7. CASE Down
  <2>1. Char = "B"
    BY <1>7 DEF Down
  <2>2. Press(m, key) = GoDown(m)
    BY <1>2, <2>1, Pressed, Zenon
  <2>3. QED
    BY <1>5, <1>7, <2>2, Downward, Zenon
<1>8. CASE Sideways
  <2>1. Char \notin {"A", "B"}
    BY <1>8 DEF Sideways
  <2>2. key = "Right" \/ key = "Left"
    BY <1>2, <2>1 DEF Arrows
  <2>3. CASE key = "Right"
    <3>1. Char = "C" /\ Press(m, key) = GoRight(m)
      BY <1>2, <2>3, Pressed, Zenon
    <3>2. QED
      BY <1>5, <1>8, <3>1, Sidewards, Zenon
  <2>4. CASE key = "Left"
    <3>1. Char = "D" /\ Press(m, key) = GoLeft(m)
      BY <1>2, <2>4, Pressed, Zenon
    <3>2. QED
      BY <1>5, <1>8, <3>1, Sidewards, Zenon
  <2>5. QED
    BY <2>2, <2>3, <2>4, Zenon
<1>9. QED
  BY <1>6, <1>7, <1>8

(* main runs the line.                                                      *)
LEMMA Ran ==
    ASSUME ShellInv, NEW m \in Ideas, Reads(m), RunLine
    PROVE  \E x \in Ideas : Reads(x)'
<1>1. /\ at = "run" /\ at' # "run" /\ escape = "none" /\ UNCHANGED <<wire, queue, meant, lead, escape>>
      /\ buffer' = <<>> /\ cursor' = 0 /\ history' = Remembered /\ history_index' = NewIndex /\ ~lead
  <2>1. /\ at = "run" /\ at' = NextAt /\ UNCHANGED <<wire, queue, meant, lead, escape>>
        /\ buffer' = <<>> /\ cursor' = 0 /\ history' = Remembered /\ history_index' = NewIndex
    BY DEF RunLine, input
  <2>2. NextAt # "run"
    BY DEF NextAt
  <2>3. escape = "none" /\ ~lead
    BY <2>1 DEF Reads
  <2>4. QED
    BY <2>1, <2>2, <2>3
<1>2. queue \in Seq(Bytes) /\ wire \in Seq(Bytes)
  BY DEF ShellInv, InputInv
<1>3. PICK y \in Seq(Bytes) : y = queue \o wire
  <2>1. queue \o wire \in Seq(Bytes)
    BY <1>2, ConcatProperties
  <2>2. QED
    BY <2>1, Zenon
<1>4. Decodes(y, Press(m, "Enter"), meant)
  <2>1. DoneOf(at, escape) = <<"CR">>
    BY <1>1, DoneIs
  <2>2. Decodes(<<"CR">> \o y, m, meant)
    BY <1>3, <2>1, Zenon DEF Reads
  <2>3. QED
    BY <2>2, PeelEnter
<1>5. Press(m, "Enter") = Enter(m) /\ Enter(m) \in Ideas
  <2>1. "Enter" \in CalmKeys
    BY DEF CalmKeys, AllKeys
  <2>2. QED
    BY <2>1, Pressed, PressIdeas
<1>6. DoneOf(at', escape') \o (queue' \o wire') = y
  <2>1. DoneOf(at', "none") \o (queue \o wire) = queue \o wire
    BY <1>1, <1>2, NothingDone
  <2>2. QED
    BY <1>1, <1>3, <2>1, Zenon
<1>7. PICK l \in Seq(Narrow), r \in Seq(Narrow), h \in Seq(Seq(Narrow)), i \in Nat :
          /\ l = m.left /\ r = m.right /\ h = m.lines /\ i = m.index /\ i \in 0..Len(h)
          /\ buffer = l \o r /\ cursor = Len(l) /\ history = h /\ history_index = i
  BY Parts, Zenon DEF Reads
<1>8. Shown(Enter(m))'
  <2>1. PICK t : t = Typed /\ t = Trim(l \o r)
    BY <1>7, Zenon DEF Typed
  <2>2. PICK g : g = IF t = <<>> \/ (h # <<>> /\ Last(h) = t) THEN h ELSE Append(h, t)
    OBVIOUS
  <2>3. PICK k : k = IF t = <<>> THEN i ELSE Len(g)
    OBVIOUS
  <2>4. Remembered = g
    BY <1>7, <2>1, <2>2, Zenon DEF Remembered
  <2>5. NewIndex = k
    BY <1>7, <2>1, <2>3, <2>4, Zenon DEF NewIndex
  <2>6. Enter(m) = Idea(<<>>, <<>>, g, k)
    BY <1>7, <2>1, <2>2, <2>3, Zenon DEF Enter
  <2>7. /\ Enter(m).left = <<>> /\ Enter(m).right = <<>>
        /\ Enter(m).lines = g /\ Enter(m).index = k
    BY <2>6 DEF Idea
  <2>8. <<>> \o <<>> = <<>> /\ Len(<<>>) = 0
    OBVIOUS
  <2>9. QED
    BY <1>1, <2>4, <2>5, <2>7, <2>8, Zenon DEF Shown
<1>9. Reads(Enter(m))'
  BY <1>1, <1>4, <1>5, <1>6, <1>8, Zenon DEF Reads
<1>10. QED
  BY <1>5, <1>9, Zenon

LEMMA Waited ==
    ASSUME ShellInv, NEW m \in Ideas, Reads(m), ProgramEnds \/ UNCHANGED vars
    PROVE  Reads(m)'
<1>1. UNCHANGED <<wire, queue, meant, escape, lead, buffer, cursor, history, history_index>>
  BY DEF ProgramEnds, vars, input, line, main
<1>2. Shown(m)'
  BY <1>1 DEF Reads, Shown
<1>3. DoneOf(at', escape') = DoneOf(at, escape)
  <2>1. CASE UNCHANGED vars
    <3>1. at' = at
      BY <2>1 DEF vars
    <3>2. QED
      BY <1>1, <3>1, Zenon
  <2>2. CASE ProgramEnds
    <3>1. at = "wait" /\ at' = "line" /\ escape = "none"
      BY <2>2 DEF ProgramEnds, Reads
    <3>2. at # "run" /\ at' # "run"
      BY <3>1
    <3>3. DoneOf(at, "none") = <<>> /\ DoneOf(at', "none") = <<>>
      BY <3>2, DoneIs
    <3>4. QED
      BY <1>1, <3>1, <3>3, Zenon
  <2>3. QED
    BY <2>1, <2>2
<1>4. at' # "line" => escape' = "none"
  BY <1>1 DEF ProgramEnds, vars, Reads
<1>5. DoneOf(at', escape') \o (queue' \o wire') = DoneOf(at, escape) \o (queue \o wire)
  BY <1>1, <1>3, Zenon
<1>6. QED
  BY <1>1, <1>2, <1>4, <1>5, Zenon DEF Reads

-----------------------------------------------------------------------------
LEMMA ReadNext ==
    ASSUME ShellInv, ReadInv, [Next]_vars
    PROVE  ReadInv'
<1>1. SUFFICES ASSUME ~garbled', Working'
               PROVE  \E x \in Ideas : Reads(x)'
  BY DEF ReadInv
<1>2. ~garbled /\ Working
  <2>1. CASE PressKey \/ SerialHandler
    BY <1>1, <2>1 DEF PressKey, SerialHandler, Working
  <2>2. CASE ReadLead \/ EndOfLine
    BY <1>1, <2>2 DEF ReadLead, EndOfLine, HasKey, HasByte, Working
  <2>3. CASE Editing
    <3>1. garbled' = garbled /\ at = "line"
      BY <2>3, EditingReads DEF HasKey, HasByte
    <3>2. QED
      BY <1>1, <3>1 DEF Working
  <2>4. CASE RunLine \/ ProgramEnds \/ UNCHANGED vars
    <3>1. CASE RunLine
      <4>1. garbled' = garbled /\ at = "run"
        BY <3>1 DEF RunLine, input
      <4>2. QED
        BY <1>1, <4>1 DEF Working
    <3>2. CASE ProgramEnds
      <4>1. garbled' = garbled /\ at = "wait"
        BY <3>2 DEF ProgramEnds, input
      <4>2. QED
        BY <1>1, <4>1 DEF Working
    <3>3. CASE UNCHANGED vars
      <4>1. garbled' = garbled /\ at' = at
        BY <3>3 DEF vars, input
      <4>2. QED
        BY <1>1, <4>1 DEF Working
    <3>4. QED
      BY <2>4, <3>1, <3>2, <3>3
  <2>5. QED
    BY <2>1, <2>2, <2>3, <2>4, NextCases
<1>3. PICK m \in Ideas : Reads(m)
  BY <1>2 DEF ReadInv
<1>4. CASE PressKey
  BY <1>1, <1>3, <1>4, ReadPress
<1>5. CASE SerialHandler
  BY <1>1, <1>3, <1>5, ReadSerial
<1>6. CASE ReadLead
  BY <1>3, <1>6, NoLead DEF ReadLead
<1>7. CASE EndOfLine \/ Escape \/ Bracket
  BY <1>3, <1>7, Within
<1>8. CASE Backspace \/ Insert \/ Control
  BY <1>1, <1>3, <1>8, Edited
<1>9. CASE Up \/ Down \/ Sideways
  BY <1>3, <1>9, Arrowed
<1>10. CASE RunLine
  BY <1>3, <1>10, Ran
<1>11. CASE ProgramEnds \/ UNCHANGED vars
  BY <1>3, <1>11, Waited
<1>12. QED
  BY <1>4, <1>5, <1>6, <1>7, <1>8, <1>9, <1>10, <1>11, NextCases DEF Editing

LEMMA ReadingCaughtUp ==
    ASSUME ShellInv, ReadInv
    PROVE  EditsAsTyped
<1>1. SUFFICES ASSUME CaughtUp, ~garbled
               PROVE  /\ escape = "none" /\ ~lead
                      /\ buffer = meant.left \o meant.right /\ cursor = Len(meant.left)
                      /\ history = meant.lines /\ history_index = meant.index
  BY DEF EditsAsTyped
<1>2. at = "line" /\ wire = <<>> /\ queue = <<>> /\ escape \in {"none", "esc", "csi"}
  BY <1>1 DEF CaughtUp, ShellInv, InputInv
<1>3. PICK m \in Ideas : Reads(m)
  BY <1>1, <1>2 DEF ReadInv, Working
<1>4. PICK d \in Seq(Bytes) : d = DoneOf(at, escape)
  BY DoneIs
<1>5. Decodes(d, m, meant)
  <2>1. <<>> \o <<>> = <<>> /\ d \o <<>> = d
    BY ConcatEmptySeq
  <2>2. DoneOf(at, escape) \o (queue \o wire) = d
    BY <1>2, <1>4, <2>1, Zenon
  <2>3. QED
    BY <1>3, <2>2, Zenon DEF Reads
<1>6. escape = "none"
  <2>1. ASSUME escape \in {"esc", "csi"} PROVE FALSE
    <3>1. d = <<"ESC">> \/ d = <<"ESC", "bracket">>
      BY <1>2, <1>4, <2>1, DoneIs
    <3>2. d # <<>> /\ d[1] = "ESC" /\ Len(d) < 3
      <4>1. CASE d = <<"ESC">>
        <5>1. Len(<<"ESC">>) = 1 /\ <<"ESC">>[1] = "ESC"
          OBVIOUS
        <5>2. Len(d) = 1 /\ d[1] = "ESC"
          BY <4>1, <5>1, Zenon
        <5>3. Len(d) < 3
          BY <5>2
        <5>4. d # <<>>
          <6>1. <<"ESC">> # <<>>
            OBVIOUS
          <6>2. QED
            BY <4>1, <6>1, Zenon
        <5>5. QED
          BY <5>2, <5>3, <5>4, Zenon
      <4>2. CASE d = <<"ESC", "bracket">>
        <5>1. Len(<<"ESC", "bracket">>) = 2 /\ <<"ESC", "bracket">>[1] = "ESC"
          OBVIOUS
        <5>2. Len(d) = 2 /\ d[1] = "ESC"
          BY <4>2, <5>1, Zenon
        <5>3. Len(d) < 3
          BY <5>2
        <5>4. d # <<>>
          <6>1. <<"ESC", "bracket">> # <<>>
            OBVIOUS
          <6>2. QED
            BY <4>2, <6>1, Zenon
        <5>5. QED
          BY <5>2, <5>3, <5>4, Zenon
      <4>3. QED
        BY <3>1, <4>1, <4>2
    <3>3. Len(d) >= 3
      BY <1>5, <3>2, PeelStuck
    <3>4. QED
      BY <3>2, <3>3
  <2>2. QED
    BY <1>2, <2>1
<1>7. m = meant
  <2>1. at # "run"
    BY <1>2
  <2>2. d = <<>>
    BY <1>4, <1>6, <2>1, DoneIs, Zenon
  <2>3. QED
    BY <1>5, <2>2, PeelEmpty
<1>8. QED
  BY <1>3, <1>6, <1>7, Zenon DEF Reads, Shown

(* What is typed is what the shell has (lib io.rs:103-111 read_key, app/sh  *)
(* main.rs:40-168): however the bytes of the keys are delayed between the   *)
(* serial line, the queue and the nested reads of an escape sequence, a     *)
(* shell that has caught up shows the line, the cursor and the history that *)
(* the keys ask for, for every capacity of the queue and every command.     *)
THEOREM TypedIsShown == Spec => []EditsAsTyped
<1>1. ShellInv /\ ReadInv /\ [Next]_vars => ReadInv'
  BY ReadNext
<1>2. ShellInv /\ ReadInv => EditsAsTyped
  BY ReadingCaughtUp
<1>3. QED
  BY <1>1, <1>2, ReadInit, ShellInvariant, PTL DEF Spec

-----------------------------------------------------------------------------
(* The working directory and the parts of the paths it comes from.          *)
IsName(part) == part \notin {Dot, DotDot}

LEMMA DotsDiffer == Dot # DotDot
  BY Zenon DEF Dot, DotDot

LEMMA CountOne ==
    ASSUME NEW S, IsFiniteSet(S), NEW x, x \notin S
    PROVE  Cardinality(S \cup {x}) = Cardinality(S) + 1
  BY FS_AddElement

LEMMA CountsFinite ==
    ASSUME NEW s, NEW i \in Nat, NEW j \in Nat
    PROVE  /\ IsFiniteSet({k \in i..j : IsName(s[k])}) /\ Names(s, i, j) \in Nat
           /\ IsFiniteSet({k \in i..j : s[k] = DotDot}) /\ Ups(s, i, j) \in Nat
<1>1. IsFiniteSet(i..j)
  BY FS_Interval
<1>2. {k \in i..j : IsName(s[k])} \in SUBSET (i..j) /\ {k \in i..j : s[k] = DotDot} \in SUBSET (i..j)
  OBVIOUS
<1>3. IsFiniteSet({k \in i..j : IsName(s[k])}) /\ IsFiniteSet({k \in i..j : s[k] = DotDot})
  BY <1>1, <1>2, FS_Subset
<1>4. Names(s, i, j) = Cardinality({k \in i..j : IsName(s[k])})
      /\ Ups(s, i, j) = Cardinality({k \in i..j : s[k] = DotDot})
  BY DEF Names, Ups, IsName
<1>5. QED
  BY <1>3, <1>4, FS_CardinalityType

LEMMA OneMore ==
    ASSUME NEW S, NEW T \in Seq(S), NEW part \in S
    PROVE  /\ Len(T) \in Nat /\ Len(Append(T, part)) = Len(T) + 1
           /\ Append(T, part) \in Seq(S) /\ Append(T, part)[Len(T) + 1] = part
           /\ \A k \in 1..Len(T) : Append(T, part)[k] = T[k]
  OBVIOUS

(* The counts of a sequence one part longer.                                *)
LEMMA CountsKept ==
    ASSUME NEW T \in Seq(STRING), NEW part \in STRING, NEW i \in 1..Len(T), NEW j \in i..Len(T)
    PROVE  Names(Append(T, part), i, j) = Names(T, i, j) /\ Ups(Append(T, part), i, j) = Ups(T, i, j)
<1>1. \A k \in i..j : Append(T, part)[k] = T[k]
  <2>1. \A k \in 1..Len(T) : Append(T, part)[k] = T[k]
    BY OneMore
  <2>2. i..j \subseteq 1..Len(T)
    BY OneMore
  <2>3. QED
    BY <2>1, <2>2, Zenon
<1>2. {k \in i..j : Append(T, part)[k] \notin {Dot, DotDot}} = {k \in i..j : T[k] \notin {Dot, DotDot}}
      /\ {k \in i..j : Append(T, part)[k] = DotDot} = {k \in i..j : T[k] = DotDot}
  BY <1>1
<1>3. QED
  BY <1>2 DEF Names, Ups

LEMMA CountsMore ==
    ASSUME NEW s, NEW i \in Nat, NEW j \in Nat, i <= j + 1
    PROVE  /\ Names(s, i, j + 1) = Names(s, i, j) + (IF IsName(s[j + 1]) THEN 1 ELSE 0)
           /\ Ups(s, i, j + 1) = Ups(s, i, j) + (IF s[j + 1] = DotDot THEN 1 ELSE 0)
<1> DEFINE N(h) == {k \in i..h : IsName(s[k])}
           U(h) == {k \in i..h : s[k] = DotDot}
<1>1. Names(s, i, j) = Cardinality(N(j)) /\ Names(s, i, j + 1) = Cardinality(N(j + 1))
      /\ Ups(s, i, j) = Cardinality(U(j)) /\ Ups(s, i, j + 1) = Cardinality(U(j + 1))
  BY DEF Names, Ups, IsName
<1>2. IsFiniteSet(N(j)) /\ IsFiniteSet(U(j)) /\ Cardinality(N(j)) \in Nat /\ Cardinality(U(j)) \in Nat
  BY CountsFinite, FS_CardinalityType
<1>3. i..(j + 1) = (i..j) \cup {j + 1} /\ j + 1 \notin i..j
  OBVIOUS
<1>4. N(j + 1) = (IF IsName(s[j + 1]) THEN N(j) \cup {j + 1} ELSE N(j)) /\ j + 1 \notin N(j)
  BY <1>3
<1>5. U(j + 1) = (IF s[j + 1] = DotDot THEN U(j) \cup {j + 1} ELSE U(j)) /\ j + 1 \notin U(j)
  BY <1>3
<1> HIDE DEF N, U
<1>6. Cardinality(N(j + 1)) = Cardinality(N(j)) + (IF IsName(s[j + 1]) THEN 1 ELSE 0)
  BY <1>2, <1>4, CountOne
<1>7. Cardinality(U(j + 1)) = Cardinality(U(j)) + (IF s[j + 1] = DotDot THEN 1 ELSE 0)
  BY <1>2, <1>5, CountOne
<1>8. QED
  BY <1>1, <1>6, <1>7

(* What one part more does to the parts that survive.                       *)
LEMMA Balance ==
    ASSUME NEW T \in Seq(STRING), NEW part \in STRING, NEW i \in 1..Len(T)
    PROVE  LET L == Len(T)
               W == Append(T, part)
           IN  /\ Names(W, i, L + 1) = Names(T, i, L) + (IF IsName(part) THEN 1 ELSE 0)
               /\ Ups(W, i, L + 1) = Ups(T, i, L) + (IF part = DotDot THEN 1 ELSE 0)
               /\ Names(T, i, L) \in Nat /\ Ups(T, i, L) \in Nat
<1> DEFINE L == Len(T)
           W == Append(T, part)
<1>1. L \in Nat /\ i \in Nat /\ i <= L + 1 /\ L \in i..Len(T) /\ W[L + 1] = part
  <2>1. L \in Nat /\ W[L + 1] = part
    BY OneMore, Zenon
  <2>2. i \in Nat /\ i <= L + 1 /\ L \in i..Len(T)
    BY <2>1
  <2>3. QED
    BY <2>1, <2>2, Zenon
<1>2. Names(W, i, L) = Names(T, i, L) /\ Ups(W, i, L) = Ups(T, i, L)
  BY <1>1, CountsKept
<1> HIDE DEF W, L
<1>3. /\ Names(W, i, L + 1) = Names(W, i, L) + (IF IsName(W[L + 1]) THEN 1 ELSE 0)
      /\ Ups(W, i, L + 1) = Ups(W, i, L) + (IF W[L + 1] = DotDot THEN 1 ELSE 0)
  BY <1>1, CountsMore
<1>4. Names(T, i, L) \in Nat /\ Ups(T, i, L) \in Nat
  BY <1>1, CountsFinite
<1>5. QED
  BY <1>1, <1>2, <1>3, <1>4 DEF L, W

LEMMA SurvivesMore ==
    ASSUME NEW T \in Seq(STRING), NEW part \in STRING, NEW i \in 1..Len(T)
    PROVE  Survives(Append(T, part), i) <=>
               /\ Survives(T, i)
               /\ Names(Append(T, part), i, Len(T) + 1) > Ups(Append(T, part), i, Len(T) + 1)
<1> DEFINE W == Append(T, part)
<1>1. W[i] = T[i] /\ Len(W) = Len(T) + 1 /\ i..(Len(T) + 1) = (i..Len(T)) \cup {Len(T) + 1}
  BY OneMore
<1>2. \A j \in i..Len(T) : Names(W, i, j) = Names(T, i, j) /\ Ups(W, i, j) = Ups(T, i, j)
  BY CountsKept
<1> HIDE DEF W
<1>3. Survives(W, i) <=> /\ IsName(T[i])
                         /\ \A j \in (i..Len(T)) \cup {Len(T) + 1} : Names(W, i, j) > Ups(W, i, j)
  BY <1>1, Zenon DEF Survives, IsName
<1>4. Survives(T, i) <=> IsName(T[i]) /\ \A j \in i..Len(T) : Names(W, i, j) > Ups(W, i, j)
  BY <1>2, Zenon DEF Survives, IsName
<1>5. QED
  BY <1>3, <1>4 DEF W

LEMMA SurvivesLast ==
    ASSUME NEW T \in Seq(STRING), NEW part \in STRING
    PROVE  LET L == Len(T)
               W == Append(T, part)
           IN  /\ Survives(W, L + 1) <=> IsName(part)
               /\ IsName(part) => Names(W, L + 1, L + 1) = 1 /\ Ups(W, L + 1, L + 1) = 0
<1> DEFINE L == Len(T)
           W == Append(T, part)
<1>1. L \in Nat /\ W[L + 1] = part /\ Len(W) = L + 1 /\ (L + 1)..(L + 1) = {L + 1}
  <2>1. L \in Nat /\ W[L + 1] = part /\ Len(W) = L + 1
    BY OneMore, Zenon
  <2>2. \A n \in Nat : (n + 1)..(n + 1) = {n + 1}
    OBVIOUS
  <2>3. QED
    BY <2>1, <2>2, Zenon
<1> HIDE DEF W, L
<1>2. ASSUME IsName(part) PROVE Names(W, L + 1, L + 1) = 1 /\ Ups(W, L + 1, L + 1) = 0
  <2>1. {k \in (L + 1)..(L + 1) : W[k] \notin {Dot, DotDot}} = {L + 1}
        /\ {k \in (L + 1)..(L + 1) : W[k] = DotDot} = {}
    BY <1>1, <1>2 DEF IsName
  <2>2. QED
    BY <2>1, FS_Singleton, FS_EmptySet DEF Names, Ups
<1>3. ASSUME IsName(part) PROVE Survives(W, L + 1)
  <2>1. \A j \in (L + 1)..Len(W) : j = L + 1
    BY <1>1
  <2>2. Names(W, L + 1, L + 1) > Ups(W, L + 1, L + 1)
    BY <1>2, <1>3
  <2>3. IsName(W[L + 1])
    BY <1>1, <1>3
  <2>4. QED
    BY <2>1, <2>2, <2>3, Zenon DEF Survives, IsName
<1>4. Survives(W, L + 1) => IsName(part)
  BY <1>1 DEF Survives, IsName
<1>5. QED
  BY <1>2, <1>3, <1>4 DEF L, W

(* The directory c is what the parts T lead to: pl says which part each of  *)
(* its names is.  The names after a part outnumber the ".." after it by the *)
(* depth below that part.                                                   *)
Placed(c, T, pl) ==
    /\ pl \in [1..Len(c) -> 1..Len(T)]
    /\ \A m, n \in 1..Len(c) : m < n => pl[m] < pl[n]
    /\ \A i \in 1..Len(T) : Survives(T, i) <=> \E n \in 1..Len(c) : pl[n] = i
    /\ \A n \in 1..Len(c) :
           /\ c[n] = T[pl[n]]
           /\ Names(T, pl[n], Len(T)) = Ups(T, pl[n], Len(T)) + (Len(c) - n + 1)

Walked(c, T) ==
    /\ c \in Seq(STRING) /\ T \in Seq(STRING)
    /\ \E pl : Placed(c, T, pl)

(* The difference of the counts, one part later.                            *)
Later(c, T, part, pl, n) ==
    LET L == Len(T)
        W == Append(T, part)
        d == Len(c)
    IN  /\ pl[n] \in 1..L /\ W[pl[n]] = c[n]
        /\ part = Dot => Names(W, pl[n], L + 1) = Ups(W, pl[n], L + 1) + (d - n + 1)
        /\ part = DotDot => Names(W, pl[n], L + 1) = Ups(W, pl[n], L + 1) + (d - n)
        /\ IsName(part) => Names(W, pl[n], L + 1) = Ups(W, pl[n], L + 1) + (d - n + 2)

LEMMA PlacedLater ==
    ASSUME NEW c \in Seq(STRING), NEW T \in Seq(STRING), NEW part \in STRING, NEW pl,
           Placed(c, T, pl), NEW n \in 1..Len(c)
    PROVE  Later(c, T, part, pl, n)
<1> DEFINE L == Len(T)
           W == Append(T, part)
           p == pl[n]
           d == Len(c)
<1>1. p \in 1..L
  BY DEF Placed
<1>2. c[n] = T[p] /\ Names(T, p, L) = Ups(T, p, L) + (d - n + 1)
  BY Zenon DEF Placed
<1>3. W[p] = T[p] /\ d \in Nat
  <2>1. \A k \in 1..Len(T) : Append(T, part)[k] = T[k]
    BY OneMore
  <2>2. d \in Nat
    OBVIOUS
  <2>3. QED
    BY <1>1, <2>1, <2>2, Zenon
<1>4. /\ Names(W, p, L + 1) = Names(T, p, L) + (IF IsName(part) THEN 1 ELSE 0)
      /\ Ups(W, p, L + 1) = Ups(T, p, L) + (IF part = DotDot THEN 1 ELSE 0)
      /\ Names(T, p, L) \in Nat /\ Ups(T, p, L) \in Nat
  BY <1>1, Balance, Zenon
<1>5. /\ part = Dot => ~IsName(part) /\ part # DotDot
      /\ part = DotDot => ~IsName(part)
      /\ IsName(part) => part # DotDot
  BY DotsDiffer, Zenon DEF IsName
<1> HIDE DEF W, p, L, d
<1>6. n \in Nat /\ d - n \in Int
  BY <1>3 DEF d
<1>7. CASE IsName(part)
  <2>1. Names(W, p, L + 1) = Names(T, p, L) + 1 /\ Ups(W, p, L + 1) = Ups(T, p, L)
    BY <1>4, <1>5, <1>7
  <2>2. Names(W, p, L + 1) = Ups(W, p, L + 1) + (d - n + 2)
    BY <1>2, <1>4, <1>6, <2>1
  <2>3. QED
    BY <1>1, <1>2, <1>3, <1>5, <1>7, <2>2, Zenon DEF W, p, L, d, Later
<1>8. CASE part = DotDot
  <2>1. Names(W, p, L + 1) = Names(T, p, L) /\ Ups(W, p, L + 1) = Ups(T, p, L) + 1
    BY <1>4, <1>5, <1>8
  <2>2. Names(W, p, L + 1) = Ups(W, p, L + 1) + (d - n)
    BY <1>2, <1>4, <1>6, <2>1
  <2>3. QED
    BY <1>1, <1>2, <1>3, <1>5, <1>8, <2>2, Zenon DEF W, p, L, d, Later
<1>9. CASE part = Dot
  <2>1. Names(W, p, L + 1) = Names(T, p, L) /\ Ups(W, p, L + 1) = Ups(T, p, L)
    BY <1>4, <1>5, <1>9
  <2>2. Names(W, p, L + 1) = Ups(W, p, L + 1) + (d - n + 1)
    BY <1>2, <2>1
  <2>3. QED
    BY <1>1, <1>2, <1>3, <1>5, <1>9, <2>2, Zenon DEF W, p, L, d, Later
<1>10. QED
  BY <1>7, <1>8, <1>9, Zenon DEF IsName

(* Which parts survive one part more: those whose names still outnumber the *)
(* "..", and a name that comes last.                                        *)
LEMMA PlacedSurvive ==
    ASSUME NEW c \in Seq(STRING), NEW T \in Seq(STRING), NEW part \in STRING, NEW pl,
           Placed(c, T, pl), NEW i \in 1..(Len(T) + 1)
    PROVE  LET W == Append(T, part)
           IN  Survives(W, i) <=>
                   \/ i = Len(T) + 1 /\ IsName(part)
                   \/ \E n \in 1..Len(c) : pl[n] = i /\ Names(W, i, Len(T) + 1) > Ups(W, i, Len(T) + 1)
<1> DEFINE L == Len(T)
           W == Append(T, part)
<1>1. L \in Nat
  OBVIOUS
<1>2. pl \in [1..Len(c) -> 1..L]
  BY Zenon DEF Placed
<1>3. CASE i \in 1..L
  <2>1. Survives(W, i) <=> Survives(T, i) /\ Names(W, i, L + 1) > Ups(W, i, L + 1)
    BY <1>3, SurvivesMore, Zenon
  <2>2. Survives(T, i) <=> \E n \in 1..Len(c) : pl[n] = i
    BY <1>3, Zenon DEF Placed
  <2>3. i # L + 1
    BY <1>1, <1>3
  <2>4. QED
    BY <2>1, <2>2, <2>3, Zenon
<1>4. CASE i = L + 1
  <2>1. Survives(W, i) <=> IsName(part)
    BY <1>4, SurvivesLast, Zenon
  <2>2. \A n \in 1..Len(c) : pl[n] # i
    BY <1>1, <1>2, <1>4
  <2>3. QED
    BY <1>4, <2>1, <2>2, Zenon
<1>5. i \in 1..L \/ i = L + 1
  <2>1. \A m \in Nat : \A k \in 1..(m + 1) : k \in 1..m \/ k = m + 1
    OBVIOUS
  <2>2. QED
    BY <1>1, <2>1, Zenon
<1>6. QED
  BY <1>3, <1>4, <1>5, Zenon

LEMMA Wider ==
    ASSUME NEW n \in Nat, NEW m \in Nat, NEW pl \in [1..n -> 1..m]
    PROVE  pl \in [1..n -> 1..(m + 1)]
  OBVIOUS

(* What the three lemmas below have in common.                              *)
LEMMA PlacedTypes ==
    ASSUME NEW c \in Seq(STRING), NEW T \in Seq(STRING), NEW part \in STRING, NEW pl,
           Placed(c, T, pl)
    PROVE  /\ Len(T) \in Nat /\ Len(Append(T, part)) = Len(T) + 1 /\ Len(c) \in Nat
           /\ pl \in [1..Len(c) -> 1..Len(T)]
           /\ \A m, n \in 1..Len(c) : m < n => pl[m] < pl[n]
           /\ pl \in [1..Len(c) -> 1..(Len(T) + 1)]
           /\ \A i \in 1..(Len(T) + 1) : Ups(Append(T, part), i, Len(T) + 1) \in Nat
<1>1. Len(T) \in Nat /\ Len(Append(T, part)) = Len(T) + 1 /\ Len(c) \in Nat
  BY OneMore, Zenon
<1>2. pl \in [1..Len(c) -> 1..Len(T)] /\ \A m, n \in 1..Len(c) : m < n => pl[m] < pl[n]
  BY Zenon DEF Placed
<1>3. pl \in [1..Len(c) -> 1..(Len(T) + 1)]
  BY <1>1, <1>2, Wider, Zenon
<1>4. Len(T) + 1 \in Nat /\ \A i \in 1..(Len(T) + 1) : i \in Nat
  BY <1>1
<1>5. \A i \in 1..(Len(T) + 1) : Ups(Append(T, part), i, Len(T) + 1) \in Nat
  BY <1>4, CountsFinite, Zenon
<1>6. QED
  BY <1>1, <1>2, <1>3, <1>5, Zenon

(* A "." leaves all places as they are.                                     *)
LEMMA PlacedDot ==
    ASSUME NEW c \in Seq(STRING), NEW T \in Seq(STRING), NEW part \in STRING, NEW pl,
           Placed(c, T, pl)
    PROVE  part = Dot => Placed(c, Append(T, part), pl)
<1> DEFINE L == Len(T)
           W == Append(T, part)
           d == Len(c)
<1>1. /\ L \in Nat /\ Len(W) = L + 1 /\ d \in Nat
      /\ pl \in [1..d -> 1..(L + 1)] /\ \A m, n \in 1..d : m < n => pl[m] < pl[n]
      /\ \A i \in 1..(L + 1) : Ups(W, i, L + 1) \in Nat
  BY PlacedTypes, Zenon
<1>2. ASSUME NEW n \in 1..d
      PROVE  /\ W[pl[n]] = c[n]
             /\ part = Dot => Names(W, pl[n], L + 1) = Ups(W, pl[n], L + 1) + (d - n + 1)
  <2>1. Later(c, T, part, pl, n)
    BY PlacedLater, Zenon
  <2>2. QED
    BY <2>1, Zenon DEF Later
<1>3. ASSUME NEW i \in 1..(L + 1)
      PROVE  Survives(W, i) <=>
                 \/ i = L + 1 /\ IsName(part)
                 \/ \E n \in 1..d : pl[n] = i /\ Names(W, i, L + 1) > Ups(W, i, L + 1)
  BY PlacedSurvive, Zenon
<1> HIDE DEF W, L, d
<1> SUFFICES ASSUME part = Dot PROVE Placed(c, W, pl)
  BY DEF W
<1>4. ~IsName(part)
  BY DEF IsName
<1>5. \A n \in 1..d : Names(W, pl[n], L + 1) = Ups(W, pl[n], L + 1) + (d - n + 1)
  BY <1>2
<1>6. \A n \in 1..d : Names(W, pl[n], L + 1) > Ups(W, pl[n], L + 1)
  BY <1>1, <1>5
<1>7. \A i \in 1..(L + 1) : Survives(W, i) <=> \E n \in 1..d : pl[n] = i
  BY <1>3, <1>4, <1>6, Zenon
<1>8. QED
  BY <1>1, <1>2, <1>5, <1>7, Zenon DEF Placed, d

(* A ".." takes the last place away, if there is one.                       *)
LEMMA PlacedRoot ==
    ASSUME NEW c \in Seq(STRING), NEW T \in Seq(STRING), NEW part \in STRING, NEW pl,
           Placed(c, T, pl)
    PROVE  part = DotDot /\ c = <<>> => Placed(c, Append(T, part), pl)
<1> DEFINE L == Len(T)
           W == Append(T, part)
           d == Len(c)
<1>1. /\ L \in Nat /\ Len(W) = L + 1 /\ d \in Nat
      /\ pl \in [1..d -> 1..(L + 1)] /\ \A m, n \in 1..d : m < n => pl[m] < pl[n]
  BY PlacedTypes, Zenon
<1>2. ASSUME NEW i \in 1..(L + 1)
      PROVE  Survives(W, i) <=>
                 \/ i = L + 1 /\ IsName(part)
                 \/ \E n \in 1..d : pl[n] = i /\ Names(W, i, L + 1) > Ups(W, i, L + 1)
  BY PlacedSurvive, Zenon
<1>3. c = <<>> => 1..d = {}
  OBVIOUS
<1> HIDE DEF W, L, d
<1> SUFFICES ASSUME part = DotDot, 1..d = {} PROVE Placed(c, W, pl)
  BY <1>3 DEF W
<1>4. ~IsName(part)
  BY DEF IsName
<1>5. \A i \in 1..(L + 1) : Survives(W, i) <=> \E n \in 1..d : pl[n] = i
  BY <1>2, <1>4, Zenon
<1>6. QED
  BY <1>1, <1>5, Zenon DEF Placed, d

LEMMA FrontIs ==
    ASSUME NEW S, NEW s \in Seq(S), s # <<>>
    PROVE  /\ Len(s) # 0 /\ Len(Front(s)) = Len(s) - 1
           /\ \A n \in 1..(Len(s) - 1) : Front(s)[n] = s[n]
<1>1. Len(s) \in Nat \ {0}
  OBVIOUS
<1>2. PICK m \in Nat : m = Len(s) - 1 /\ m <= Len(s)
  <2>1. Len(s) - 1 \in Nat /\ Len(s) - 1 <= Len(s)
    BY <1>1
  <2>2. QED
    BY <2>1, Zenon
<1>3. Len(SubSeq(s, 1, m)) = m /\ \A n \in 1..m : SubSeq(s, 1, m)[n] = s[n]
  BY <1>1, <1>2
<1>4. Front(s) = SubSeq(s, 1, m)
  BY <1>2 DEF Front
<1>5. QED
  BY <1>1, <1>2, <1>3, <1>4, Zenon

LEMMA PlacedUp ==
    ASSUME NEW c \in Seq(STRING), NEW T \in Seq(STRING), NEW part \in STRING, NEW pl,
           Placed(c, T, pl), c # <<>>
    PROVE  part = DotDot =>
               Placed(Front(c), Append(T, part), [n \in 1..(Len(c) - 1) |-> pl[n]])
<1> DEFINE L == Len(T)
           W == Append(T, part)
           d == Len(c)
           b == Front(c)
           g == [n \in 1..(d - 1) |-> pl[n]]
<1>1. /\ L \in Nat /\ Len(W) = L + 1 /\ d \in Nat
      /\ pl \in [1..d -> 1..(L + 1)] /\ \A m, n \in 1..d : m < n => pl[m] < pl[n]
      /\ \A i \in 1..(L + 1) : Ups(W, i, L + 1) \in Nat
  BY PlacedTypes, Zenon
<1>2. ASSUME NEW n \in 1..d
      PROVE  /\ W[pl[n]] = c[n]
             /\ part = DotDot => Names(W, pl[n], L + 1) = Ups(W, pl[n], L + 1) + (d - n)
  <2>1. Later(c, T, part, pl, n)
    BY PlacedLater, Zenon
  <2>2. QED
    BY <2>1, Zenon DEF Later
<1>3. ASSUME NEW i \in 1..(L + 1)
      PROVE  Survives(W, i) <=>
                 \/ i = L + 1 /\ IsName(part)
                 \/ \E n \in 1..d : pl[n] = i /\ Names(W, i, L + 1) > Ups(W, i, L + 1)
  BY PlacedSurvive, Zenon
<1>4. d # 0 /\ Len(b) = d - 1 /\ \A n \in 1..(d - 1) : b[n] = c[n]
  BY FrontIs, Zenon
<1>5. \A n \in 1..(d - 1) : g[n] = pl[n]
  OBVIOUS
<1>6. g \in [1..(d - 1) -> 1..(L + 1)] /\ 1..(d - 1) = {n \in 1..d : n < d}
  BY <1>1
<1> HIDE DEF W, L, d, b, g
<1> SUFFICES ASSUME part = DotDot PROVE Placed(b, W, g)
  BY DEF W, b, g, d
<1>7. ~IsName(part)
  BY DEF IsName
<1>8. \A n \in 1..d : Names(W, pl[n], L + 1) = Ups(W, pl[n], L + 1) + (d - n)
  BY <1>2
<1>9. \A n \in 1..d : Names(W, pl[n], L + 1) > Ups(W, pl[n], L + 1) <=> n < d
  BY <1>1, <1>8
<1>10. \A i \in 1..(L + 1) : Survives(W, i) <=> \E n \in 1..d : pl[n] = i /\ n < d
  BY <1>3, <1>7, <1>9, Zenon
<1>11. \A i \in 1..(L + 1) : Survives(W, i) <=> \E n \in 1..(d - 1) : g[n] = i
  BY <1>5, <1>6, <1>10
<1>12. \A m, n \in 1..(d - 1) : m < n => g[m] < g[n]
  BY <1>1, <1>5, <1>6
<1>13. \A n \in 1..(d - 1) : /\ b[n] = W[g[n]]
                             /\ Names(W, g[n], L + 1) = Ups(W, g[n], L + 1) + ((d - 1) - n + 1)
  BY <1>1, <1>2, <1>4, <1>5, <1>6, <1>8
<1>14. QED
  BY <1>1, <1>4, <1>6, <1>11, <1>12, <1>13, Zenon DEF Placed

(* A name is a place of its own, below all others.                          *)
LEMMA PlacedName ==
    ASSUME NEW c \in Seq(STRING), NEW T \in Seq(STRING), NEW part \in STRING, NEW pl,
           Placed(c, T, pl)
    PROVE  IsName(part) =>
               Placed(Append(c, part), Append(T, part),
                      [n \in 1..(Len(c) + 1) |-> IF n = Len(c) + 1 THEN Len(T) + 1 ELSE pl[n]])
<1> DEFINE L == Len(T)
           W == Append(T, part)
           d == Len(c)
           b == Append(c, part)
           g == [n \in 1..(d + 1) |-> IF n = d + 1 THEN L + 1 ELSE pl[n]]
<1>1. /\ L \in Nat /\ Len(W) = L + 1 /\ d \in Nat
      /\ pl \in [1..d -> 1..L] /\ \A m, n \in 1..d : m < n => pl[m] < pl[n]
      /\ \A i \in 1..(L + 1) : Ups(W, i, L + 1) \in Nat
  BY PlacedTypes, Zenon
<1>2. ASSUME NEW n \in 1..d
      PROVE  /\ W[pl[n]] = c[n]
             /\ IsName(part) => Names(W, pl[n], L + 1) = Ups(W, pl[n], L + 1) + (d - n + 2)
  <2>1. Later(c, T, part, pl, n)
    BY PlacedLater, Zenon
  <2>2. QED
    BY <2>1, Zenon DEF Later
<1>3. ASSUME NEW i \in 1..(L + 1)
      PROVE  Survives(W, i) <=>
                 \/ i = L + 1 /\ IsName(part)
                 \/ \E n \in 1..d : pl[n] = i /\ Names(W, i, L + 1) > Ups(W, i, L + 1)
  BY PlacedSurvive, Zenon
<1>4. Len(b) = d + 1 /\ b[d + 1] = part /\ \A n \in 1..d : b[n] = c[n]
  <2>1. \A n \in 1..Len(c) : Append(c, part)[n] = c[n]
    BY OneMore
  <2>2. Len(b) = d + 1 /\ b[d + 1] = part
    BY OneMore, Zenon
  <2>3. QED
    BY <2>1, <2>2, Zenon
<1>5. IsName(part) => Names(W, L + 1, L + 1) = 1 /\ Ups(W, L + 1, L + 1) = 0
  BY SurvivesLast, Zenon
<1>6. W[L + 1] = part
  BY OneMore, Zenon
<1>7. g[d + 1] = L + 1 /\ \A n \in 1..d : g[n] = pl[n]
  BY <1>1
<1>8. g \in [1..(d + 1) -> 1..(L + 1)]
  BY <1>1
<1>9. 1..(d + 1) = (1..d) \cup {d + 1} /\ \A n \in 1..d : n < d + 1
  BY <1>1
<1> HIDE DEF W, L, d, b, g
<1> SUFFICES ASSUME IsName(part) PROVE Placed(b, W, g)
  BY DEF W, b, g, d, L
<1>10. \A n \in 1..d : Names(W, pl[n], L + 1) = Ups(W, pl[n], L + 1) + (d - n + 2)
  BY <1>2
<1>11. \A n \in 1..d : Names(W, pl[n], L + 1) > Ups(W, pl[n], L + 1)
  BY <1>1, <1>10, SMTT(30)
<1>12. \A i \in 1..(L + 1) : Survives(W, i) <=> i = L + 1 \/ \E n \in 1..d : pl[n] = i
  BY <1>3, <1>11, Zenon
<1>13. \A i \in 1..(L + 1) : Survives(W, i) <=> \E n \in 1..(d + 1) : g[n] = i
  BY <1>7, <1>9, <1>12, Zenon
<1>14. ASSUME NEW m \in 1..(d + 1), NEW n \in 1..(d + 1), m < n
       PROVE  g[m] < g[n]
  <2>1. m \in 1..d
    BY <1>1, <1>14
  <2>2. g[m] = pl[m] /\ pl[m] \in 1..L
    BY <1>1, <1>7, <2>1, Zenon
  <2>3. CASE n \in 1..d
    BY <1>1, <1>7, <1>14, <2>1, <2>3, Zenon
  <2>4. CASE n = d + 1
    <3>1. g[n] = L + 1
      BY <1>7, <2>4
    <3>2. QED
      BY <1>1, <2>2, <3>1
  <2>5. QED
    BY <1>9, <2>3, <2>4, Zenon
<1>15. ASSUME NEW n \in 1..(d + 1)
       PROVE  /\ b[n] = W[g[n]]
              /\ Names(W, g[n], L + 1) = Ups(W, g[n], L + 1) + ((d + 1) - n + 1)
  <2>1. CASE n \in 1..d
    <3>1. b[n] = W[g[n]] /\ Names(W, g[n], L + 1) = Ups(W, g[n], L + 1) + (d - n + 2)
      BY <1>2, <1>4, <1>7, <1>10, <2>1, Zenon
    <3>2. d - n + 2 = (d + 1) - n + 1
      BY <1>1
    <3>3. QED
      BY <3>1, <3>2, Zenon
  <2>2. CASE n = d + 1
    <3>1. b[n] = W[g[n]] /\ Names(W, g[n], L + 1) = 1 /\ Ups(W, g[n], L + 1) = 0
      BY <1>4, <1>5, <1>6, <1>7, <2>2, Zenon
    <3>2. (d + 1) - n + 1 = 1
      BY <1>1, <2>2
    <3>3. QED
      BY <3>1, <3>2
  <2>3. QED
    BY <1>9, <2>1, <2>2, Zenon
<1>16. QED
  BY <1>1, <1>4, <1>8, <1>13, <1>14, <1>15, Zenon DEF Placed

(* One part of a path: normalize_path and the parts it has seen.            *)
LEMMA WalkedPart ==
    ASSUME NEW c, NEW T, Walked(c, T), NEW part \in STRING
    PROVE  Walked(Taken(c, part), Append(T, part))
<1>1. c \in Seq(STRING) /\ T \in Seq(STRING)
  BY Zenon DEF Walked
<1>2. PICK pl : Placed(c, T, pl)
  BY Zenon DEF Walked
<1>3. Append(T, part) \in Seq(STRING) /\ Append(c, part) \in Seq(STRING)
  BY <1>1, OneMore
<1>4. CASE part = Dot
  <2>1. Taken(c, part) = c
    BY <1>4, DotsDiffer DEF Taken
  <2>2. Placed(c, Append(T, part), pl)
    BY <1>1, <1>2, <1>4, PlacedDot
  <2>3. QED
    BY <1>1, <1>3, <2>1, <2>2, Zenon DEF Walked
<1>5. CASE part = DotDot /\ c = <<>>
  <2>1. Taken(c, part) = c
    BY <1>5, DotsDiffer, Zenon DEF Taken
  <2>2. Placed(c, Append(T, part), pl)
    BY <1>1, <1>2, <1>5, PlacedRoot
  <2>3. QED
    BY <1>1, <1>3, <2>1, <2>2, Zenon DEF Walked
<1>6. CASE part = DotDot /\ c # <<>>
  <2>1. Taken(c, part) = Front(c)
    BY <1>6, DotsDiffer, Zenon DEF Taken
  <2>2. Placed(Front(c), Append(T, part), [n \in 1..(Len(c) - 1) |-> pl[n]])
    BY <1>1, <1>2, <1>6, PlacedUp
  <2>3. Front(c) \in Seq(STRING)
    BY <1>1, <1>6, FrontFacts
  <2>4. QED
    BY <1>3, <2>1, <2>2, <2>3, Zenon DEF Walked
<1>7. CASE IsName(part)
  <2>1. Taken(c, part) = Append(c, part)
    BY <1>7, Zenon DEF Taken, IsName
  <2>2. PICK g : Placed(Append(c, part), Append(T, part), g)
    BY <1>1, <1>2, <1>7, PlacedName
  <2>3. QED
    BY <1>3, <2>1, <2>2, Zenon DEF Walked
<1>8. QED
  BY <1>4, <1>5, <1>6, <1>7, Zenon DEF IsName

(* The path appended to the directory, part by part.                        *)
TakesTo(dir, parts, n, f) ==
    f = [k \in 0..n |-> IF k = 0 THEN dir ELSE Taken(f[k - 1], parts[k])]

LEMMA TakesExists ==
    ASSUME NEW dir, NEW parts
    PROVE  \A n \in Nat : \E f : TakesTo(dir, parts, n, f)
<1> DEFINE Bad == {n \in Nat : ~ \E f : TakesTo(dir, parts, n, f)}
<1> SUFFICES ASSUME Bad # {} PROVE FALSE
  OBVIOUS
<1>1. PICK n \in Bad : \A k \in Bad : n <= k
  BY LeastNumber
<1>2. CASE n = 0
  <2> DEFINE g == [k \in 0..0 |-> dir]
  <2>1. g = [k \in 0..0 |-> IF k = 0 THEN dir ELSE Taken(g[k - 1], parts[k])]
    OBVIOUS
  <2> HIDE DEF g
  <2>2. TakesTo(dir, parts, 0, g)
    BY <2>1 DEF TakesTo
  <2>3. QED
    BY <1>1, <1>2, <2>2
<1>3. CASE n # 0
  <2>1. n - 1 \in Nat /\ n - 1 \notin Bad
    BY <1>1, <1>3
  <2>2. PICK f : TakesTo(dir, parts, n - 1, f)
    BY <2>1
  <2>3. \A k \in 0..(n - 1) : f[k] = IF k = 0 THEN dir ELSE Taken(f[k - 1], parts[k])
    BY <2>2 DEF TakesTo
  <2> DEFINE g == [k \in 0..n |-> IF k = n THEN Taken(f[n - 1], parts[n]) ELSE f[k]]
  <2>4. \A k \in 0..(n - 1) : g[k] = f[k]
    BY <2>1
  <2>5. g[n] = Taken(f[n - 1], parts[n]) /\ n - 1 \in 0..(n - 1)
    BY <2>1
  <2>6. g = [k \in 0..n |-> g[k]]
    OBVIOUS
  <2> HIDE DEF g
  <2>7. ASSUME NEW k \in 0..n
        PROVE  g[k] = IF k = 0 THEN dir ELSE Taken(g[k - 1], parts[k])
    <3>1. CASE k = n
      BY <1>3, <2>4, <2>5, <3>1
    <3>2. CASE k # n
      <4>1. k \in 0..(n - 1) /\ (k # 0 => k - 1 \in 0..(n - 1))
        BY <2>1, <3>2
      <4>2. QED
        BY <2>3, <2>4, <4>1
    <3>3. QED
      BY <3>1, <3>2
  <2>8. TakesTo(dir, parts, n, g)
    BY <2>6, <2>7 DEF TakesTo
  <2>9. QED
    BY <1>1, <2>8
<1>4. QED
  BY <1>2, <1>3

NormalizesBy(dir, path, f) ==
    /\ NormalizePath(dir, path) = f[Len(path.parts)]
    /\ f[0] = IF path.absolute THEN <<>> ELSE dir
    /\ \A n \in 1..Len(path.parts) : f[n] = Taken(f[n - 1], path.parts[n])

LEMMA NormalizeSteps ==
    ASSUME NEW dir, NEW path, Len(path.parts) \in Nat
    PROVE  \E f : NormalizesBy(dir, path, f)
<1> DEFINE start == IF path.absolute THEN <<>> ELSE dir
           body(f) == [n \in 0..Len(path.parts) |->
                          IF n = 0 THEN (IF path.absolute THEN <<>> ELSE dir)
                          ELSE Taken(f[n - 1], path.parts[n])]
<1>1. PICK f : f = CHOOSE g : g = body(g)
  OBVIOUS
<1>2. NormalizePath(dir, path) = f[Len(path.parts)]
  BY <1>1 DEF NormalizePath
<1>3. f = body(f)
  <2>1. PICK g : TakesTo(start, path.parts, Len(path.parts), g)
    BY TakesExists
  <2>2. g = body(g)
    BY <2>1 DEF TakesTo
  <2> HIDE DEF body
  <2>3. QED
    BY <1>1, <2>2
<1>4. TakesTo(start, path.parts, Len(path.parts), f)
  BY <1>3 DEF TakesTo
<1> HIDE DEF start, body
<1>5. \A n \in 0..Len(path.parts) : f[n] = IF n = 0 THEN start ELSE Taken(f[n - 1], path.parts[n])
  BY <1>4 DEF TakesTo
<1>6. 0 \in 0..Len(path.parts) /\ \A n \in 1..Len(path.parts) : n \in 0..Len(path.parts) /\ n # 0
  OBVIOUS
<1>7. f[0] = start /\ \A n \in 1..Len(path.parts) : f[n] = Taken(f[n - 1], path.parts[n])
  BY <1>5, <1>6
<1>8. QED
  BY <1>2, <1>7, Zenon DEF start, NormalizesBy

LEMMA JoinedStart ==
    ASSUME NEW S, NEW s \in Seq(S), NEW t \in Seq(S)
    PROVE  /\ Len(s) \in Nat /\ Len(t) \in Nat /\ s \o t \in Seq(S) /\ Len(s \o t) = Len(s) + Len(t)
           /\ \A n \in 1..Len(t) : (s \o t)[Len(s) + n] = t[n]
           /\ SubSeq(s \o t, 1, Len(s)) = s
           /\ SubSeq(s \o t, 1, Len(s) + Len(t)) = s \o t
<1>1. PICK u : u = s \o t
  OBVIOUS
<1>2. PICK a \in Nat, b \in Nat : a = Len(s) /\ b = Len(t)
  BY LenProperties
<1>3. /\ u \in Seq(S) /\ Len(u) = a + b
      /\ \A n \in 1..(a + b) : u[n] = IF n <= a THEN s[n] ELSE t[n - a]
  BY <1>1, <1>2, ConcatProperties, Zenon
<1>4. \A n \in 1..b : u[a + n] = t[n]
  <2> TAKE n \in 1..b
  <2>1. a + n \in 1..(a + b) /\ ~(a + n <= a) /\ (a + n) - a = n
    OBVIOUS
  <2>2. QED
    BY <1>3, <2>1, Zenon
<1>5. \A n \in 1..a : u[n] = s[n]
  <2> TAKE n \in 1..a
  <2>1. n \in 1..(a + b) /\ n <= a
    OBVIOUS
  <2>2. QED
    BY <1>3, <2>1, Zenon
<1>6. a \in 0..Len(u)
  BY <1>3
<1>7. /\ SubSeq(u, 1, a) \in Seq(S) /\ Len(SubSeq(u, 1, a)) = a
      /\ \A k \in 1..a : SubSeq(u, 1, a)[k] = u[k]
  BY <1>3, <1>6, Cut
<1>8. SubSeq(u, 1, a) = s
  <2>1. PICK v \in Seq(S) : v = SubSeq(u, 1, a) /\ Len(v) = Len(s) /\ \A k \in 1..Len(v) : v[k] = s[k]
    BY <1>2, <1>5, <1>7, Zenon
  <2>2. v = s
    BY <2>1, SeqEqual
  <2>3. QED
    BY <2>1, <2>2, Zenon
<1>9. SubSeq(u, 1, a + b) = u
  BY <1>3, SubSeqFull, Zenon
<1>10. QED
  BY <1>1, <1>2, <1>3, <1>4, <1>8, <1>9, Zenon

LEMMA Longer ==
    ASSUME NEW S, NEW s \in Seq(S), NEW n \in 1..Len(s)
    PROVE  SubSeq(s, 1, n) = Append(SubSeq(s, 1, n - 1), s[n])
<1>1. PICK m \in Nat : m = n - 1 /\ m + 1 = n /\ m <= Len(s) /\ Len(s) \in Nat
  <2>1. n - 1 \in Nat /\ (n - 1) + 1 = n /\ n - 1 <= Len(s) /\ Len(s) \in Nat
    OBVIOUS
  <2>2. QED
    BY <2>1, Zenon
<1>2. PICK t : t = SubSeq(s, 1, m)
  OBVIOUS
<1>3. t \in Seq(S) /\ Len(t) = m /\ \A k \in 1..m : t[k] = s[k]
  BY <1>1, <1>2
<1>4. PICK u : u = SubSeq(s, 1, n)
  OBVIOUS
<1>5. u \in Seq(S) /\ Len(u) = n /\ \A k \in 1..n : u[k] = s[k]
  BY <1>1, <1>4
<1>6. s[n] \in S
  OBVIOUS
<1>7. PICK v : v = Append(t, s[n])
  OBVIOUS
<1>8. /\ v \in Seq(S) /\ Len(v) = m + 1 /\ v[m + 1] = s[n]
      /\ \A k \in 1..m : v[k] = t[k]
  <2>1. Append(t, s[n]) \in Seq(S) /\ Len(Append(t, s[n])) = Len(t) + 1 /\ Append(t, s[n])[Len(t) + 1] = s[n]
    BY <1>3, <1>6, OneMore, Zenon
  <2>2. \A k \in 1..Len(t) : Append(t, s[n])[k] = t[k]
    BY <1>3, <1>6, OneMore
  <2>3. QED
    BY <1>3, <1>7, <2>1, <2>2, Zenon
<1>9. ASSUME NEW k \in 1..n PROVE u[k] = v[k]
  <2>1. k \in 1..m \/ k = m + 1
    BY <1>1
  <2>2. k \in 1..m => u[k] = v[k]
    BY <1>3, <1>5, <1>8, Zenon
  <2>3. k = m + 1 => u[k] = v[k]
    BY <1>1, <1>5, <1>8, Zenon
  <2>4. QED
    BY <2>1, <2>2, <2>3
<1>10. u = v
  BY <1>1, <1>5, <1>8, <1>9, SeqEqual
<1>11. QED
  BY <1>1, <1>2, <1>4, <1>7, <1>10, Zenon

(* normalize_path leads where the old parts and the new ones lead together. *)
LEMMA WalkedPath ==
    ASSUME NEW c, NEW T, Walked(c, T), NEW path, path.parts \in Seq(STRING)
    PROVE  Walked(NormalizePath(c, path), (IF path.absolute THEN <<>> ELSE T) \o path.parts)
<1> DEFINE base == IF path.absolute THEN <<>> ELSE T
           start == IF path.absolute THEN <<>> ELSE c
           parts == path.parts
           L == Len(path.parts)
           all == base \o path.parts
           b == Len(base)
<1>1. T \in Seq(STRING) /\ L \in Nat
  BY Zenon, LenProperties DEF Walked
<1>2. PICK f : /\ NormalizePath(c, path) = f[L] /\ f[0] = start
               /\ \A n \in 1..L : f[n] = Taken(f[n - 1], parts[n])
  <2>1. PICK f : NormalizesBy(c, path, f)
    BY <1>1, NormalizeSteps
  <2>2. QED
    BY <2>1, Zenon DEF NormalizesBy
<1>3. Walked(start, base)
  <2>1. Walked(<<>>, <<>>)
    <3>1. Placed(<<>>, <<>>, <<>>)
      BY DEF Placed
    <3>2. <<>> \in Seq(STRING)
      OBVIOUS
    <3>3. QED
      BY <3>1, <3>2, Zenon DEF Walked
  <2>2. QED
    BY <2>1, Zenon
<1>4. base \in Seq(STRING)
  BY <1>3, Zenon DEF Walked
<1>5. b \in Nat /\ all \in Seq(STRING) /\ Len(all) = b + L
  BY <1>4, JoinedStart, ZenonT(60)
<1>6. SubSeq(all, 1, b) = base /\ SubSeq(all, 1, b + L) = all
  BY <1>4, JoinedStart, ZenonT(60)
<1>7. \A n \in 1..L : all[b + n] = parts[n]
  BY <1>4, JoinedStart
<1> HIDE DEF base, start, all, b, L, parts
<1> DEFINE Bad == {n \in Nat : n <= L /\ ~Walked(f[n], SubSeq(all, 1, b + n))}
<1>8. Bad = {}
  <2> SUFFICES ASSUME Bad # {} PROVE FALSE
    OBVIOUS
  <2>1. PICK n \in Bad : \A k \in Bad : n <= k
    BY LeastNumber
  <2>2. CASE n = 0
    <3>1. b + 0 = b
      BY <1>5
    <3>2. Walked(f[0], SubSeq(all, 1, b + 0))
      BY <1>2, <1>3, <1>6, <3>1, Zenon
    <3>3. QED
      BY <2>1, <2>2, <3>2
  <2>3. CASE n # 0
    <3>1. n \in 1..L /\ n - 1 \in Nat /\ n - 1 <= L /\ n - 1 \notin Bad
      BY <1>1, <2>1, <2>3
    <3>2. Walked(f[n - 1], SubSeq(all, 1, b + (n - 1)))
      BY <3>1
    <3>3. b + n \in 1..Len(all) /\ (b + n) - 1 = b + (n - 1) /\ b + n \in 1..(b + L)
      BY <1>1, <1>5, <3>1
    <3>4. SubSeq(all, 1, b + n) = Append(SubSeq(all, 1, (b + n) - 1), all[b + n])
      BY <1>5, <3>3, Longer, Zenon
    <3>5. all[b + n] = parts[n] /\ all[b + n] \in STRING
      <4>1. all[b + n] = parts[n]
        BY <1>7, <3>1, Zenon
      <4>2. parts[n] \in STRING
        BY <3>1, ElementOfSeq DEF parts, L
      <4>3. QED
        BY <4>1, <4>2, Zenon
    <3>6. Walked(Taken(f[n - 1], parts[n]), Append(SubSeq(all, 1, b + (n - 1)), parts[n]))
      BY <3>2, <3>5, WalkedPart
    <3>7. Walked(f[n], SubSeq(all, 1, b + n))
      BY <1>2, <3>1, <3>3, <3>4, <3>5, <3>6, Zenon
    <3>8. QED
      BY <2>1, <3>7
  <2>4. QED
    BY <2>2, <2>3
<1>9. L \in Nat /\ L <= L /\ L \notin Bad
  BY <1>1, <1>8
<1>10. Walked(f[L], SubSeq(all, 1, b + L))
  BY <1>9
<1>11. QED
  BY <1>2, <1>6, <1>10, Zenon DEF all, base, L, parts

-----------------------------------------------------------------------------
(* The places the parts survive at, counted.                                *)
FirstPlaces(pl, n) == {pl[m] : m \in 1..n}

LEMMA PlacesCounted ==
    ASSUME NEW n \in Nat, NEW d \in Nat, n <= d, NEW L \in Nat, NEW pl \in [1..d -> 1..L],
           \A i, j \in 1..d : i < j => pl[i] < pl[j]
    PROVE  Cardinality(FirstPlaces(pl, n)) = n
<1> DEFINE U == {pl[m] : m \in 1..n}
           f == [m \in 1..n |-> pl[m]]
<1>1. f \in Bijection(1..n, U)
  <2>1. f \in [1..n -> U]
    OBVIOUS
  <2>2. ASSUME NEW x \in 1..n, NEW y \in 1..n, f[x] = f[y] PROVE x = y
    <3>1. x \in 1..d /\ y \in 1..d /\ pl[x] = pl[y] /\ pl[x] \in Nat
      BY <2>2
    <3>2. ~(x < y) /\ ~(y < x)
      BY <3>1
    <3>3. QED
      BY <3>2
  <2>3. \A u \in U : \E x \in 1..n : f[x] = u
    OBVIOUS
  <2>4. QED
    BY <2>1, <2>2, <2>3, Fun_IsBij
<1>2. IsFiniteSet(1..n) /\ Cardinality(1..n) = n
  BY FS_Interval
<1>3. Cardinality(U) = Cardinality(1..n)
  BY <1>1, <1>2, FS_Bijection DEF ExistsBijection
<1>4. QED
  BY <1>2, <1>3, Zenon DEF FirstPlaces

LEMMA WalkedIs ==
    ASSUME NEW c, NEW T, Walked(c, T)
    PROVE  LET Places == {i \in DOMAIN T : Survives(T, i)}
           IN  c = [n \in 1..Cardinality(Places) |->
                       T[CHOOSE i \in Places : Cardinality({k \in Places : k <= i}) = n]]
<1> DEFINE Places == {i \in DOMAIN T : Survives(T, i)}
           d == Len(c)
           L == Len(T)
<1>1. c \in Seq(STRING) /\ T \in Seq(STRING)
  BY Zenon DEF Walked
<1>2. PICK pl : Placed(c, T, pl)
  BY Zenon DEF Walked
<1>3. d \in Nat /\ L \in Nat /\ DOMAIN T = 1..L /\ c = [n \in 1..d |-> c[n]]
  BY <1>1
<1>4. /\ pl \in [1..d -> 1..L] /\ \A m, n \in 1..d : m < n => pl[m] < pl[n]
      /\ \A i \in 1..L : Survives(T, i) <=> \E n \in 1..d : pl[n] = i
      /\ \A n \in 1..d : c[n] = T[pl[n]]
  BY <1>2, Zenon DEF Placed
<1>5. Places = {pl[m] : m \in 1..d}
  BY <1>3, <1>4
<1> HIDE DEF Places, d, L
<1>6. Cardinality(Places) = d
  <2>1. d <= d
    BY <1>3
  <2>2. Cardinality(FirstPlaces(pl, d)) = d
    BY <1>3, <1>4, <2>1, PlacesCounted, Zenon
  <2>3. QED
    BY <1>5, <2>2, Zenon DEF FirstPlaces
<1>7. ASSUME NEW n \in 1..d
      PROVE  Cardinality({k \in Places : k <= pl[n]}) = n
  <2>1. \A m \in 1..d : pl[m] <= pl[n] <=> m <= n
    <3> TAKE m \in 1..d
    <3>1. m < n \/ m = n \/ n < m
      BY <1>3
    <3>2. pl[m] \in Nat /\ pl[n] \in Nat
      BY <1>3, <1>4
    <3>3. QED
      BY <1>3, <1>4, <3>1, <3>2
  <2>2. 1..n = {m \in 1..d : m <= n}
    BY <1>3
  <2>3. {k \in Places : k <= pl[n]} = {pl[m] : m \in 1..n}
    BY <1>5, <2>1, <2>2
  <2>4. n \in Nat /\ n <= d
    BY <1>3
  <2>5. Cardinality(FirstPlaces(pl, n)) = n
    BY <1>3, <1>4, <2>4, PlacesCounted, Zenon
  <2>6. QED
    BY <2>3, <2>5, Zenon DEF FirstPlaces
<1>8. ASSUME NEW n \in 1..d
      PROVE  (CHOOSE i \in Places : Cardinality({k \in Places : k <= i}) = n) = pl[n]
  <2>1. pl[n] \in Places
    BY <1>5
  <2>2. ASSUME NEW i \in Places, Cardinality({k \in Places : k <= i}) = n
        PROVE  i = pl[n]
    <3>1. PICK m \in 1..d : i = pl[m]
      BY <1>5
    <3>2. m = n
      BY <1>7, <2>2, <3>1
    <3>3. QED
      BY <3>1, <3>2
  <2>3. QED
    BY <1>7, <2>1, <2>2
<1>9. \A n \in 1..d : c[n] = T[CHOOSE i \in Places : Cardinality({k \in Places : k <= i}) = n]
  BY <1>4, <1>8, Zenon
<1>10. c = [n \in 1..d |-> T[CHOOSE i \in Places : Cardinality({k \in Places : k <= i}) = n]]
  BY <1>3, <1>9, Zenon
<1>11. QED
  BY <1>6, <1>10, Zenon DEF Places

(* The inductive invariant, and what changes the directory.                 *)
LEMMA CwdNext == Walked(cwd, trail) /\ [Next]_vars => Walked(cwd, trail)'
<1> SUFFICES ASSUME Walked(cwd, trail), [Next]_vars PROVE Walked(cwd', trail')
  BY Zenon DEF Walked
<1>1. CASE RunLine
  <2>1. CASE Command.name = "cd" /\ cwd' = NormalizePath(cwd, Command)
             /\ trail' = (IF Command.absolute THEN <<>> ELSE trail) \o Command.parts
    <3>1. Command.parts \in Seq(STRING)
      <4>1. CASE Typed \in DOMAIN Meaning
        BY <2>1, <4>1, MeaningAssumption, Zenon DEF Command, CommandOf
      <4>2. CASE Typed \notin DOMAIN Meaning
        <5>1. Command = [name |-> "other"]
          BY <4>2 DEF Command, CommandOf
        <5>2. QED
          BY <2>1, <5>1
      <4>3. QED
        BY <4>1, <4>2
    <3>2. Walked(NormalizePath(cwd, Command), (IF Command.absolute THEN <<>> ELSE trail) \o Command.parts)
      BY <3>1, WalkedPath
    <3>3. QED
      BY <2>1, <3>2, Zenon
  <2>2. CASE UNCHANGED <<cwd, trail>>
    BY <2>2
  <2>3. QED
    BY <1>1, <2>1, <2>2, Zenon DEF RunLine
<1>2. CASE UNCHANGED <<cwd, trail>>
  BY <1>2
<1>3. RunLine \/ UNCHANGED <<cwd, trail>>
  BY DEF Next, vars, main, line, input, PressKey, SerialHandler, ReadLead, EndOfLine, Backspace,
         Escape, Bracket, Up, Down, Sideways, Insert, Control, ProgramEnds
<1>4. QED
  BY <1>1, <1>2, <1>3

(* The working directory is where all the cd commands together lead         *)
(* (normalize_path, app/sh main.rs:169-214), whatever the parts of the      *)
(* paths are: a ".." cancels the last name not yet cancelled, the ".." of   *)
(* the root does nothing, and an absolute path starts from the root again.  *)
THEOREM DirectoryIsWalk == Spec => []CwdIsWalk
<1>1. Init => Walked(cwd, trail)
  <2>1. Placed(<<>>, <<>>, <<>>)
    BY DEF Placed
  <2>2. <<>> \in Seq(STRING)
    OBVIOUS
  <2>3. QED
    BY <2>1, <2>2, Zenon DEF Walked, Init
<1>2. Walked(cwd, trail) => CwdIsWalk
  BY WalkedIs, ZenonT(60) DEF CwdIsWalk
<1>3. QED
  BY <1>1, <1>2, CwdNext, PTL DEF Spec
=============================================================================
