------------------------ MODULE ZmkService_proofs ------------------------
(***************************************************************************)
(* Proofs about ZmkService, for any number of callers and of layers, on a  *)
(* keyboard that refuses requests or does not.                             *)
(***************************************************************************)
EXTENDS ZmkService, LineLemmas, SequenceTheorems, WellFoundedInduction, TLAPS

(***************************************************************************)
(* Editing a sequence of layers.                                           *)
(***************************************************************************)
Distinct(ls) == \A i, j \in DOMAIN ls : ls[i].id = ls[j].id => i = j

LEMMA WithoutProperties ==
    ASSUME NEW S, NEW s \in Seq(S), NEW i \in 1..Len(s)
    PROVE  /\ Without(s, i) \in Seq(S) /\ Len(s) \in Nat
           /\ Len(Without(s, i)) = Len(s) - 1
           /\ \A k \in 1..Len(s) - 1 : Without(s, i)[k] = IF k < i THEN s[k] ELSE s[k + 1]
  <1>1. Len(s) \in Nat /\ i \in Nat /\ i >= 1 /\ i <= Len(s) /\ \A k \in 1..Len(s) : s[k] \in S
    OBVIOUS
  <1>2. PICK m \in Nat : m = i - 1
    BY <1>1
  <1>3. PICK n \in Nat : n = Len(s) - i
    BY <1>1
  <1> DEFINE a == SubSeq(s, 1, m)
             b == SubSeq(s, i + 1, Len(s))
  <1>4. a \in Seq(S) /\ Len(a) = m /\ \A k \in 1..m : a[k] = s[k]
    <2>1. a = [k \in 1..m |-> s[k]]
      BY <1>2
    <2>2. \A k \in 1..m : s[k] \in S
      BY <1>1, <1>2
    <2> QED BY <2>1, <2>2
  <1>5. b \in Seq(S) /\ Len(b) = n /\ \A k \in 1..n : b[k] = s[i + k]
    <2>1. b = [k \in 1..n |-> s[i + k]]
      <3>1. b = [k \in 1..(Len(s) - (i + 1) + 1) |-> s[k + (i + 1) - 1]]
        BY DEF SubSeq
      <3>2. Len(s) - (i + 1) + 1 = n
        BY <1>1, <1>3
      <3>3. \A k \in 1..n : k + (i + 1) - 1 = i + k
        BY <1>1
      <3> QED BY <3>1, <3>2, <3>3
    <2>2. \A k \in 1..n : s[i + k] \in S
      BY <1>1, <1>3
    <2> QED BY <2>1, <2>2
  <1> HIDE DEF a, b
  <1>6. /\ a \o b \in Seq(S) /\ Len(a \o b) = m + n
        /\ \A k \in 1..m + n : (a \o b)[k] = IF k <= m THEN a[k] ELSE b[k - m]
    BY <1>4, <1>5, ConcatProperties
  <1>7. Without(s, i) = a \o b
    BY <1>2 DEF Without, a, b
  <1>8. m + n = Len(s) - 1
    BY <1>1, <1>2, <1>3
  <1>9. ASSUME NEW k \in 1..Len(s) - 1
        PROVE  (a \o b)[k] = IF k < i THEN s[k] ELSE s[k + 1]
    <2>1. k \in 1..m + n
      BY <1>8
    <2>2. CASE k <= m
      <3>1. k < i /\ k \in 1..m
        BY <1>1, <1>2, <2>2
      <3> QED BY <1>4, <1>6, <2>1, <2>2, <3>1
    <2>3. CASE ~(k <= m)
      <3>1. ~(k < i) /\ k - m \in 1..n /\ i + (k - m) = k + 1
        BY <1>1, <1>2, <1>3, <2>1, <2>3
      <3> QED BY <1>5, <1>6, <2>1, <2>3, <3>1
    <2> QED BY <2>2, <2>3
  <1> QED BY <1>1, <1>6, <1>7, <1>8, <1>9

LEMMA InsertedProperties ==
    ASSUME NEW S, NEW s \in Seq(S), NEW i \in 1..Len(s) + 1, NEW x \in S
    PROVE  /\ Inserted(s, i, x) \in Seq(S) /\ Len(s) \in Nat
           /\ Len(Inserted(s, i, x)) = Len(s) + 1
           /\ \A k \in 1..Len(s) + 1 :
                 Inserted(s, i, x)[k] = IF k < i THEN s[k] ELSE IF k = i THEN x ELSE s[k - 1]
  <1>1. Len(s) \in Nat /\ i \in Nat /\ i >= 1 /\ i <= Len(s) + 1
        /\ \A k \in 1..Len(s) : s[k] \in S
    OBVIOUS
  <1>2. PICK m \in Nat : m = i - 1
    BY <1>1
  <1>3. PICK n \in Nat : n = Len(s) - i + 1
    BY <1>1
  <1> DEFINE a == SubSeq(s, 1, m)
             b == SubSeq(s, i, Len(s))
             c == a \o <<x>>
  <1>4. a \in Seq(S) /\ Len(a) = m /\ \A k \in 1..m : a[k] = s[k]
    <2>1. a = [k \in 1..m |-> s[k]]
      BY <1>2
    <2>2. \A k \in 1..m : s[k] \in S
      BY <1>1, <1>2
    <2> QED BY <2>1, <2>2
  <1>5. b \in Seq(S) /\ Len(b) = n /\ \A k \in 1..n : b[k] = s[i + k - 1]
    <2>1. b = [k \in 1..n |-> s[i + k - 1]]
      <3>1. b = [k \in 1..(Len(s) - i + 1) |-> s[k + i - 1]]
        BY DEF SubSeq
      <3>2. \A k \in 1..n : k + i - 1 = i + k - 1
        BY <1>1
      <3> QED BY <1>3, <3>1, <3>2
    <2>2. \A k \in 1..n : s[i + k - 1] \in S
      BY <1>1, <1>3
    <2> QED BY <2>1, <2>2
  <1>6. Inserted(s, i, x) = a \o <<x>> \o b
    BY <1>2 DEF Inserted
  <1> HIDE DEF a, b
  <1>7. /\ c \in Seq(S) /\ Len(c) = m + 1 /\ c[m + 1] = x
        /\ \A k \in 1..m : c[k] = a[k]
    BY <1>4
  <1> HIDE DEF c
  <1>8. /\ c \o b \in Seq(S) /\ Len(c \o b) = m + 1 + n
        /\ \A k \in 1..m + 1 + n : (c \o b)[k] = IF k <= m + 1 THEN c[k] ELSE b[k - (m + 1)]
    <2>1. PICK l \in Nat : l = m + 1
      BY <1>2
    <2>2. Len(c) = l /\ Len(b) = n /\ c \in Seq(S) /\ b \in Seq(S)
      BY <1>5, <1>7, <2>1
    <2>3. /\ c \o b \in Seq(S) /\ Len(c \o b) = l + n
          /\ \A k \in 1..l + n : (c \o b)[k] = IF k <= l THEN c[k] ELSE b[k - l]
      BY <2>2, ConcatProperties
    <2> QED BY <2>1, <2>3
  <1>9. m + 1 + n = Len(s) + 1
    BY <1>1, <1>2, <1>3
  <1>10. ASSUME NEW k \in 1..Len(s) + 1
         PROVE  (c \o b)[k] = IF k < i THEN s[k] ELSE IF k = i THEN x ELSE s[k - 1]
    <2>1. k \in 1..m + 1 + n
      BY <1>9
    <2>2. CASE k <= m
      <3>1. k < i /\ k \in 1..m /\ k <= m + 1
        BY <1>1, <1>2, <2>2
      <3> QED BY <1>4, <1>7, <1>8, <2>1, <3>1
    <2>3. CASE k = m + 1
      <3>1. ~(k < i) /\ k = i /\ k <= m + 1
        BY <1>1, <1>2, <2>3
      <3> QED BY <1>7, <1>8, <2>1, <2>3, <3>1
    <2>4. CASE k > m + 1
      <3>1. /\ ~(k < i) /\ k # i /\ ~(k <= m + 1) /\ k - (m + 1) \in 1..n
            /\ i + (k - (m + 1)) - 1 = k - 1
        BY <1>1, <1>2, <1>3, <2>1, <2>4
      <3> QED BY <1>5, <1>8, <2>1, <3>1
    <2>5. k <= m \/ k = m + 1 \/ k > m + 1
      BY <1>2
    <2> QED BY <2>2, <2>3, <2>4, <2>5
  <1>11. Inserted(s, i, x) = c \o b
    BY <1>6 DEF c
  <1> QED BY <1>1, <1>8, <1>9, <1>10, <1>11

LEMMA WithoutLayer ==
    ASSUME NEW ls \in Seq(Layer), Distinct(ls), NEW i \in 1..Len(ls)
    PROVE  /\ Without(ls, i) \in Seq(Layer) /\ Len(Without(ls, i)) = Len(ls) - 1
           /\ Distinct(Without(ls, i))
           /\ IdsOf(Without(ls, i)) = IdsOf(ls) \ {ls[i].id}
  <1> DEFINE w == Without(ls, i)
  <1>1. /\ w \in Seq(Layer) /\ Len(ls) \in Nat /\ Len(w) = Len(ls) - 1
        /\ \A k \in 1..Len(ls) - 1 : w[k] = IF k < i THEN ls[k] ELSE ls[k + 1]
    BY WithoutProperties
  <1> HIDE DEF w
  <1>2. DOMAIN w = 1..Len(ls) - 1 /\ DOMAIN ls = 1..Len(ls) /\ i \in Nat
    BY <1>1
  <1>3. Distinct(w)
    <2> SUFFICES ASSUME NEW k \in 1..Len(ls) - 1, NEW l \in 1..Len(ls) - 1, w[k].id = w[l].id
                 PROVE  k = l
      BY <1>2 DEF Distinct
    <2>1. PICK m \in 1..Len(ls) : w[k] = ls[m] /\ m = IF k < i THEN k ELSE k + 1
      BY <1>1
    <2>2. PICK n \in 1..Len(ls) : w[l] = ls[n] /\ n = IF l < i THEN l ELSE l + 1
      BY <1>1
    <2>3. m = n
      BY <1>2, <2>1, <2>2 DEF Distinct
    <2> QED BY <1>2, <2>1, <2>2, <2>3
  <1>4. ASSUME NEW x \in IdsOf(w) PROVE x \in IdsOf(ls) /\ x # ls[i].id
    <2>1. PICK k \in 1..Len(ls) - 1 : x = w[k].id
      BY <1>2 DEF IdsOf
    <2>2. PICK m \in 1..Len(ls) : w[k] = ls[m] /\ m = IF k < i THEN k ELSE k + 1
      BY <1>1
    <2>3. m # i
      BY <1>2, <2>2
    <2> QED BY <1>2, <2>1, <2>2, <2>3 DEF IdsOf, Distinct
  <1>5. ASSUME NEW x \in IdsOf(ls), x # ls[i].id PROVE x \in IdsOf(w)
    <2>1. PICK m \in 1..Len(ls) : x = ls[m].id /\ m # i
      BY <1>2, <1>5 DEF IdsOf
    <2>2. CASE m < i
      <3>1. m \in 1..Len(ls) - 1
        BY <1>1, <1>2, <2>2
      <3>2. w[m] = ls[m]
        BY <1>1, <2>2, <3>1
      <3> QED BY <1>2, <2>1, <3>1, <3>2 DEF IdsOf
    <2>3. CASE m > i
      <3>1. m - 1 \in 1..Len(ls) - 1 /\ ~(m - 1 < i) /\ m - 1 + 1 = m
        BY <1>1, <1>2, <2>3
      <3>2. w[m - 1] = ls[m]
        BY <1>1, <3>1
      <3> QED BY <1>2, <2>1, <3>1, <3>2 DEF IdsOf
    <2>4. m < i \/ m > i
      BY <1>2, <2>1
    <2> QED BY <2>2, <2>3, <2>4
  <1>6. IdsOf(w) = IdsOf(ls) \ {ls[i].id}
    BY <1>4, <1>5
  <1> QED BY <1>1, <1>3, <1>6 DEF w

LEMMA InsertedLayer ==
    ASSUME NEW ls \in Seq(Layer), Distinct(ls), NEW i \in 1..Len(ls) + 1, NEW x \in Layer,
           x.id \notin IdsOf(ls)
    PROVE  /\ Inserted(ls, i, x) \in Seq(Layer) /\ Len(Inserted(ls, i, x)) = Len(ls) + 1
           /\ Distinct(Inserted(ls, i, x))
           /\ i \in DOMAIN Inserted(ls, i, x) /\ Inserted(ls, i, x)[i] = x
  <1> DEFINE w == Inserted(ls, i, x)
  <1>0. w = Inserted(ls, i, x)
    OBVIOUS
  <1> HIDE DEF w
  <1>1. /\ w \in Seq(Layer) /\ Len(ls) \in Nat /\ Len(w) = Len(ls) + 1
        /\ \A k \in 1..Len(ls) + 1 :
              w[k] = IF k < i THEN ls[k] ELSE IF k = i THEN x ELSE ls[k - 1]
    <2>1. w \in Seq(Layer) /\ Len(ls) \in Nat /\ Len(w) = Len(ls) + 1
      BY <1>0, InsertedProperties
    <2>2. \A k \in 1..Len(ls) + 1 : Inserted(ls, i, x)[k] =
              IF k < i THEN ls[k] ELSE IF k = i THEN x ELSE ls[k - 1]
      BY InsertedProperties
    <2> QED BY <1>0, <2>1, <2>2
  <1>2. DOMAIN w = 1..Len(ls) + 1 /\ DOMAIN ls = 1..Len(ls) /\ i \in Nat
    BY <1>1
  <1>3. \A m \in 1..Len(ls) : ls[m].id # x.id
    BY <1>2 DEF IdsOf
  <1>4. \A k \in 1..Len(ls) + 1 :
           \/ k = i /\ w[k] = x
           \/ k # i /\ \E m \in 1..Len(ls) : w[k] = ls[m] /\ m = IF k < i THEN k ELSE k - 1
    <2> SUFFICES ASSUME NEW k \in 1..Len(ls) + 1, k # i
                 PROVE  \E m \in 1..Len(ls) : w[k] = ls[m] /\ m = IF k < i THEN k ELSE k - 1
      BY <1>1, <1>2
    <2>1. CASE k < i
      BY <1>1, <1>2, <2>1
    <2>2. CASE ~(k < i)
      <3>1. k - 1 \in 1..Len(ls) /\ w[k] = ls[k - 1]
        BY <1>1, <1>2, <2>2
      <3> QED BY <2>2, <3>1
    <2> QED BY <2>1, <2>2
  <1>5. Distinct(w)
    <2> SUFFICES ASSUME NEW k \in 1..Len(ls) + 1, NEW l \in 1..Len(ls) + 1, w[k].id = w[l].id
                 PROVE  k = l
      BY <1>2 DEF Distinct
    <2>1. CASE k = i \/ l = i
      BY <1>3, <1>4, <2>1
    <2>2. CASE k # i /\ l # i
      <3>1. PICK m \in 1..Len(ls) : w[k] = ls[m] /\ m = IF k < i THEN k ELSE k - 1
        BY <1>4, <2>2
      <3>2. PICK n \in 1..Len(ls) : w[l] = ls[n] /\ n = IF l < i THEN l ELSE l - 1
        BY <1>4, <2>2
      <3>3. m = n
        BY <1>2, <3>1, <3>2 DEF Distinct
      <3> QED BY <1>2, <2>2, <3>1, <3>2, <3>3
    <2> QED BY <2>1, <2>2
  <1>6. i \in DOMAIN w /\ w[i] = x
    BY <1>1, <1>2
  <1> QED BY <1>0, <1>1, <1>5, <1>6

LEMMA MovedLayer ==
    ASSUME NEW ls \in Seq(Layer), Distinct(ls), NEW at \in 1..Len(ls), NEW to \in 1..Len(ls)
    PROVE  LET w == Inserted(Without(ls, at), to, ls[at])
           IN  w \in Seq(Layer) /\ Len(w) = Len(ls) /\ Distinct(w)
  <1>1. PICK v : v = Without(ls, at)
    OBVIOUS
  <1>2. /\ v \in Seq(Layer) /\ Len(v) = Len(ls) - 1 /\ Distinct(v)
        /\ IdsOf(v) = IdsOf(ls) \ {ls[at].id}
    BY <1>1, WithoutLayer
  <1>3. PICK x \in Layer : x = ls[at]
    OBVIOUS
  <1>4. x.id \notin IdsOf(v) /\ to \in 1..Len(v) + 1 /\ Len(v) + 1 = Len(ls)
    <2>1. Len(ls) \in Nat
      OBVIOUS
    <2> QED BY <1>2, <1>3, <2>1
  <1>5. /\ Inserted(v, to, x) \in Seq(Layer) /\ Len(Inserted(v, to, x)) = Len(v) + 1
        /\ Distinct(Inserted(v, to, x))
    BY <1>2, <1>4, InsertedLayer
  <1> QED BY <1>1, <1>3, <1>4, <1>5

LEMMA WithValLayer ==
    ASSUME NEW ls \in Seq(Layer), Distinct(ls), NEW id, NEW v \in Vals
    PROVE  /\ WithVal(ls, id, v) \in Seq(Layer) /\ Len(WithVal(ls, id, v)) = Len(ls)
           /\ Distinct(WithVal(ls, id, v))
  <1> DEFINE w == WithVal(ls, id, v)
  <1>1. Len(ls) \in Nat /\ DOMAIN ls = 1..Len(ls) /\ \A i \in 1..Len(ls) : ls[i] \in Layer
    OBVIOUS
  <1>2. w = [i \in 1..Len(ls) |->
               IF ls[i].id = id THEN [ls[i] EXCEPT !.val = v] ELSE ls[i]]
    BY <1>1 DEF WithVal
  <1> HIDE DEF w
  <1>3. \A i \in 1..Len(ls) : w[i] \in Layer /\ w[i].id = ls[i].id
    BY <1>1, <1>2 DEF Layer
  <1>4. w \in Seq(Layer) /\ Len(w) = Len(ls) /\ DOMAIN w = 1..Len(ls)
    BY <1>1, <1>2, <1>3
  <1>5. Distinct(w)
    BY <1>1, <1>3, <1>4 DEF Distinct
  <1> QED BY <1>4, <1>5 DEF w

LEMMA AppendedLayer ==
    ASSUME NEW ls \in Seq(Layer), Distinct(ls), NEW x \in Layer, x.id \notin IdsOf(ls)
    PROVE  /\ Append(ls, x) \in Seq(Layer) /\ Len(Append(ls, x)) = Len(ls) + 1
           /\ Distinct(Append(ls, x))
           /\ \E k \in DOMAIN Append(ls, x) : Append(ls, x)[k] = x
  <1>1. /\ Append(ls, x) \in Seq(Layer) /\ Len(ls) \in Nat /\ Len(Append(ls, x)) = Len(ls) + 1
        /\ DOMAIN Append(ls, x) = 1..Len(ls) + 1 /\ DOMAIN ls = 1..Len(ls)
        /\ Append(ls, x)[Len(ls) + 1] = x
        /\ \A k \in 1..Len(ls) : Append(ls, x)[k] = ls[k]
    OBVIOUS
  <1>2. \A k \in 1..Len(ls) : ls[k].id # x.id
    BY <1>1 DEF IdsOf
  <1>3. \A k \in 1..Len(ls) + 1 : k \in 1..Len(ls) \/ k = Len(ls) + 1
    BY <1>1
  <1>4. Distinct(Append(ls, x))
    BY <1>1, <1>2, <1>3 DEF Distinct
  <1>5. Len(ls) + 1 \in DOMAIN Append(ls, x)
    BY <1>1
  <1> QED BY <1>1, <1>4, <1>5

\* While there is room for a layer there is an id for it.
LEMMA RoomForId ==
    ASSUME NEW ls \in Seq(Layer), Len(ls) < MaxLayers
    PROVE  LET free == Ids \ IdsOf(ls)
           IN  \E id \in free : \A k \in free : id <= k
  <1> DEFINE free == Ids \ IdsOf(ls)
  <1>1. /\ Ids \subseteq Nat /\ MaxLayers \in Nat /\ Cardinality(Ids) >= MaxLayers
        /\ Len(ls) \in Nat /\ DOMAIN ls = 1..Len(ls)
    BY KeyboardAssumption
  <1>2. IsFiniteSet(IdsOf(ls)) /\ Cardinality(IdsOf(ls)) <= Len(ls)
    <2>1. IsFiniteSet(1..Len(ls)) /\ Cardinality(1..Len(ls)) = Len(ls)
      <3>1. PICK n \in Nat : n = Len(ls)
        BY <1>1
      <3>2. IsFiniteSet(1..n) /\ Cardinality(1..n) = IF 1 > n THEN 0 ELSE n - 1 + 1
        <4>1. 1 \in Int /\ n \in Int
          BY <3>1
        <4> QED BY <4>1, FS_Interval, Zenon
      <3>3. Cardinality(1..n) = n
        BY <3>1, <3>2
      <3> QED BY <3>1, <3>2, <3>3
    <2> DEFINE f == [i \in 1..Len(ls) |-> ls[i].id]
    <2>2. f \in Surjection(1..Len(ls), IdsOf(ls))
      <3>1. f \in [1..Len(ls) -> IdsOf(ls)]
        BY <1>1 DEF IdsOf
      <3>2. \A x \in IdsOf(ls) : \E i \in 1..Len(ls) : f[i] = x
        BY <1>1 DEF IdsOf
      <3> HIDE DEF f
      <3> QED BY <3>1, <3>2 DEF Surjection
    <2> HIDE DEF f
    <2>3. IsFiniteSet(IdsOf(ls)) /\ Cardinality(IdsOf(ls)) <= Cardinality(1..Len(ls))
      BY <2>1, <2>2, FS_Surjection
    <2> QED BY <2>1, <2>3
  <1>3. free # {}
    <2> SUFFICES ASSUME Ids \subseteq IdsOf(ls) PROVE FALSE
      OBVIOUS
    <2>1. IsFiniteSet(Ids) /\ Cardinality(Ids) <= Cardinality(IdsOf(ls))
      BY <1>2, FS_Subset
    <2>2. Cardinality(Ids) \in Nat /\ Cardinality(IdsOf(ls)) \in Nat
      BY <1>2, <2>1, FS_CardinalityType
    <2> QED BY <1>1, <1>2, <2>1, <2>2
  <1>4. free \subseteq Nat
    BY <1>1
  <1> HIDE DEF free
  <1>5. PICK id \in free : \A k \in free : ~(<<k, id>> \in OpToRel(<, Nat))
    BY <1>3, <1>4, NatLessThanWellFounded, WFMin
  <1>6. \A k \in free : ~(k < id)
    BY <1>4, <1>5, Zenon DEF OpToRel
  <1>7. \A k \in free : id <= k
    BY <1>4, <1>6
  <1> QED BY <1>7 DEF free

(***************************************************************************)
(* The event loop.                                                         *)
(***************************************************************************)
Waiting == {"onBehaviors", "onLayouts", "onKeymap", "aim", "aimAgain"}
InLine == {"rpc", "list", "details"}
PlacesOf(p) == IF p = BJob THEN {"off", "list", "details"}
               ELSE IF p = LJob THEN {"off", "rpc"}
               ELSE IF p = KJob THEN {"off", "onBehaviors", "onLayouts", "rpc"}
               ELSE {"idle", "rpc", "done"} \cup Waiting
Places == {"idle", "off", "list", "details", "rpc", "onBehaviors",
           "onLayouts", "onKeymap", "aim", "aimAgain", "done"}

\* Who waits for the mutex is in its line, and nobody else; only who waits for a
\* promise is woken.
LoopOK(s) ==
    /\ s \in [pc : [Procs -> Places], wake : [Procs -> {"no", "ok", "err"}],
              line : Seq(Procs)]
    /\ NoRepeat(s.line)
    /\ \A p \in Procs : /\ s.pc[p] \in PlacesOf(p)
                        /\ On(s.line, p) <=> s.pc[p] \in InLine
                        /\ s.wake[p] # "no" => s.pc[p] \in Waiting
\* As LoopOK, but for p, which is in no line.
LoopBut(s, p) ==
    /\ s \in [pc : [Procs -> Places], wake : [Procs -> {"no", "ok", "err"}],
              line : Seq(Procs)]
    /\ NoRepeat(s.line) /\ ~On(s.line, p)
    /\ \A q \in Procs \ {p} : /\ s.pc[q] \in PlacesOf(q)
                              /\ On(s.line, q) <=> s.pc[q] \in InLine
                              /\ s.wake[q] # "no" => s.pc[q] \in Waiting

\* The processes of Q stand where they stood, and the mutex has the same holder.
Kept(s, t, Q) == \A q \in Q : t.pc[q] = s.pc[q] /\ t.wake[q] = s.wake[q]
Holds(s, t) == s.line # <<>> => t.line # <<>> /\ Head(t.line) = Head(s.line)

LEMMA ThreeJobs ==
    /\ BJob # LJob /\ BJob # KJob /\ LJob # KJob
    /\ BJob \notin Ops /\ LJob \notin Ops /\ KJob \notin Ops
    /\ BJob \in Procs /\ LJob \in Procs /\ KJob \in Procs /\ Ops \subseteq Procs
    /\ Jobs \subseteq Procs
  <1>1. ASSUME NEW x, NEW y PROVE IsFiniteSet({x, y}) /\ Cardinality({x, y}) # 3
    <2>1. IsFiniteSet({x}) /\ Cardinality({x}) = 1
      BY FS_Singleton
    <2>2. /\ IsFiniteSet({x} \cup {y})
          /\ Cardinality({x} \cup {y}) = IF y \in {x} THEN Cardinality({x})
                                                      ELSE Cardinality({x}) + 1
      BY <2>1, FS_AddElement
    <2>3. {x} \cup {y} = {x, y}
      OBVIOUS
    <2> QED BY <2>1, <2>2, <2>3
  <1>2. Jobs \cap Ops = {} /\ Cardinality(Jobs) = 3 /\ Jobs = {BJob, LJob, KJob}
    BY OpsAssumption DEF Jobs
  <1>3. BJob = LJob => Jobs = {LJob, KJob}
    BY <1>2
  <1>4. BJob = KJob => Jobs = {LJob, KJob}
    BY <1>2
  <1>5. LJob = KJob => Jobs = {BJob, KJob}
    BY <1>2
  <1>6. Cardinality({LJob, KJob}) # 3 /\ Cardinality({BJob, KJob}) # 3
    BY <1>1
  <1> QED BY <1>2, <1>3, <1>4, <1>5, <1>6 DEF Procs

LEMMA PlaceTypes ==
    /\ \A p \in Procs : PlacesOf(p) \subseteq Places
    /\ InLine \cap Waiting = {} /\ InLine \subseteq Places
    /\ \A o \in Ops : PlacesOf(o) = {"idle", "rpc", "done"} \cup Waiting
    /\ PlacesOf(BJob) = {"off", "list", "details"} /\ PlacesOf(LJob) = {"off", "rpc"}
    /\ PlacesOf(KJob) = {"off", "onBehaviors", "onLayouts", "rpc"}
  BY ThreeJobs DEF PlacesOf, Places, InLine, Waiting

\* A process that is in no line may leave its place.
LEMMA OffLine ==
    ASSUME NEW s, LoopOK(s), NEW p \in Procs, s.pc[p] \notin InLine
    PROVE  LoopBut(s, p) /\ ~On(s.line, p)
  BY DEF LoopOK, LoopBut

\* The mutex goes to the next in line.
LEMMA ServedOne ==
    ASSUME NEW s, LoopOK(s), s.line # <<>>, NEW p, p = Head(s.line)
    PROVE  /\ LoopBut(Served(s), p) /\ p \in Procs
           /\ Served(s).pc = s.pc /\ Served(s).wake = s.wake /\ Served(s).line = Tail(s.line)
  <1>1. s.line \in Seq(Procs) /\ NoRepeat(s.line)
    BY DEF LoopOK
  <1>2. /\ Tail(s.line) \in Seq(Procs) /\ NoRepeat(Tail(s.line)) /\ p \in Procs
        /\ \A x : On(Tail(s.line), x) <=> On(s.line, x) /\ x # p
    BY <1>1, TailOfLine
  <1>3. /\ Served(s).pc = s.pc /\ Served(s).wake = s.wake /\ Served(s).line = Tail(s.line)
        /\ Served(s) \in [pc : [Procs -> Places], wake : [Procs -> {"no", "ok", "err"}],
                          line : Seq(Procs)]
    BY <1>2 DEF LoopOK, Served
  <1> HIDE DEF Served
  <1> QED BY <1>2, <1>3 DEF LoopOK, LoopBut

LEMMA Parked ==
    ASSUME NEW s, NEW p \in Procs, LoopBut(s, p), NEW at \in PlacesOf(p), at \notin InLine
    PROVE  LET t == Park(s, p, at)
           IN  /\ LoopOK(t) /\ t.line = s.line /\ Kept(s, t, Procs \ {p})
               /\ t.pc[p] = at /\ t.wake[p] = "no"
  <1> DEFINE t == Park(s, p, at)
  <1>1. /\ s.pc \in [Procs -> Places] /\ s.wake \in [Procs -> {"no", "ok", "err"}]
        /\ s.line \in Seq(Procs) /\ at \in Places
        /\ s \in [pc : [Procs -> Places], wake : [Procs -> {"no", "ok", "err"}],
                  line : Seq(Procs)]
    BY PlaceTypes DEF LoopBut
  <1>2. /\ t.pc = [s.pc EXCEPT ![p] = at] /\ t.wake = [s.wake EXCEPT ![p] = "no"]
        /\ t.line = s.line
        /\ t \in [pc : [Procs -> Places], wake : [Procs -> {"no", "ok", "err"}],
                  line : Seq(Procs)]
    BY <1>1 DEF Park
  <1> HIDE DEF t
  <1>3. Kept(s, t, Procs \ {p}) /\ t.pc[p] = at /\ t.wake[p] = "no"
    BY <1>1, <1>2 DEF Kept
  <1>4. LoopOK(t)
    BY <1>2, <1>3 DEF LoopOK, LoopBut, Kept
  <1> QED BY <1>2, <1>3, <1>4 DEF t

LEMMA Called ==
    ASSUME NEW s, NEW p \in Procs, LoopBut(s, p), NEW at \in PlacesOf(p), at \in InLine
    PROVE  LET t == Call(s, p, at)
           IN  /\ LoopOK(t) /\ Kept(s, t, Procs \ {p}) /\ Holds(s, t)
               /\ t.pc[p] = at /\ t.wake[p] = "no"
               /\ t.line = Append(s.line, p)
  <1> DEFINE u == Park(s, p, at)
             t == [u EXCEPT !.line = Append(@, p)]
  <1>1. /\ s.pc \in [Procs -> Places] /\ s.wake \in [Procs -> {"no", "ok", "err"}]
        /\ s.line \in Seq(Procs) /\ at \in Places
        /\ s \in [pc : [Procs -> Places], wake : [Procs -> {"no", "ok", "err"}],
                  line : Seq(Procs)]
        /\ NoRepeat(s.line) /\ ~On(s.line, p)
    BY PlaceTypes DEF LoopBut
  <1>2. /\ u.pc = [s.pc EXCEPT ![p] = at] /\ u.wake = [s.wake EXCEPT ![p] = "no"]
        /\ u.line = s.line
        /\ u \in [pc : [Procs -> Places], wake : [Procs -> {"no", "ok", "err"}],
                  line : Seq(Procs)]
    BY <1>1 DEF Park
  <1> HIDE DEF u
  <1>3. /\ Append(s.line, p) \in Seq(Procs) /\ NoRepeat(Append(s.line, p))
        /\ \A x : On(Append(s.line, p), x) <=> On(s.line, x) \/ x = p
    BY <1>1, AppendedToLine
  <1>4. /\ t.pc = u.pc /\ t.wake = u.wake /\ t.line = Append(s.line, p)
        /\ t \in [pc : [Procs -> Places], wake : [Procs -> {"no", "ok", "err"}],
                  line : Seq(Procs)]
    BY <1>2, <1>3
  <1>5. t = Call(s, p, at)
    BY DEF Call, u
  <1> HIDE DEF t
  <1>6. Kept(s, t, Procs \ {p}) /\ t.pc[p] = at /\ t.wake[p] = "no"
    BY <1>1, <1>2, <1>4 DEF Kept
  <1>7. LoopOK(t)
    <2>1. \A q \in Procs : /\ t.pc[q] \in PlacesOf(q)
                           /\ On(t.line, q) <=> t.pc[q] \in InLine
                           /\ t.wake[q] # "no" => t.pc[q] \in Waiting
      BY <1>3, <1>4, <1>6 DEF LoopBut, Kept
    <2> QED BY <1>3, <1>4, <2>1 DEF LoopOK
  <1>8. Holds(s, t)
    BY <1>1, <1>4 DEF Holds
  <1> QED BY <1>4, <1>5, <1>6, <1>7, <1>8

LEMMA Readied ==
    ASSUME NEW s, LoopOK(s), NEW p \in Procs, s.pc[p] \in Waiting
    PROVE  LET t == Ready(s, p)
           IN  /\ LoopOK(t) /\ t.line = s.line /\ t.pc = s.pc
               /\ Kept(s, t, Procs \ {p}) /\ t.wake[p] = "ok"
  <1> DEFINE t == Ready(s, p)
  <1>1. /\ s.pc \in [Procs -> Places] /\ s.wake \in [Procs -> {"no", "ok", "err"}]
        /\ s.line \in Seq(Procs)
        /\ s \in [pc : [Procs -> Places], wake : [Procs -> {"no", "ok", "err"}],
                  line : Seq(Procs)]
    BY DEF LoopOK
  <1>2. /\ t.pc = s.pc /\ t.wake = [s.wake EXCEPT ![p] = "ok"] /\ t.line = s.line
        /\ t \in [pc : [Procs -> Places], wake : [Procs -> {"no", "ok", "err"}],
                  line : Seq(Procs)]
    BY <1>1 DEF Ready
  <1> HIDE DEF t
  <1>3. Kept(s, t, Procs \ {p}) /\ t.wake[p] = "ok"
    BY <1>1, <1>2 DEF Kept
  <1>4. LoopOK(t)
    BY <1>2, <1>3 DEF LoopOK, Kept
  <1> QED BY <1>2, <1>3, <1>4 DEF t

\* What a process does leaves every other caller alone, but may start the shared
\* reads; the behaviors are listed only while none is known.
Joined(s, t, p) ==
    /\ LoopOK(t) /\ Kept(s, t, Ops \ {p}) /\ Holds(s, t)
    /\ t.pc[BJob] = s.pc[BJob] \/ (t.pc[BJob] = "list" /\ behaviors = 0)

LEMMA BehaviorsJoined ==
    ASSUME NEW s, NEW p \in Procs, LoopBut(s, p), behaviors \in Nat,
           "onBehaviors" \in PlacesOf(p)
    PROVE  LET t == JoinBehaviors(s, p)
           IN  Joined(s, t, p) /\ t.pc[p] = "onBehaviors"
  <1> DEFINE u == Park(s, p, "onBehaviors")
             t == JoinBehaviors(s, p)
  <1>1. p # BJob /\ BJob \in Procs /\ Ops \subseteq Procs /\ BJob \notin Ops
    BY ThreeJobs, PlaceTypes
  <1>2. "onBehaviors" \notin InLine /\ "onBehaviors" \in Waiting /\ "off" \notin InLine
        /\ "list" \in PlacesOf(BJob) /\ "list" \in InLine
    BY PlaceTypes DEF InLine, Waiting
  <1>3. /\ LoopOK(u) /\ u.line = s.line /\ Kept(s, u, Procs \ {p})
        /\ u.pc[p] = "onBehaviors" /\ u.wake[p] = "no"
    BY <1>2, Parked
  <1>4. t = IF behaviors > 0 THEN Ready(u, p)
            ELSE IF u.pc[BJob] = "off" THEN Call(u, BJob, "list") ELSE u
    BY DEF JoinBehaviors
  <1> HIDE DEF u, t
  <1>5. CASE behaviors > 0
    <2>1. t = Ready(u, p)
      BY <1>4, <1>5
    <2>2. /\ LoopOK(t) /\ t.line = u.line /\ t.pc = u.pc /\ Kept(u, t, Procs \ {p})
      BY <1>2, <1>3, <2>1, Readied
    <2> QED BY <1>1, <1>3, <2>2 DEF Joined, Kept, Holds, t
  <1>6. CASE ~(behaviors > 0) /\ u.pc[BJob] = "off"
    <2>1. t = Call(u, BJob, "list")
      BY <1>4, <1>6
    <2>2. LoopBut(u, BJob)
      BY <1>1, <1>2, <1>3, <1>6, OffLine
    <2>3. /\ LoopOK(t) /\ Kept(u, t, Procs \ {BJob}) /\ Holds(u, t) /\ t.pc[BJob] = "list"
      <3>1. PICK v : v = Call(u, BJob, "list")
        OBVIOUS
      <3>2. PICK at : at = "list"
        OBVIOUS
      <3>3. at \in PlacesOf(BJob) /\ at \in InLine /\ v = Call(u, BJob, at) /\ BJob \in Procs
        BY <1>1, <1>2, <3>1, <3>2
      <3>4. LoopOK(v) /\ Kept(u, v, Procs \ {BJob}) /\ Holds(u, v) /\ v.pc[BJob] = at
        BY <2>2, <3>3, Called
      <3> QED BY <2>1, <3>1, <3>2, <3>4
    <2>4. t.pc[p] = "onBehaviors" /\ Kept(s, t, Ops \ {p}) /\ Holds(s, t)
      BY <1>1, <1>3, <2>3 DEF Kept, Holds
    <2>5. behaviors = 0
      BY <1>6
    <2> QED BY <1>4, <2>3, <2>4, <2>5 DEF Joined, t
  <1>7. CASE ~(behaviors > 0) /\ u.pc[BJob] # "off"
    <2>1. t = u
      BY <1>4, <1>7
    <2> QED BY <1>1, <1>3, <2>1 DEF Joined, Kept, Holds, t
  <1> QED BY <1>5, <1>6, <1>7

LEMMA LayoutsJoined ==
    ASSUME NEW s, NEW p \in Procs, LoopBut(s, p), "onLayouts" \in PlacesOf(p)
    PROVE  LET t == JoinLayouts(s, p)
           IN  Joined(s, t, p) /\ t.pc[p] = "onLayouts"
  <1> DEFINE u == Park(s, p, "onLayouts")
             t == JoinLayouts(s, p)
  <1>1. /\ p # LJob /\ LJob \in Procs /\ Ops \subseteq Procs /\ LJob \notin Ops
        /\ p # BJob /\ BJob \in Procs /\ LJob # BJob
    BY ThreeJobs, PlaceTypes
  <1>2. "onLayouts" \notin InLine /\ "onLayouts" \in Waiting /\ "off" \notin InLine
        /\ "rpc" \in PlacesOf(LJob) /\ "rpc" \in InLine
    BY PlaceTypes DEF InLine, Waiting
  <1>3. /\ LoopOK(u) /\ u.line = s.line /\ Kept(s, u, Procs \ {p})
        /\ u.pc[p] = "onLayouts" /\ u.wake[p] = "no"
    BY <1>2, Parked
  <1>4. t = IF layouts # None THEN Ready(u, p)
            ELSE IF u.pc[LJob] = "off" THEN Call(u, LJob, "rpc") ELSE u
    BY DEF JoinLayouts
  <1> HIDE DEF u, t
  <1>5. CASE layouts # None
    <2>1. t = Ready(u, p)
      BY <1>4, <1>5
    <2>2. /\ LoopOK(t) /\ t.line = u.line /\ t.pc = u.pc /\ Kept(u, t, Procs \ {p})
      BY <1>2, <1>3, <2>1, Readied
    <2> QED BY <1>1, <1>3, <2>2 DEF Joined, Kept, Holds, t
  <1>6. CASE ~(layouts # None) /\ u.pc[LJob] = "off"
    <2>1. PICK at : at = "rpc"
      OBVIOUS
    <2>2. LoopBut(u, LJob)
      BY <1>1, <1>2, <1>3, <1>6, OffLine
    <2>3. at \in PlacesOf(LJob) /\ at \in InLine /\ t = Call(u, LJob, at)
      BY <1>2, <1>4, <1>6, <2>1
    <2>4. LoopOK(t) /\ Kept(u, t, Procs \ {LJob}) /\ Holds(u, t)
      BY <1>1, <2>2, <2>3, Called
    <2>5. /\ t.pc[p] = "onLayouts" /\ Kept(s, t, Ops \ {p}) /\ Holds(s, t)
          /\ t.pc[BJob] = s.pc[BJob]
      BY <1>1, <1>3, <2>4 DEF Kept, Holds
    <2> QED BY <2>4, <2>5 DEF Joined, t
  <1>7. CASE ~(layouts # None) /\ u.pc[LJob] # "off"
    <2>1. t = u
      BY <1>4, <1>7
    <2> QED BY <1>1, <1>3, <2>1 DEF Joined, Kept, Holds, t
  <1> QED BY <1>5, <1>6, <1>7

LEMMA KeymapJoined ==
    ASSUME NEW s, NEW p \in Ops, LoopBut(s, p), behaviors \in Nat, NEW at \in PlacesOf(p),
           at \in {"onKeymap", "aim", "aimAgain"}
    PROVE  LET t == JoinKeymap(s, p, at)
           IN  Joined(s, t, p) /\ t.pc[p] = at /\ t.wake[p] = "no"
  <1> DEFINE u == Park(s, p, at)
             t == JoinKeymap(s, p, at)
  <1>1. /\ p # KJob /\ KJob \in Procs /\ Ops \subseteq Procs /\ KJob \notin Ops
        /\ p # BJob /\ BJob \in Procs /\ KJob # BJob /\ p \in Procs
    BY ThreeJobs
  <1>2. at \notin InLine /\ "off" \notin InLine /\ "onBehaviors" \in PlacesOf(KJob)
    BY PlaceTypes DEF InLine
  <1>3. /\ LoopOK(u) /\ u.line = s.line /\ Kept(s, u, Procs \ {p})
        /\ u.pc[p] = at /\ u.wake[p] = "no"
    BY <1>1, <1>2, Parked
  <1>4. t = IF u.pc[KJob] = "off" THEN JoinBehaviors(u, KJob) ELSE u
    BY DEF JoinKeymap
  <1> HIDE DEF u, t
  <1>5. CASE u.pc[KJob] = "off"
    <2>1. t = JoinBehaviors(u, KJob)
      BY <1>4, <1>5
    <2>2. LoopBut(u, KJob)
      BY <1>1, <1>2, <1>3, <1>5, OffLine
    <2>3. Joined(u, t, KJob)
      BY <1>1, <1>2, <2>1, <2>2, BehaviorsJoined
    <2> QED BY <1>1, <1>3, <2>3 DEF Joined, Kept, Holds, t
  <1>6. CASE u.pc[KJob] # "off"
    <2>1. t = u
      BY <1>4, <1>6
    <2> QED BY <1>1, <1>3, <2>1 DEF Joined, Kept, Holds, t
  <1> QED BY <1>5, <1>6

\* A shared read that settles wakes who awaits it, and nobody else moves.
LEMMA JobSettled ==
    ASSUME NEW s, NEW j \in Jobs, LoopBut(s, j), NEW how \in {"ok", "err"}
    PROVE  LET t == SettleJob(s, j, how)
           IN  /\ LoopOK(t) /\ t.line = s.line /\ t.pc[j] = "off"
               /\ \A q \in Procs \ {j} :
                     /\ t.pc[q] = s.pc[q]
                     /\ t.wake[q] = s.wake[q] \/ (t.wake[q] = how /\ s.pc[q] \in Awaits(j))
  <1> DEFINE t == SettleJob(s, j, how)
             W(p) == IF p = j THEN "no"
                     ELSE IF s.pc[p] \in Awaits(j) /\ s.wake[p] = "no" THEN how
                     ELSE s.wake[p]
  <1>1. /\ s.pc \in [Procs -> Places] /\ s.wake \in [Procs -> {"no", "ok", "err"}]
        /\ s.line \in Seq(Procs)
        /\ s \in [pc : [Procs -> Places], wake : [Procs -> {"no", "ok", "err"}],
                  line : Seq(Procs)]
        /\ j \in Procs
    BY ThreeJobs DEF LoopBut
  <1>2. Awaits(j) \subseteq Waiting /\ "off" \in PlacesOf(j) /\ "off" \in Places
        /\ "off" \notin InLine
    BY ThreeJobs, PlaceTypes DEF Awaits, Jobs, Waiting, Places, InLine
  <1>3. \A p \in Procs : W(p) \in {"no", "ok", "err"}
    BY <1>1
  <1>4. /\ t.pc = [s.pc EXCEPT ![j] = "off"] /\ t.wake = [p \in Procs |-> W(p)]
        /\ t.line = s.line
        /\ t \in [pc : [Procs -> Places], wake : [Procs -> {"no", "ok", "err"}],
                  line : Seq(Procs)]
    BY <1>1, <1>2, <1>3 DEF SettleJob
  <1> HIDE DEF t
  <1>5. /\ t.pc[j] = "off" /\ t.wake[j] = "no"
        /\ \A q \in Procs \ {j} :
              /\ t.pc[q] = s.pc[q]
              /\ t.wake[q] = s.wake[q] \/ (t.wake[q] = how /\ s.pc[q] \in Awaits(j))
    BY <1>1, <1>4
  <1>6. LoopOK(t)
    BY <1>2, <1>4, <1>5 DEF LoopOK, LoopBut
  <1> QED BY <1>4, <1>5, <1>6 DEF t

(***************************************************************************)
(* The inductive invariant.                                                *)
(***************************************************************************)
BehaviorsOK ==
    /\ behaviors \in 0..BehaviorCount
    /\ loop.pc[BJob] = "list" => behaviors = 0
    /\ loop.pc[BJob] = "details" => behaviors < BehaviorCount
LayoutsOK == layouts \in Layouts \cup {None}

\* The history ends with the keyboard's layers, and the client has heard of all
\* of it but for the answer under way.
HistOK ==
    /\ dev \in Device /\ Distinct(dev.layers) /\ Distinct(dev.savedLayers)
    /\ hist \in Seq(Seq(Layer)) /\ Len(hist) > 0
    /\ \A g \in 1..Len(hist) : Distinct(hist[g])
    /\ hist[Len(hist)] = dev.layers
    /\ seen \in 1..Len(hist)
    /\ reply = None => seen = Len(hist)
CacheOK == cached = None \/ cached = KeymapOf(hist[seen])

Result == [how : {"none", "ok", "err"}, layers : Seq(Layer), known : Nat]
CallTypes ==
    /\ req \in [Ops -> Requests \cup {NoRequest}] /\ idx \in [Ops -> Nat]
    /\ result \in [Ops -> Result]
    /\ since \in [Ops -> Nat] /\ aimed \in [Ops -> Nat]
    /\ fetched \in [layers : Seq(Layer), known : Nat]

\* What a caller waits for agrees with the method it called.
Silent == {"actionTypes", "physicalLayouts", "getKeymap", "source"}
KindAt(at) == CASE at = "onBehaviors" -> {"actionTypes"}
                [] at = "onLayouts" -> {"physicalLayouts", "setLayout"}
                [] at = "onKeymap" -> {"getKeymap", "source"}
                [] at \in {"aim", "aimAgain"} -> {"removeLayer"}
                [] at = "rpc" -> Kinds \ Silent
                [] OTHER -> Kinds

\* The layers were the keyboard's, no earlier than o was called.
Recent(o, layers) == \E g \in since[o]..Len(hist) : layers = hist[g]

\* One call: a shared read that served it is recent, a removal sent is aimed at
\* the layer it names.
CallOK(o) ==
    /\ req[o].kind \in KindAt(loop.pc[o])
    /\ loop.pc[o] # "done" => result[o].how = "none"
    /\ since[o] \in 1..seen /\ aimed[o] \in 1..Len(hist)
    /\ loop.pc[o] \in {"aim", "aimAgain"} /\ loop.wake[o] = "ok" => cached # None
    /\ loop.pc[o] = "rpc" /\ req[o].kind = "removeLayer" =>
          idx[o] \in DOMAIN hist[aimed[o]] /\ hist[aimed[o]][idx[o]].id = req[o].id
    /\ loop.pc[o] = "onKeymap" /\ loop.wake[o] = "ok" => Recent(o, fetched.layers)
    /\ result[o].how = "ok" /\ req[o].kind \in {"getKeymap", "source"} =>
          Recent(o, result[o].layers)
Calls == \A o \in Ops : CallOK(o)

\* The operation of o, repeated on ls; the keyboard's id for a new layer is id.
Sane(o, ls) ==
    LET r == req[o] IN
    CASE r.kind = "removeLayer" -> idx[o] \in 1..Len(ls)
      [] r.kind = "moveLayer" -> r.at \in 1..Len(ls) /\ r.to \in 1..Len(ls)
      [] r.kind = "restoreLayer" -> /\ r.at \in 1..Len(ls) + 1 /\ r.id \in Ids
                                    /\ r.id \notin IdsOf(ls)
      [] OTHER -> TRUE
Repeated(o, ls, id) ==
    LET r == req[o] IN
    CASE r.kind = "setKey" -> WithVal(ls, r.id, Edited)
      [] r.kind = "addLayer" -> Append(ls, [id |-> id, val |-> Fresh])
      [] r.kind = "removeLayer" -> Without(ls, idx[o])
      [] r.kind = "moveLayer" -> Inserted(Without(ls, r.at), r.to, ls[r.at])
      [] r.kind = "restoreLayer" -> Inserted(ls, r.at, [id |-> r.id, val |-> Fresh])
      [] OTHER -> ls

\* An answer under way tells the keyboard's state, which is what the client
\* knows with the accepted operation repeated on it.
Told(o) ==
    req[o].kind \notin {"discard", "reset"} =>
        /\ Sane(o, hist[seen])
        /\ req[o].kind = "addLayer" => reply.id \in Ids /\ reply.id \notin IdsOf(hist[seen])
        /\ dev.layers = Repeated(o, hist[seen], reply.id)
AnswerOK ==
    reply # None =>
        /\ reply \in Answer /\ reply.dev = dev /\ reply.gen = Len(hist) /\ loop.line # <<>>
        /\ Head(loop.line) \in Ops /\ reply.ok => Told(Head(loop.line))
        /\ ~(Head(loop.line) \in Ops /\ reply.ok) => dev.layers = hist[seen]

\* What the last notification under way says, or else the client, is true, and
\* so will be what the answer under way makes of it.
Edits == {"setKey", "addLayer", "removeLayer", "moveLayer", "restoreLayer"}
Says(o) ==
    /\ req[o].kind \in Edits => dev.unsaved
    /\ req[o].kind \in {"commit", "discard", "reset"} => ~dev.unsaved
PendingOK ==
    /\ pendingChanges \in BOOLEAN /\ notes \in Seq(BOOLEAN)
    /\ notes = <<>> => pendingChanges = dev.unsaved
    /\ notes # <<>> => notes[Len(notes)] = dev.unsaved
    /\ reply # None /\ reply.ok /\ Head(loop.line) \in Ops => Says(Head(loop.line))

IInv ==
    /\ LoopOK(loop) /\ BehaviorsOK /\ LayoutsOK /\ HistOK /\ CacheOK
    /\ CallTypes /\ Calls /\ AnswerOK /\ PendingOK

\* The arguments a method can be called with.
LEMMA RequestArguments ==
    /\ Requests \cup {NoRequest} \subseteq Request
    /\ \A r \in Requests \cup {NoRequest} :
          /\ r.kind \in {"removeLayer", "restoreLayer"} => r.id \in Ids
          /\ r.kind = "setLayout" => r.at \in Layouts
  <1> DEFINE R(k, id, at, to) == [kind |-> k, id |-> id, at |-> at, to |-> to]
  <1>1. Ids \subseteq Nat /\ MaxLayers \in Nat /\ Layouts = {0, 1}
    BY KeyboardAssumption DEF Layouts
  <1>2. NoRequest \in Request /\ NoRequest.kind = "commit"
    BY DEF NoRequest, Request, Kinds
  <1>3. SUFFICES ASSUME NEW r \in Requests
                 PROVE  /\ r \in Request
                        /\ r.kind \in {"removeLayer", "restoreLayer"} => r.id \in Ids
                        /\ r.kind = "setLayout" => r.at \in Layouts
    BY <1>2
  <1>4. \/ \E k \in {"setKey", "removeLayer"}, id \in Ids : r = R(k, id, 0, 0)
        \/ \E i, j \in 1..MaxLayers : r = R("moveLayer", 0, i, j)
        \/ \E id \in Ids, i \in 1..MaxLayers : r = R("restoreLayer", id, i, 0)
        \/ \E l \in Layouts : r = R("setLayout", 0, l, 0)
        \/ \E k \in {"addLayer", "commit", "discard", "reset", "refresh",
                     "getKeymap", "source", "actionTypes", "physicalLayouts"} :
              r = R(k, 0, 0, 0)
    BY <1>3 DEF Requests
  <1>5. CASE \E k \in {"setKey", "removeLayer"}, id \in Ids : r = R(k, id, 0, 0)
    BY <1>1, <1>5 DEF Request, Kinds
  <1>6. CASE \E i, j \in 1..MaxLayers : r = R("moveLayer", 0, i, j)
    BY <1>1, <1>6 DEF Request, Kinds
  <1>7. CASE \E id \in Ids, i \in 1..MaxLayers : r = R("restoreLayer", id, i, 0)
    BY <1>1, <1>7 DEF Request, Kinds
  <1>8. CASE \E l \in Layouts : r = R("setLayout", 0, l, 0)
    BY <1>1, <1>8 DEF Request, Kinds
  <1>9. CASE \E k \in {"addLayer", "commit", "discard", "reset", "refresh",
                       "getKeymap", "source", "actionTypes", "physicalLayouts"} :
                r = R(k, 0, 0, 0)
    BY <1>1, <1>9 DEF Request, Kinds
  <1> QED BY <1>4, <1>5, <1>6, <1>7, <1>8, <1>9

LEMMA InitIInv == Init => IInv
  <1> SUFFICES ASSUME Init PROVE IInv
    OBVIOUS
  <1>1. /\ StartLayers \in Seq(Layer) /\ Distinct(StartLayers)
        /\ BehaviorCount \in Nat \ {0} /\ MaxLayers \in Nat
    BY KeyboardAssumption DEF Layer, Distinct
  <1>2. LoopOK(loop)
    <2>1. loop.line = <<>> /\ <<>> \in Seq(Procs) /\ NoRepeat(<<>>)
          /\ \A p \in Procs : ~On(<<>>, p)
      BY DEF Init, NoRepeat, On
    <2>2. \A p \in Procs : /\ loop.pc[p] = IF p \in Ops THEN "idle" ELSE "off"
                           /\ loop.wake[p] = "no"
      BY DEF Init
    <2>3. loop \in [pc : [Procs -> Places], wake : [Procs -> {"no", "ok", "err"}],
                    line : Seq(Procs)]
      BY <2>1 DEF Init, Places
    <2>4. \A p \in Procs : loop.pc[p] \in PlacesOf(p) /\ loop.pc[p] \notin InLine
      BY <2>2, ThreeJobs DEF PlacesOf, InLine, Procs, Jobs
    <2> QED BY <2>1, <2>2, <2>3, <2>4 DEF LoopOK
  <1>3. BehaviorsOK /\ LayoutsOK /\ CacheOK
    BY <1>1, ThreeJobs DEF Init, BehaviorsOK, LayoutsOK, CacheOK, Procs
  <1>4. HistOK
    <2>1. dev \in Device /\ hist = <<StartLayers>> /\ Len(hist) = 1 /\ hist[1] = StartLayers
          /\ hist \in Seq(Seq(Layer)) /\ seen = 1 /\ dev.layers = StartLayers
          /\ dev.savedLayers = StartLayers
      BY <1>1 DEF Init, Device, Layouts
    <2>2. \A g \in 1..Len(hist) : g = 1
      BY <2>1
    <2> QED BY <1>1, <2>1, <2>2 DEF HistOK
  <1>5. CallTypes
    BY DEF Init, CallTypes, Result, Unsettled
  <1>6. Calls
    <2> SUFFICES ASSUME NEW o \in Ops PROVE CallOK(o)
      BY DEF Calls
    <2>1. loop.pc[o] = "idle" /\ req[o].kind = "commit" /\ result[o].how = "none"
          /\ since[o] = 1 /\ aimed[o] = 1 /\ seen = 1 /\ Len(hist) = 1
      BY ThreeJobs DEF Init, NoRequest, Unsettled
    <2> QED BY <2>1 DEF CallOK, KindAt, Kinds
  <1>7. AnswerOK
    BY DEF Init, AnswerOK
  <1>8. PendingOK
    <2>1. notes = <<>> /\ <<>> \in Seq(BOOLEAN) /\ reply = None /\ ~pendingChanges /\ ~dev.unsaved
      BY DEF Init
    <2> QED BY <2>1 DEF PendingOK, Init
  <1> QED BY <1>2, <1>3, <1>4, <1>5, <1>6, <1>7, <1>8 DEF IInv

(***************************************************************************)
(* Steps between two events: only callers move.                            *)
(***************************************************************************)
Rests(o) ==
    /\ loop'.pc[o] = loop.pc[o]
    /\ loop'.wake[o] = loop.wake[o] \/ loop'.wake[o] = "err"
    /\ req'[o] = req[o] /\ idx'[o] = idx[o] /\ result'[o] = result[o]
    /\ since'[o] = since[o] /\ aimed'[o] = aimed[o]

\* The callers of P move, none of them waiting for the mutex.
Quiet(P) ==
    /\ UNCHANGED <<cached, layouts, behaviors, fetched, pendingChanges, dev, reply,
                   notes, hist, seen>>
    /\ LoopOK(loop') /\ Holds(loop, loop')
    /\ loop'.pc[BJob] = loop.pc[BJob] \/ (loop'.pc[BJob] = "list" /\ behaviors = 0)
    /\ \A o \in Ops \ P : Rests(o)
    /\ \A o \in P : ~On(loop.line, o)

LEMMA QuietStep ==
    ASSUME IInv, NEW P \in SUBSET Ops, Quiet(P), CallTypes', \A o \in P : CallOK(o)'
    PROVE  IInv'
  <1> USE DEF IInv
  <1>1. UNCHANGED <<cached, layouts, behaviors, fetched, pendingChanges, dev, reply,
                    notes, hist, seen>>
    BY DEF Quiet
  <1>2. LoopOK(loop)'
    BY DEF Quiet
  <1>3. BehaviorsOK' /\ LayoutsOK' /\ HistOK' /\ CacheOK'
    BY <1>1, KeyboardAssumption DEF BehaviorsOK, LayoutsOK, HistOK, CacheOK, Quiet
  <1>4. ASSUME NEW o \in Ops PROVE CallOK(o)'
    <2>1. CASE o \in P
      BY <2>1
    <2>2. CASE o \notin P
      <3>1. Rests(o) /\ CallOK(o)
        BY <2>2 DEF Quiet, Calls
      <3>2. loop'.wake[o] = "ok" => loop.wake[o] = "ok"
        BY <3>1 DEF Rests
      <3> QED BY <1>1, <3>1, <3>2 DEF Rests, CallOK, Recent
    <2> QED BY <2>1, <2>2
  <1>5. reply # None => /\ loop.line # <<>> /\ loop'.line # <<>>
                        /\ Head(loop'.line) = Head(loop.line)
                        /\ Head(loop.line) \in Ops => Rests(Head(loop.line))
    <2> SUFFICES ASSUME reply # None
                 PROVE  /\ loop.line # <<>> /\ loop'.line # <<>>
                        /\ Head(loop'.line) = Head(loop.line)
                        /\ Head(loop.line) \in Ops => Rests(Head(loop.line))
      OBVIOUS
    <2>1. loop.line # <<>> /\ loop'.line # <<>> /\ Head(loop'.line) = Head(loop.line)
      BY DEF AnswerOK, Quiet, Holds
    <2>2. On(loop.line, Head(loop.line))
      <3>1. loop.line \in Seq(Procs)
        BY DEF LoopOK
      <3> QED BY <2>1, <3>1 DEF On
    <2> QED BY <2>1, <2>2 DEF Quiet
  <1>6. AnswerOK'
    <2> SUFFICES ASSUME reply # None PROVE AnswerOK'
      BY <1>1 DEF AnswerOK
    <2>1. PICK h : h = Head(loop.line)
      OBVIOUS
    <2>2. Head(loop'.line) = h /\ loop'.line # <<>> /\ (h \in Ops => Rests(h))
      BY <1>5, <2>1
    <2>3. /\ reply \in Answer /\ reply.dev = dev /\ reply.gen = Len(hist)
          /\ h \in Ops /\ reply.ok => Told(h)
          /\ ~(h \in Ops /\ reply.ok) => dev.layers = hist[seen]
      BY <2>1 DEF AnswerOK
    <2>4. h \in Ops /\ reply.ok => Told(h)'
      BY <1>1, <2>2, <2>3 DEF Told, Rests, Sane, Repeated
    <2> QED BY <1>1, <2>2, <2>3, <2>4 DEF AnswerOK
  <1>7. PendingOK'
    <2>1. reply # None =>
              /\ Head(loop'.line) = Head(loop.line)
              /\ Head(loop.line) \in Ops /\ Says(Head(loop.line)) => Says(Head(loop.line))'
      BY <1>1, <1>5 DEF Says, Rests
    <2> QED BY <1>1, <2>1 DEF PendingOK
  <1> QED BY <1>2, <1>3, <1>4, <1>6, <1>7 DEF Calls

\* The caller o moves to `at', the others stay.
Moved(o, at) == Joined(loop, loop', o) /\ loop'.pc[o] = at

LEMMA CallerMoves ==
    ASSUME IInv, NEW o \in Ops, ~On(loop.line, o), NEW at, Moved(o, at),
           UNCHANGED <<cached, layouts, behaviors, fetched, pendingChanges, dev, reply,
                       notes, hist, seen>>,
           CallTypes', CallOK(o)',
           \A x \in Ops \ {o} : /\ req'[x] = req[x] /\ idx'[x] = idx[x]
                                /\ result'[x] = result[x]
                                /\ since'[x] = since[x] /\ aimed'[x] = aimed[x]
    PROVE  IInv'
  <1>1. Quiet({o})
    BY DEF Quiet, Moved, Joined, Kept, Rests
  <1> QED BY <1>1, QuietStep

LEMMA OffLineCaller ==
    ASSUME IInv, NEW o \in Ops, loop.pc[o] # "rpc"
    PROVE  /\ LoopBut(loop, o) /\ ~On(loop.line, o) /\ o \in Procs
           /\ result[o].how = "none" \/ loop.pc[o] = "done"
  <1>1. LoopOK(loop) /\ o \in Procs /\ CallOK(o)
    BY ThreeJobs DEF IInv, Calls
  <1>2. loop.pc[o] \notin InLine
    BY <1>1, PlaceTypes DEF LoopOK, InLine, Waiting
  <1> QED BY <1>1, <1>2, OffLine DEF CallOK

LEMMA Sends ==
    ASSUME NEW o \in Ops, LoopBut(loop, o), loop' = Call(loop, o, "rpc")
    PROVE  Moved(o, "rpc")
  <1>1. PICK at : at = "rpc"
    OBVIOUS
  <1>2. PICK u : u = Call(loop, o, at)
    OBVIOUS
  <1>3. at \in PlacesOf(o) /\ at \in InLine /\ o \in Procs
    BY <1>1, PlaceTypes, ThreeJobs DEF InLine
  <1>4. /\ LoopOK(u) /\ Kept(loop, u, Procs \ {o}) /\ Holds(loop, u) /\ u.pc[o] = at
    BY <1>2, <1>3, Called
  <1> QED BY <1>1, <1>2, <1>4, ThreeJobs DEF Moved, Joined, Kept

LEMMA Finishes ==
    ASSUME NEW o \in Ops, LoopBut(loop, o), loop' = Finish(loop, o)
    PROVE  Moved(o, "done")
  <1>1. loop' = Park(loop, o, "done")
    BY DEF Finish
  <1>2. "done" \in PlacesOf(o) /\ "done" \notin InLine /\ o \in Procs
    BY PlaceTypes, ThreeJobs DEF InLine
  <1>3. /\ LoopOK(loop') /\ loop'.line = loop.line /\ Kept(loop, loop', Procs \ {o})
        /\ loop'.pc[o] = "done"
    BY <1>1, <1>2, Parked
  <1> QED BY <1>3, ThreeJobs DEF Moved, Joined, Kept, Holds

LEMMA IssueStep ==
    ASSUME IInv, NEW o \in Ops, Issue(o)
    PROVE  IInv'
  <1> USE DEF IInv
  <1>1. /\ loop.pc[o] = "idle"
        /\ UNCHANGED <<idx, cached, layouts, behaviors, fetched, pendingChanges,
                       dev, reply, notes, hist, seen, aimed>>
        /\ since' = [since EXCEPT ![o] = seen]
    BY DEF Issue
  <1>2. LoopBut(loop, o) /\ ~On(loop.line, o) /\ o \in Procs /\ result[o].how = "none"
    BY <1>1, OffLineCaller
  <1>3. PICK r \in Requests :
          /\ r.kind \in Offers[o]
          /\ req' = [req EXCEPT ![o] = r]
          /\ loop' = CASE r.kind = "actionTypes" -> JoinBehaviors(loop, o)
                     [] r.kind = "physicalLayouts" -> JoinLayouts(loop, o)
                     [] r.kind = "getKeymap" -> JoinKeymap(loop, o, "onKeymap")
                     [] r.kind = "source" /\ Warm -> Finish(loop, o)
                     [] r.kind = "source" /\ ~Warm -> JoinKeymap(loop, o, "onKeymap")
                     [] r.kind = "removeLayer" /\ cached # None ->
                            Ready(Park(loop, o, "aim"), o)
                     [] r.kind = "removeLayer" /\ cached = None ->
                            JoinKeymap(loop, o, "aim")
                     [] OTHER -> Call(loop, o, "rpc")
          /\ result' = IF r.kind = "source" /\ Warm
                         THEN [result EXCEPT ![o] = [how |-> "ok", known |-> behaviors,
                                                     layers |-> cached.layers]]
                         ELSE result
    BY DEF Issue
  <1>4. /\ behaviors \in Nat /\ seen \in Nat /\ seen \in 1..Len(hist) /\ Len(hist) \in Nat
        /\ cached # None => cached.layers \in Seq(Layer) /\ cached.layers = hist[seen]
    BY KeyboardAssumption DEF BehaviorsOK, HistOK, CacheOK, KeymapOf
  <1>5. r.kind \in Kinds
    BY RequestArguments DEF Request
  <1>6. CallTypes'
    <2>1. result' \in [Ops -> Result]
      BY <1>3, <1>4 DEF CallTypes, Result, Warm
    <2> QED BY <1>1, <1>3, <1>4, <2>1 DEF CallTypes
  <1>7. /\ req'[o] = r /\ since'[o] = seen /\ aimed'[o] = aimed[o]
        /\ aimed[o] \in 1..Len(hist)
    BY <1>1, <1>3 DEF CallTypes, Calls, CallOK
  <1>8. \A x \in Ops \ {o} : /\ req'[x] = req[x] /\ idx'[x] = idx[x]
                             /\ result'[x] = result[x]
                             /\ since'[x] = since[x] /\ aimed'[x] = aimed[x]
    BY <1>1, <1>3 DEF CallTypes
  <1>9. /\ {"onBehaviors", "onLayouts", "onKeymap", "aim", "rpc", "done"} \subseteq PlacesOf(o)
        /\ {"onBehaviors", "onLayouts", "onKeymap", "aim", "done"} \cap InLine = {}
        /\ "rpc" \in InLine /\ "aim" \in Waiting
    BY PlaceTypes DEF Waiting, InLine
  <1>10. ASSUME NEW at, Moved(o, at), r.kind \in KindAt(at), at \notin {"done", "rpc"},
                result' = result,
                at \in {"aim", "aimAgain"} /\ loop'.wake[o] = "ok" => cached # None,
                at = "onKeymap" => loop'.wake[o] = "no"
         PROVE  IInv'
    <2>1. CallOK(o)'
      BY <1>1, <1>2, <1>4, <1>7, <1>10 DEF CallOK, Moved
    <2> QED BY <1>1, <1>2, <1>6, <1>8, <1>10, <2>1, CallerMoves
  <1>11. CASE r.kind = "actionTypes"
    <2>1. loop' = JoinBehaviors(loop, o) /\ result' = result
      BY <1>3, <1>11
    <2>2. Moved(o, "onBehaviors")
      BY <1>2, <1>4, <1>9, <2>1, BehaviorsJoined DEF Moved
    <2> QED BY <1>10, <1>11, <2>1, <2>2 DEF KindAt
  <1>12. CASE r.kind = "physicalLayouts"
    <2>1. loop' = JoinLayouts(loop, o) /\ result' = result
      BY <1>3, <1>12
    <2>2. Moved(o, "onLayouts")
      BY <1>2, <1>9, <2>1, LayoutsJoined DEF Moved
    <2> QED BY <1>10, <1>12, <2>1, <2>2 DEF KindAt
  <1>13. CASE r.kind \in {"getKeymap", "source"} /\ ~(r.kind = "source" /\ Warm)
    <2>1. loop' = JoinKeymap(loop, o, "onKeymap") /\ result' = result
      BY <1>3, <1>13
    <2>2. Moved(o, "onKeymap") /\ loop'.wake[o] = "no"
      BY <1>2, <1>4, <1>9, <2>1, KeymapJoined DEF Moved
    <2> QED BY <1>10, <1>13, <2>1, <2>2 DEF KindAt
  <1>14. CASE r.kind = "source" /\ Warm
    <2>1. loop' = Finish(loop, o)
          /\ result' = [result EXCEPT ![o] = [how |-> "ok", known |-> behaviors,
                                              layers |-> cached.layers]]
      BY <1>3, <1>14
    <2>2. Moved(o, "done")
      BY <1>2, <2>1, Finishes
    <2>3. result'[o].layers = hist[seen]
      BY <1>4, <1>14, <2>1 DEF CallTypes, Warm
    <2>4. CallOK(o)'
      BY <1>1, <1>4, <1>5, <1>7, <2>2, <2>3 DEF CallOK, Moved, KindAt, Recent
    <2> QED BY <1>1, <1>2, <1>6, <1>8, <2>2, <2>4, CallerMoves
  <1>15. CASE r.kind = "removeLayer" /\ cached # None
    <2>1. loop' = Ready(Park(loop, o, "aim"), o) /\ result' = result
      BY <1>3, <1>15
    <2>2. PICK u : u = Park(loop, o, "aim")
      OBVIOUS
    <2>3. LoopOK(u) /\ u.line = loop.line /\ Kept(loop, u, Procs \ {o}) /\ u.pc[o] = "aim"
      BY <1>2, <1>9, <2>2, Parked
    <2>4. /\ LoopOK(loop') /\ loop'.line = u.line /\ loop'.pc = u.pc
          /\ Kept(u, loop', Procs \ {o})
      BY <1>2, <1>9, <2>1, <2>2, <2>3, Readied
    <2>5. Moved(o, "aim")
      BY <2>3, <2>4, ThreeJobs DEF Moved, Joined, Kept, Holds
    <2> QED BY <1>10, <1>15, <2>1, <2>5 DEF KindAt
  <1>16. CASE r.kind = "removeLayer" /\ cached = None
    <2>1. loop' = JoinKeymap(loop, o, "aim") /\ result' = result
      BY <1>3, <1>16
    <2>2. Moved(o, "aim") /\ loop'.wake[o] = "no"
      BY <1>2, <1>4, <1>9, <2>1, KeymapJoined DEF Moved
    <2> QED BY <1>10, <1>16, <2>1, <2>2 DEF KindAt
  <1>17. CASE r.kind \in Kinds \ ({"removeLayer"} \cup Silent)
    <2>1. loop' = Call(loop, o, "rpc") /\ result' = result
      BY <1>3, <1>17 DEF Silent
    <2>2. Moved(o, "rpc")
      BY <1>2, <2>1, Sends
    <2>3. CallOK(o)'
      BY <1>1, <1>2, <1>4, <1>7, <1>17, <2>1, <2>2 DEF CallOK, Moved, KindAt
    <2> QED BY <1>1, <1>2, <1>6, <1>8, <2>2, <2>3, CallerMoves
  <1> QED BY <1>5, <1>11, <1>12, <1>13, <1>14, <1>15, <1>16, <1>17 DEF Silent

LEMMA ResumeStep ==
    ASSUME IInv, NEW o \in Ops, Resume(o)
    PROVE  IInv'
  <1> USE DEF IInv
  <1>1. /\ loop.wake[o] # "no" /\ loop.pc[o] \in {"onBehaviors", "onLayouts", "onKeymap"}
        /\ loop' = Finish(loop, o)
        /\ result' = [result EXCEPT ![o] =
              IF loop.wake[o] = "err" THEN [Unsettled EXCEPT !.how = "err"]
              ELSE CASE loop.pc[o] = "onKeymap" -> [how |-> "ok", layers |-> fetched.layers,
                                                    known |-> fetched.known]
                     [] OTHER -> [Unsettled EXCEPT !.how = "ok", !.known = behaviors]]
        /\ UNCHANGED <<req, idx, cached, layouts, behaviors, fetched,
                       pendingChanges, dev, reply, notes, hist, seen, since, aimed>>
    BY DEF Resume
  <1>2. LoopBut(loop, o) /\ ~On(loop.line, o) /\ o \in Procs
    BY <1>1, OffLineCaller
  <1>3. Moved(o, "done")
    BY <1>1, <1>2, Finishes
  <1>4. behaviors \in Nat /\ fetched \in [layers : Seq(Layer), known : Nat]
        /\ result \in [Ops -> Result] /\ loop.wake[o] \in {"ok", "err"}
    BY <1>1, <1>2, KeyboardAssumption DEF BehaviorsOK, CallTypes, LoopOK
  <1>5. /\ result'[o] \in Result
        /\ result'[o].how = "ok" /\ loop.pc[o] = "onKeymap" =>
              loop.wake[o] = "ok" /\ result'[o].layers = fetched.layers
    <2>0. <<>> \in Seq(Layer)
      OBVIOUS
    <2>1. CASE loop.wake[o] = "err"
      <3>1. result'[o] = [how |-> "err", layers |-> <<>>, known |-> 0]
        BY <1>1, <1>4, <2>1 DEF Unsettled
      <3> QED BY <2>0, <3>1 DEF Result
    <2>2. CASE loop.wake[o] = "ok" /\ loop.pc[o] = "onKeymap"
      BY <1>1, <1>4, <2>2 DEF Result
    <2>3. CASE loop.wake[o] = "ok" /\ loop.pc[o] # "onKeymap"
      <3>1. result'[o] = [how |-> "ok", layers |-> <<>>, known |-> behaviors]
        BY <1>1, <1>4, <2>3 DEF Unsettled
      <3> QED BY <1>4, <2>0, <2>3, <3>1 DEF Result
    <2> QED BY <1>4, <2>1, <2>2, <2>3
  <1>6. CallTypes' /\ \A x \in Ops \ {o} : result'[x] = result[x]
    <2>1. result' \in [Ops -> Result]
      BY <1>1, <1>4, <1>5
    <2> QED BY <1>1, <1>4, <2>1 DEF CallTypes
  <1>7. CallOK(o)'
    <2>1. CallOK(o)
      BY DEF Calls
    <2>2. req[o].kind \in Kinds
      BY RequestArguments DEF CallTypes, Request
    <2>3. result'[o].how = "ok" /\ req[o].kind \in {"getKeymap", "source"} =>
              Recent(o, result'[o].layers)
      BY <1>1, <1>5, <2>1 DEF CallOK, KindAt
    <2>4. result'[o].how = "ok" /\ req'[o].kind \in {"getKeymap", "source"} =>
              Recent(o, result[o].layers)'
      BY <1>1, <2>3 DEF Recent
    <2> QED BY <1>1, <1>3, <2>1, <2>2, <2>4 DEF CallOK, Moved, KindAt
  <1> QED BY <1>1, <1>2, <1>3, <1>6, <1>7, CallerMoves

LEMMA AimStep ==
    ASSUME IInv, NEW o \in Ops, Aim(o)
    PROVE  IInv'
  <1> USE DEF IInv
  <1>1. /\ loop.wake[o] = "ok" /\ loop.pc[o] \in {"aim", "aimAgain"}
        /\ req[o].id \in IdsOf(cached.layers)
        /\ idx' = [idx EXCEPT ![o] = IndexIn(req[o].id)]
        /\ aimed' = [aimed EXCEPT ![o] = seen]
        /\ loop' = Call(loop, o, "rpc")
        /\ UNCHANGED <<req, result, cached, layouts, behaviors, fetched,
                       pendingChanges, dev, reply, notes, hist, seen, since>>
    BY DEF Aim
  <1>2. LoopBut(loop, o) /\ ~On(loop.line, o) /\ o \in Procs
    BY <1>1, OffLineCaller
  <1>3. Moved(o, "rpc")
    BY <1>1, <1>2, Sends
  <1>4. CallOK(o)
    BY DEF Calls
  <1>5. cached.layers = hist[seen] /\ hist[seen] \in Seq(Layer) /\ seen \in 1..Len(hist)
    BY <1>1, <1>4 DEF CallOK, CacheOK, HistOK, KeymapOf
  <1>6. IndexIn(req[o].id) \in DOMAIN hist[seen]
        /\ hist[seen][IndexIn(req[o].id)].id = req[o].id
    BY <1>1, <1>5 DEF IndexIn, IdsOf
  <1>7. /\ idx \in [Ops -> Nat] /\ aimed \in [Ops -> Nat] /\ IndexIn(req[o].id) \in Nat
        /\ seen \in Nat
    BY <1>5, <1>6 DEF CallTypes, HistOK
  <1>8. CallTypes' /\ idx'[o] = IndexIn(req[o].id) /\ aimed'[o] = seen
        /\ \A x \in Ops \ {o} : idx'[x] = idx[x] /\ aimed'[x] = aimed[x]
    BY <1>1, <1>7 DEF CallTypes
  <1>9. CallOK(o)'
    <2>1. req[o].kind = "removeLayer"
      BY <1>1, <1>4 DEF CallOK, KindAt
    <2>2. idx'[o] \in DOMAIN hist'[aimed'[o]] /\ hist'[aimed'[o]][idx'[o]].id = req'[o].id
      BY <1>1, <1>6, <1>8
    <2> QED BY <1>1, <1>3, <1>4, <1>5, <1>8, <2>1, <2>2 DEF CallOK, Moved, KindAt, Kinds, Silent
  <1> QED BY <1>1, <1>2, <1>3, <1>8, <1>9, CallerMoves

LEMMA AimMissesStep ==
    ASSUME IInv, NEW o \in Ops, AimMisses(o)
    PROVE  IInv'
  <1> USE DEF IInv
  <1>1. /\ loop.wake[o] # "no" /\ loop.pc[o] \in {"aim", "aimAgain"}
        /\ UNCHANGED <<req, idx, cached, layouts, behaviors, fetched,
                       pendingChanges, dev, reply, notes, hist, seen, since, aimed>>
        /\ \/ loop' = JoinKeymap(loop, o, "aimAgain") /\ result' = result
           \/ loop' = Finish(loop, o) /\ result' = [result EXCEPT ![o].how = "err"]
    BY DEF AimMisses, Done
  <1>2. LoopBut(loop, o) /\ ~On(loop.line, o) /\ o \in Procs
    BY <1>1, OffLineCaller
  <1>3. CallOK(o) /\ behaviors \in Nat /\ result \in [Ops -> Result]
    BY KeyboardAssumption DEF Calls, BehaviorsOK, CallTypes
  <1>4. req[o].kind = "removeLayer"
    BY <1>1, <1>3 DEF CallOK, KindAt
  <1>5. CASE loop' = JoinKeymap(loop, o, "aimAgain") /\ result' = result
    <2>1. "aimAgain" \in PlacesOf(o)
      BY PlaceTypes DEF Waiting
    <2>2. Moved(o, "aimAgain") /\ loop'.wake[o] = "no"
      BY <1>2, <1>3, <1>5, <2>1, KeymapJoined DEF Moved
    <2>3. CallTypes'
      BY <1>1, <1>5 DEF CallTypes
    <2>4. CallOK(o)'
      BY <1>1, <1>3, <1>4, <1>5, <2>2 DEF CallOK, Moved, KindAt
    <2> QED BY <1>1, <1>2, <1>5, <2>2, <2>3, <2>4, CallerMoves
  <1>6. CASE loop' = Finish(loop, o) /\ result' = [result EXCEPT ![o].how = "err"]
    <2>1. Moved(o, "done")
      BY <1>2, <1>6, Finishes
    <2>2. result' \in [Ops -> Result] /\ \A x \in Ops \ {o} : result'[x] = result[x]
      BY <1>3, <1>6 DEF Result
    <2>3. CallTypes'
      BY <1>1, <2>2 DEF CallTypes
    <2>4. CallOK(o)'
      BY <1>1, <1>3, <1>4, <1>6, <2>1 DEF CallOK, Moved, KindAt, Kinds
    <2> QED BY <1>1, <1>2, <2>1, <2>2, <2>3, <2>4, CallerMoves
  <1> QED BY <1>1, <1>5, <1>6

LEMMA KeymapGoesOnStep ==
    ASSUME IInv, KeymapGoesOn
    PROVE  IInv'
  <1> USE DEF IInv
  <1>1. /\ loop.wake[KJob] # "no"
        /\ \/ loop' = SettleJob(loop, KJob, "err")
           \/ loop' = JoinLayouts(loop, KJob)
           \/ loop' = Call(loop, KJob, "rpc")
        /\ UNCHANGED <<req, idx, result, cached, layouts, behaviors, fetched,
                       pendingChanges, dev, reply, notes, hist, seen, since, aimed>>
    BY DEF KeymapGoesOn
  <1>2. /\ KJob \in Procs /\ KJob \in Jobs /\ Ops \subseteq Procs /\ KJob \notin Ops
        /\ BJob \in Procs /\ BJob # KJob
    BY ThreeJobs DEF Jobs
  <1>3. LoopOK(loop) /\ loop.pc[KJob] \in Waiting
    BY <1>1, <1>2 DEF LoopOK
  <1>4. LoopBut(loop, KJob)
    BY <1>2, <1>3, PlaceTypes, OffLine
  <1>5. CallTypes'
    BY <1>1 DEF CallTypes
  <1>6. CASE loop' = SettleJob(loop, KJob, "err")
    <2>1. /\ LoopOK(loop') /\ loop'.line = loop.line
          /\ \A q \in Procs \ {KJob} :
                /\ loop'.pc[q] = loop.pc[q]
                /\ loop'.wake[q] = loop.wake[q] \/ loop'.wake[q] = "err"
      BY <1>2, <1>4, <1>6, JobSettled
    <2>2. Quiet({})
      BY <1>1, <1>2, <2>1 DEF Quiet, Holds, Rests
    <2> QED BY <1>5, <2>2, QuietStep
  <1>7. CASE loop' = JoinLayouts(loop, KJob)
    <2>1. "onLayouts" \in PlacesOf(KJob)
      BY PlaceTypes
    <2>2. Joined(loop, loop', KJob)
      BY <1>2, <1>4, <1>7, <2>1, LayoutsJoined
    <2>3. Quiet({})
      BY <1>1, <1>2, <2>2 DEF Quiet, Joined, Kept, Rests
    <2> QED BY <1>5, <2>3, QuietStep
  <1>8. CASE loop' = Call(loop, KJob, "rpc")
    <2>1. PICK at : at = "rpc"
      OBVIOUS
    <2>2. PICK u : u = Call(loop, KJob, at)
      OBVIOUS
    <2>3. at \in PlacesOf(KJob) /\ at \in InLine
      BY <2>1, PlaceTypes DEF InLine
    <2>4. LoopOK(u) /\ Kept(loop, u, Procs \ {KJob}) /\ Holds(loop, u)
      BY <1>2, <1>4, <2>2, <2>3, Called
    <2>5. Quiet({})
      BY <1>1, <1>2, <1>8, <2>1, <2>2, <2>4 DEF Quiet, Kept, Rests
    <2> QED BY <1>5, <2>5, QuietStep
  <1> QED BY <1>1, <1>6, <1>7, <1>8

(***************************************************************************)
(* Deliveries: an answer is handled, and its callers move.                 *)
(***************************************************************************)
Delivered ==
    /\ reply # None /\ ~Micro /\ reply' = None /\ seen' = reply.gen
    /\ UNCHANGED <<req, idx, dev, notes, hist, since, aimed>>
Known == cached' = None \/ cached' = KeymapOf(dev.layers)
PendingKnown ==
    pendingChanges' \in BOOLEAN /\ (notes = <<>> => pendingChanges' = dev.unsaved)

\* Of the callers that only wait, those the answer wakes may look at what it brought.
Awakes(o) ==
    /\ loop'.pc[o] = loop.pc[o] /\ result'[o] = result[o]
    /\ loop.pc[o] \in {"aim", "aimAgain"} /\ loop'.wake[o] = "ok" => cached' # None
    /\ loop.pc[o] = "onKeymap" /\ loop'.wake[o] = "ok" => fetched'.layers = dev.layers

LEMMA DeliveredStep ==
    ASSUME IInv, Delivered, LoopOK(loop'), BehaviorsOK', LayoutsOK', Known, PendingKnown,
           CallTypes', NEW P \in SUBSET Ops, \A o \in P : CallOK(o)',
           \A o \in Ops \ P : Awakes(o)
    PROVE  IInv'
  <1> USE DEF IInv
  <1>1. /\ reply # None /\ reply' = None /\ seen' = Len(hist)
        /\ UNCHANGED <<req, idx, dev, notes, hist, since, aimed>>
    BY DEF Delivered, AnswerOK
  <1>2. HistOK'
    BY <1>1 DEF HistOK
  <1>3. CacheOK'
    <2>1. hist'[seen'] = dev.layers
      BY <1>1 DEF HistOK
    <2> QED BY <2>1 DEF CacheOK, Known
  <1>4. AnswerOK' /\ PendingOK'
    <2>1. AnswerOK'
      BY <1>1 DEF AnswerOK
    <2>2. PendingOK'
      BY <1>1 DEF PendingOK, PendingKnown
    <2> QED BY <2>1, <2>2
  <1>5. ASSUME NEW o \in Ops PROVE CallOK(o)'
    <2>1. CASE o \in P
      BY <2>1
    <2>2. CASE o \notin P
      <3>1. CallOK(o) /\ Awakes(o)
        BY <2>2 DEF Calls
      <3>2. since[o] \in 1..Len(hist) /\ Len(hist) \in Nat /\ hist[Len(hist)] = dev.layers
        BY <3>1 DEF CallOK, HistOK
      <3>3. since'[o] \in 1..seen' /\ aimed'[o] \in 1..Len(hist')
        BY <1>1, <3>1, <3>2 DEF CallOK
      <3>4. loop.pc[o] = "onKeymap" /\ loop'.wake[o] = "ok" => Recent(o, fetched'.layers)
        BY <3>1, <3>2 DEF Awakes, Recent
      <3>5. loop.pc[o] = "onKeymap" /\ loop'.wake[o] = "ok" => Recent(o, fetched.layers)'
        BY <1>1, <3>4 DEF Recent
      <3>6. result'[o].how = "ok" /\ req'[o].kind \in {"getKeymap", "source"} =>
                Recent(o, result[o].layers)'
        BY <1>1, <3>1 DEF CallOK, Recent, Awakes
      <3> QED BY <1>1, <3>1, <3>3, <3>5, <3>6 DEF CallOK, Awakes
    <2> QED BY <2>1, <2>2
  <1> QED BY <1>2, <1>3, <1>4, <1>5 DEF Calls

LEMMA Replies ==
    ASSUME IInv, NEW o \in Ops, NEW K, Replied(o, K)
    PROVE  /\ Delivered /\ UNCHANGED <<behaviors, fetched>>
           /\ LoopBut(Served(loop), o) /\ Served(loop).pc = loop.pc
           /\ Served(loop).wake = loop.wake /\ o \in Procs
           /\ req[o].kind \in K /\ req[o].kind \in Kinds \ Silent
           /\ result[o].how = "none" /\ loop.pc[o] = "rpc" /\ CallOK(o)
           /\ reply \in Answer /\ reply.dev = dev /\ reply.gen = Len(hist)
           /\ reply.ok => Told(o) /\ Says(o)
           /\ ~reply.ok => dev.layers = hist[seen]
  <1> USE DEF IInv
  <1>1. /\ reply # None /\ Head(loop.line) = o /\ req[o].kind \in K
        /\ Delivered /\ UNCHANGED <<behaviors, fetched>>
    BY DEF Replied, Delivered
  <1>2. /\ loop.line # <<>> /\ LoopOK(loop)
        /\ reply \in Answer /\ reply.dev = dev /\ reply.gen = Len(hist)
        /\ reply.ok => Told(o)
        /\ ~reply.ok => dev.layers = hist[seen]
    BY <1>1 DEF AnswerOK
  <1>3. reply.ok => Says(o)
    BY <1>1 DEF PendingOK
  <1>4. /\ LoopBut(Served(loop), o) /\ Served(loop).pc = loop.pc
        /\ Served(loop).wake = loop.wake /\ o \in Procs
    BY <1>1, <1>2, ServedOne
  <1>5. loop.pc[o] = "rpc"
    <2>1. On(loop.line, o)
      BY <1>1, <1>2 DEF On, LoopOK
    <2> QED BY <1>2, <1>4, <2>1, PlaceTypes DEF LoopOK, InLine, Waiting
  <1>6. CallOK(o)
    BY DEF Calls
  <1>7. req[o].kind \in Kinds \ Silent /\ result[o].how = "none"
    BY <1>5, <1>6 DEF CallOK, KindAt
  <1> QED BY <1>1, <1>2, <1>3, <1>4, <1>5, <1>6, <1>7

LEMMA AnsweredStep ==
    ASSUME IInv, NEW o \in Ops, NEW K, Replied(o, K), NEW how \in {"ok", "err"},
           Done(o, how), loop' = Finish(Served(loop), o), UNCHANGED layouts,
           Known, PendingKnown
    PROVE  IInv'
  <1> USE DEF IInv
  <1>1. /\ Delivered /\ UNCHANGED <<behaviors, fetched>>
        /\ LoopBut(Served(loop), o) /\ Served(loop).pc = loop.pc
        /\ Served(loop).wake = loop.wake /\ o \in Procs
        /\ req[o].kind \in Kinds \ Silent /\ CallOK(o)
    BY Replies
  <1>2. PICK s : s = Served(loop)
    OBVIOUS
  <1>3. "done" \in PlacesOf(o) /\ "done" \notin InLine /\ loop' = Park(s, o, "done")
    BY <1>2, PlaceTypes DEF InLine, Finish
  <1>4. /\ LoopOK(loop') /\ Kept(s, loop', Procs \ {o}) /\ loop'.pc[o] = "done"
    <2>1. PICK u : u = Park(s, o, "done")
      OBVIOUS
    <2>2. LoopBut(s, o) /\ o \in Procs
      BY <1>1, <1>2
    <2>3. /\ LoopOK(u) /\ Kept(s, u, Procs \ {o}) /\ u.pc[o] = "done"
      BY <1>3, <2>1, <2>2, Parked
    <2> QED BY <1>3, <2>1, <2>3
  <1>5. BehaviorsOK' /\ LayoutsOK'
    BY <1>1, <1>2, <1>4, ThreeJobs DEF BehaviorsOK, LayoutsOK, Kept
  <1>6. result' = [result EXCEPT ![o].how = how] /\ result \in [Ops -> Result]
    BY DEF Done, CallTypes
  <1>7. /\ result' \in [Ops -> Result] /\ result'[o].how = how
        /\ \A x \in Ops \ {o} : result'[x] = result[x]
    BY <1>6 DEF Result
  <1>8. CallTypes'
    BY <1>1, <1>7 DEF CallTypes, Delivered
  <1>9. CallOK(o)'
    <2>1. /\ UNCHANGED <<req, idx, since, aimed, hist>> /\ seen' = Len(hist)
          /\ seen \in 1..Len(hist)
      BY <1>1 DEF Delivered, AnswerOK, HistOK
    <2>2. since[o] \in 1..Len(hist) /\ aimed[o] \in 1..Len(hist)
      BY <1>1, <2>1 DEF CallOK
    <2> QED BY <1>1, <1>4, <2>1, <2>2 DEF CallOK, KindAt, Silent
  <1>10. \A x \in Ops \ {o} : Awakes(x)
    <2> SUFFICES ASSUME NEW x \in Ops \ {o} PROVE Awakes(x)
      OBVIOUS
    <2>1. loop'.pc[x] = loop.pc[x] /\ loop'.wake[x] = loop.wake[x]
      BY <1>1, <1>2, <1>4, ThreeJobs DEF Kept
    <2>2. loop.wake[x] = "no"
      BY <1>1, ThreeJobs DEF Delivered, Micro
    <2> QED BY <1>7, <2>1, <2>2 DEF Awakes
  <1>11. {o} \in SUBSET Ops /\ \A x \in {o} : CallOK(x)'
    BY <1>9
  <1> QED BY <1>1, <1>4, <1>5, <1>8, <1>10, <1>11, DeliveredStep

\* An accepted edit, if the keymap it leaves in the cache is the keyboard's.
LEMMA MirroredStep ==
    ASSUME IInv, NEW o \in Ops, NEW K \in SUBSET Edits, Accepted(o, K), NEW keymap,
           Mirrored(o, keymap), cached # None => keymap = KeymapOf(dev.layers)
    PROVE  IInv'
  <1>1. Replied(o, K) /\ reply.ok /\ Done(o, "ok")
    BY DEF Accepted
  <1>2. /\ cached' = IF cached = None THEN None ELSE keymap
        /\ pendingChanges' = TRUE /\ loop' = Finish(Served(loop), o) /\ UNCHANGED layouts
    BY DEF Mirrored
  <1>3. req[o].kind \in Edits /\ Says(o)
    BY <1>1, Replies
  <1>4. PendingKnown
    BY <1>2, <1>3 DEF PendingKnown, Says
  <1>5. Known
    BY <1>2 DEF Known
  <1> QED BY <1>1, <1>2, <1>4, <1>5, AnsweredStep

\* What an accepted edit did to the layers the client knows.
LEMMA EditTold ==
    ASSUME IInv, NEW o \in Ops, NEW K \in SUBSET Edits, Accepted(o, K)
    PROVE  /\ req[o].kind \in K /\ reply.dev = dev
           /\ dev.layers = Repeated(o, hist[seen], reply.id) /\ Sane(o, hist[seen])
           /\ req[o].kind = "addLayer" => reply.id \in Ids /\ reply.id \notin IdsOf(hist[seen])
           /\ hist[seen] \in Seq(Layer) /\ Distinct(hist[seen]) /\ Len(hist[seen]) \in Nat
           /\ dev.layers \in Seq(Layer) /\ Distinct(dev.layers)
           /\ cached # None => /\ cached.layers = hist[seen]
                               /\ cached = [layers |-> hist[seen],
                                            availableLayers |-> MaxLayers - Len(hist[seen])]
           /\ MaxLayers \in Nat
  <1> USE DEF IInv
  <1>1. Replied(o, K) /\ reply.ok
    BY DEF Accepted
  <1>2. req[o].kind \in K /\ reply.dev = dev /\ Told(o)
    BY <1>1, Replies
  <1>3. req[o].kind \notin {"discard", "reset"}
    BY <1>2 DEF Edits
  <1>4. /\ dev.layers = Repeated(o, hist[seen], reply.id) /\ Sane(o, hist[seen])
        /\ req[o].kind = "addLayer" => reply.id \in Ids /\ reply.id \notin IdsOf(hist[seen])
    BY <1>2, <1>3 DEF Told
  <1>5. /\ hist[seen] \in Seq(Layer) /\ Distinct(hist[seen])
        /\ dev.layers \in Seq(Layer) /\ Distinct(dev.layers)
    BY DEF HistOK, Device
  <1>6. cached # None => /\ cached.layers = hist[seen]
                         /\ cached = [layers |-> hist[seen],
                                      availableLayers |-> MaxLayers - Len(hist[seen])]
    BY DEF CacheOK, KeymapOf
  <1>7. Len(hist[seen]) \in Nat
    BY <1>5
  <1> QED BY <1>2, <1>4, <1>5, <1>6, <1>7, KeyboardAssumption

LEMMA KeymapEdited ==
    ASSUME NEW k, NEW ls, NEW n, k = [layers |-> ls, availableLayers |-> n],
           NEW after, NEW m
    PROVE  [k EXCEPT !.layers = after, !.availableLayers = m]
               = [layers |-> after, availableLayers |-> m]
  <1>1. PICK j : j = [k EXCEPT !.layers = after]
    OBVIOUS
  <1>2. j = [layers |-> after, availableLayers |-> n]
    BY <1>1
  <1>3. [j EXCEPT !.availableLayers = m] = [layers |-> after, availableLayers |-> m]
    BY <1>2
  <1>4. [k EXCEPT !.layers = after, !.availableLayers = m]
            = [[k EXCEPT !.layers = after] EXCEPT !.availableLayers = m]
    OBVIOUS
  <1> QED BY <1>1, <1>3, <1>4

LEMMA KeySetStep ==
    ASSUME IInv, NEW o \in Ops, KeySet(o)
    PROVE  IInv'
  <1>1. /\ Accepted(o, {"setKey"}) /\ {"setKey"} \in SUBSET Edits
        /\ Mirrored(o, [cached EXCEPT !.layers = WithVal(@, req[o].id, Edited)])
    BY DEF KeySet, Edits
  <1>2. cached # None => [cached EXCEPT !.layers = WithVal(@, req[o].id, Edited)]
                             = KeymapOf(dev.layers)
    <2> SUFFICES ASSUME cached # None
                 PROVE  [cached EXCEPT !.layers = WithVal(@, req[o].id, Edited)]
                            = KeymapOf(dev.layers)
      OBVIOUS
    <2>1. PICK ls \in Seq(Layer) : ls = hist[seen]
      BY <1>1, EditTold
    <2>2. /\ Distinct(ls) /\ dev.layers = WithVal(ls, req[o].id, Edited)
          /\ cached = [layers |-> ls, availableLayers |-> MaxLayers - Len(ls)]
      BY <1>1, <2>1, EditTold DEF Repeated
    <2>3. Len(WithVal(ls, req[o].id, Edited)) = Len(ls)
      BY <2>2, WithValLayer, KeyboardAssumption
    <2> QED BY <2>2, <2>3 DEF KeymapOf
  <1> QED BY <1>1, <1>2, MirroredStep

LEMMA LayerAddedStep ==
    ASSUME IInv, NEW o \in Ops, LayerAdded(o)
    PROVE  IInv'
  <1> DEFINE keymap == [cached EXCEPT !.layers = Append(@, NewLayer(reply.id)),
                                      !.availableLayers = @ - 1]
  <1>1. Accepted(o, {"addLayer"}) /\ {"addLayer"} \in SUBSET Edits /\ Mirrored(o, keymap)
    BY DEF LayerAdded, Edits
  <1>2. cached # None => keymap = KeymapOf(dev.layers)
    <2> SUFFICES ASSUME cached # None PROVE keymap = KeymapOf(dev.layers)
      OBVIOUS
    <2>1. PICK ls \in Seq(Layer) : ls = hist[seen]
      BY <1>1, EditTold
    <2>2. PICK x : x = [id |-> reply.id, val |-> Fresh]
      OBVIOUS
    <2>3. /\ Distinct(ls) /\ dev.layers = Append(ls, x) /\ x.id \notin IdsOf(ls) /\ x \in Layer
          /\ cached = [layers |-> ls, availableLayers |-> MaxLayers - Len(ls)]
          /\ reply.dev = dev /\ Distinct(dev.layers) /\ MaxLayers \in Nat
          /\ x.id = reply.id /\ Len(ls) \in Nat
      BY <1>1, <2>1, <2>2, EditTold, KeyboardAssumption DEF Repeated, Layer
    <2>4. /\ Len(Append(ls, x)) = Len(ls) + 1
          /\ \E k \in DOMAIN dev.layers : dev.layers[k] = x
      BY <2>3, AppendedLayer
    <2>5. NewLayer(reply.id) = x
      BY <2>3, <2>4 DEF NewLayer, Distinct
    <2>6. keymap = [layers |-> Append(ls, x), availableLayers |-> MaxLayers - Len(ls) - 1]
      <3>1. PICK n : n = MaxLayers - Len(ls)
        OBVIOUS
      <3>2. cached = [layers |-> ls, availableLayers |-> n]
        BY <2>3, <3>1
      <3>3. cached.layers = ls /\ cached.availableLayers = n
        BY <3>2
      <3>4. keymap = [cached EXCEPT !.layers = Append(ls, x), !.availableLayers = n - 1]
        BY <2>5, <3>3
      <3>5. [cached EXCEPT !.layers = Append(ls, x), !.availableLayers = n - 1]
                = [layers |-> Append(ls, x), availableLayers |-> n - 1]
        BY <3>2, KeymapEdited
      <3> QED BY <3>1, <3>4, <3>5
    <2>7. PICK w : w = Append(ls, x)
      OBVIOUS
    <2>8. dev.layers = w /\ Len(w) = Len(ls) + 1
          /\ keymap = [layers |-> w, availableLayers |-> MaxLayers - Len(ls) - 1]
      BY <2>3, <2>4, <2>6, <2>7
    <2>9. MaxLayers - Len(w) = MaxLayers - Len(ls) - 1
      BY <2>3, <2>8
    <2> HIDE DEF keymap
    <2> QED BY <2>8, <2>9 DEF KeymapOf
  <1> HIDE DEF keymap
  <1> QED BY <1>1, <1>2, MirroredStep

LEMMA LayerRemovedStep ==
    ASSUME IInv, NEW o \in Ops, LayerRemoved(o)
    PROVE  IInv'
  <1> DEFINE keymap == [cached EXCEPT !.layers = Without(@, idx[o]), !.availableLayers = @ + 1]
  <1>1. /\ Accepted(o, {"removeLayer"}) /\ {"removeLayer"} \in SUBSET Edits
        /\ Mirrored(o, keymap)
    BY DEF LayerRemoved, Edits
  <1>2. cached # None => keymap = KeymapOf(dev.layers)
    <2> SUFFICES ASSUME cached # None PROVE keymap = KeymapOf(dev.layers)
      OBVIOUS
    <2>1. PICK ls \in Seq(Layer) : ls = hist[seen]
      BY <1>1, EditTold
    <2>2. /\ Distinct(ls) /\ dev.layers = Without(ls, idx[o]) /\ idx[o] \in 1..Len(ls)
          /\ cached = [layers |-> ls, availableLayers |-> MaxLayers - Len(ls)]
          /\ MaxLayers \in Nat /\ Len(ls) \in Nat
      BY <1>1, <2>1, EditTold DEF Repeated, Sane
    <2>3. Len(Without(ls, idx[o])) = Len(ls) - 1
      BY <2>2, WithoutLayer
    <2>4. keymap = [layers |-> Without(ls, idx[o]), availableLayers |-> MaxLayers - Len(ls) + 1]
      <3>1. PICK n : n = MaxLayers - Len(ls)
        OBVIOUS
      <3>2. cached = [layers |-> ls, availableLayers |-> n]
        BY <2>2, <3>1
      <3>3. cached.layers = ls /\ cached.availableLayers = n
        BY <3>2
      <3>4. keymap = [cached EXCEPT !.layers = Without(ls, idx[o]), !.availableLayers = n + 1]
        BY <3>3
      <3>5. [cached EXCEPT !.layers = Without(ls, idx[o]), !.availableLayers = n + 1]
                = [layers |-> Without(ls, idx[o]), availableLayers |-> n + 1]
        BY <3>2, KeymapEdited
      <3> QED BY <3>1, <3>4, <3>5
    <2> QED BY <2>2, <2>3, <2>4 DEF KeymapOf
  <1> HIDE DEF keymap
  <1> QED BY <1>1, <1>2, MirroredStep

LEMMA LayerMovedStep ==
    ASSUME IInv, NEW o \in Ops, LayerMoved(o)
    PROVE  IInv'
  <1> DEFINE moved(ls) == Inserted(Without(ls, req[o].at), req[o].to, ls[req[o].at])
             keymap == [cached EXCEPT !.layers = moved(cached.layers)]
  <1>1. /\ Accepted(o, {"moveLayer"}) /\ {"moveLayer"} \in SUBSET Edits
        /\ Mirrored(o, keymap)
    BY DEF LayerMoved, Edits
  <1>2. cached # None => keymap = KeymapOf(dev.layers)
    <2> SUFFICES ASSUME cached # None PROVE keymap = KeymapOf(dev.layers)
      OBVIOUS
    <2>1. PICK ls \in Seq(Layer) : ls = hist[seen]
      BY <1>1, EditTold
    <2>2. /\ Distinct(ls) /\ dev.layers = moved(ls)
          /\ req[o].at \in 1..Len(ls) /\ req[o].to \in 1..Len(ls)
          /\ cached = [layers |-> ls, availableLayers |-> MaxLayers - Len(ls)]
      BY <1>1, <2>1, EditTold DEF Repeated, Sane
    <2>3. Len(moved(ls)) = Len(ls)
      BY <2>2, MovedLayer
    <2>4. cached.layers = ls
      BY <2>2
    <2>5. keymap = [cached EXCEPT !.layers = moved(ls)]
      BY <2>4
    <2> HIDE DEF moved, keymap
    <2>6. keymap = [layers |-> moved(ls), availableLayers |-> MaxLayers - Len(ls)]
      BY <2>2, <2>5
    <2> QED BY <2>2, <2>3, <2>6 DEF KeymapOf
  <1> HIDE DEF keymap
  <1> QED BY <1>1, <1>2, MirroredStep

LEMMA LayerRestoredStep ==
    ASSUME IInv, NEW o \in Ops, LayerRestored(o)
    PROVE  IInv'
  <1> DEFINE keymap == [cached EXCEPT !.layers = Inserted(@, req[o].at, NewLayer(req[o].id)),
                                      !.availableLayers = @ - 1]
  <1>1. /\ Accepted(o, {"restoreLayer"}) /\ {"restoreLayer"} \in SUBSET Edits
        /\ Mirrored(o, keymap)
    BY DEF LayerRestored, Edits
  <1>2. cached # None => keymap = KeymapOf(dev.layers)
    <2> SUFFICES ASSUME cached # None PROVE keymap = KeymapOf(dev.layers)
      OBVIOUS
    <2>1. PICK ls \in Seq(Layer) : ls = hist[seen]
      BY <1>1, EditTold
    <2>2. PICK x : x = [id |-> req[o].id, val |-> Fresh]
      OBVIOUS
    <2>3. PICK at : at = req[o].at
      OBVIOUS
    <2>4. /\ Distinct(ls) /\ dev.layers = Inserted(ls, at, x) /\ at \in 1..Len(ls) + 1
          /\ x.id \notin IdsOf(ls) /\ x \in Layer
          /\ cached = [layers |-> ls, availableLayers |-> MaxLayers - Len(ls)]
          /\ reply.dev = dev /\ Distinct(dev.layers) /\ MaxLayers \in Nat
          /\ x.id = req[o].id /\ Len(ls) \in Nat
      BY <1>1, <2>1, <2>2, <2>3, EditTold, KeyboardAssumption DEF Repeated, Sane, Layer
    <2>5. /\ Len(Inserted(ls, at, x)) = Len(ls) + 1
          /\ at \in DOMAIN dev.layers /\ dev.layers[at] = x
      BY <2>4, InsertedLayer
    <2>6. NewLayer(req[o].id) = x
      BY <2>4, <2>5 DEF NewLayer, Distinct
    <2>7. keymap = [layers |-> Inserted(ls, at, x), availableLayers |-> MaxLayers - Len(ls) - 1]
      <3>1. PICK n : n = MaxLayers - Len(ls)
        OBVIOUS
      <3>2. cached = [layers |-> ls, availableLayers |-> n]
        BY <2>4, <3>1
      <3>3. cached.layers = ls /\ cached.availableLayers = n
        BY <3>2
      <3>4. keymap = [cached EXCEPT !.layers = Inserted(ls, at, x), !.availableLayers = n - 1]
        BY <2>3, <2>6, <3>3
      <3>5. [cached EXCEPT !.layers = Inserted(ls, at, x), !.availableLayers = n - 1]
                = [layers |-> Inserted(ls, at, x), availableLayers |-> n - 1]
        BY <3>2, KeymapEdited
      <3> QED BY <3>1, <3>4, <3>5
    <2> QED BY <2>4, <2>5, <2>7 DEF KeymapOf
  <1> HIDE DEF keymap
  <1> QED BY <1>1, <1>2, MirroredStep

LEMMA LayoutSetStep ==
    ASSUME IInv, NEW o \in Ops, LayoutSet(o)
    PROVE  IInv'
  <1> USE DEF IInv
  <1>1. /\ Replied(o, {"setLayout"}) /\ reply.ok
        /\ cached' = KeymapOf(reply.dev.layers)
        /\ layouts' = IF layouts = None THEN None ELSE req[o].at
        /\ loop' = JoinLayouts(Served(loop), o)
        /\ UNCHANGED <<result, pendingChanges>>
    BY DEF LayoutSet
  <1>2. /\ Delivered /\ UNCHANGED <<behaviors, fetched>>
        /\ LoopBut(Served(loop), o) /\ Served(loop).pc = loop.pc
        /\ Served(loop).wake = loop.wake /\ o \in Procs
        /\ req[o].kind = "setLayout" /\ result[o].how = "none"
        /\ CallOK(o) /\ reply.dev = dev /\ reply.gen = Len(hist)
    BY <1>1, Replies
  <1>3. PICK s : s = Served(loop)
    OBVIOUS
  <1>4. Joined(s, loop', o) /\ loop'.pc[o] = "onLayouts"
    <2>1. "onLayouts" \in PlacesOf(o) /\ LoopBut(s, o)
      BY <1>2, <1>3, PlaceTypes DEF Waiting
    <2>2. loop' = JoinLayouts(s, o)
      BY <1>1, <1>3
    <2> QED BY <1>2, <2>1, <2>2, LayoutsJoined
  <1>5. req[o].at \in Layouts
    BY <1>2, RequestArguments DEF CallTypes
  <1>6. LoopOK(loop') /\ BehaviorsOK' /\ LayoutsOK'
    <2>1. loop'.pc[BJob] = loop.pc[BJob] \/ (loop'.pc[BJob] = "list" /\ behaviors = 0)
      BY <1>2, <1>3, <1>4 DEF Joined
    <2> QED BY <1>1, <1>2, <1>4, <1>5, <2>1, KeyboardAssumption
            DEF BehaviorsOK, LayoutsOK, Joined
  <1>7. Known /\ PendingKnown
    BY <1>1, <1>2 DEF Known, PendingKnown, PendingOK
  <1>8. CallTypes'
    BY <1>1, <1>2 DEF CallTypes, Delivered
  <1>9. CallOK(o)'
    <2>1. /\ UNCHANGED <<req, idx, since, aimed, hist>> /\ seen' = Len(hist)
          /\ seen \in 1..Len(hist)
      BY <1>2 DEF Delivered, HistOK
    <2>2. since[o] \in 1..Len(hist) /\ aimed[o] \in 1..Len(hist)
      BY <1>2, <2>1 DEF CallOK
    <2> QED BY <1>1, <1>2, <1>4, <2>1, <2>2 DEF CallOK, KindAt
  <1>10. \A x \in Ops \ {o} : Awakes(x)
    <2> SUFFICES ASSUME NEW x \in Ops \ {o} PROVE Awakes(x)
      OBVIOUS
    <2>1. loop'.pc[x] = loop.pc[x] /\ loop'.wake[x] = loop.wake[x]
      BY <1>2, <1>3, <1>4 DEF Joined, Kept
    <2>2. loop.wake[x] = "no"
      BY <1>2, ThreeJobs DEF Delivered, Micro
    <2> QED BY <1>1, <2>1, <2>2 DEF Awakes
  <1>11. {o} \in SUBSET Ops /\ \A x \in {o} : CallOK(x)'
    BY <1>9
  <1> QED BY <1>2, <1>6, <1>7, <1>8, <1>10, <1>11, DeliveredStep

\* Requests that edit nothing, and those the keyboard refused.
LEMMA SettledStep ==
    ASSUME IInv, NEW o \in Ops,
           Committed(o) \/ Discarded(o) \/ Refreshed(o) \/ Refused(o)
    PROVE  IInv'
  <1> USE DEF IInv
  <1>1. dev \in Device /\ dev.unsaved \in BOOLEAN
        /\ (cached = None \/ cached = KeymapOf(hist[seen]))
        /\ pendingChanges \in BOOLEAN /\ (notes = <<>> => pendingChanges = dev.unsaved)
    BY DEF HistOK, Device, CacheOK, PendingOK
  <1>2. CASE Committed(o)
    <2>1. /\ Replied(o, {"commit"}) /\ reply.ok /\ Done(o, "ok") /\ pendingChanges' = FALSE
          /\ loop' = Finish(Served(loop), o) /\ UNCHANGED <<cached, layouts>>
      BY <1>2 DEF Committed, Accepted
    <2>2. req[o].kind = "commit" /\ Told(o) /\ Says(o)
      BY <2>1, Replies
    <2>3. PendingKnown
      BY <1>1, <2>1, <2>2 DEF PendingKnown, Says
    <2>4. Known
      <3>1. dev.layers = hist[seen]
        BY <2>2 DEF Told, Repeated
      <3> QED BY <1>1, <2>1, <3>1 DEF Known
    <2> QED BY <2>1, <2>3, <2>4, AnsweredStep
  <1>3. CASE Discarded(o)
    <2>1. /\ Replied(o, {"discard", "reset"}) /\ reply.ok /\ Done(o, "ok")
          /\ pendingChanges' = FALSE /\ cached' = None
          /\ loop' = Finish(Served(loop), o) /\ UNCHANGED layouts
      BY <1>3 DEF Discarded, Accepted
    <2>2. req[o].kind \in {"discard", "reset"} /\ Says(o)
      BY <2>1, Replies
    <2>3. PendingKnown
      BY <1>1, <2>1, <2>2 DEF PendingKnown, Says
    <2>4. Known
      BY <2>1 DEF Known
    <2> QED BY <2>1, <2>3, <2>4, AnsweredStep
  <1>4. CASE Refreshed(o)
    <2>1. /\ Replied(o, {"refresh"}) /\ reply.ok /\ Done(o, "ok")
          /\ pendingChanges' = reply.dev.unsaved
          /\ loop' = Finish(Served(loop), o) /\ UNCHANGED <<cached, layouts>>
      BY <1>4 DEF Refreshed, Accepted
    <2>2. req[o].kind = "refresh" /\ Told(o) /\ reply.dev = dev
      BY <2>1, Replies
    <2>3. PendingKnown
      BY <1>1, <2>1, <2>2 DEF PendingKnown
    <2>4. Known
      <3>1. dev.layers = hist[seen]
        BY <2>2 DEF Told, Repeated
      <3> QED BY <1>1, <2>1, <3>1 DEF Known
    <2> QED BY <2>1, <2>3, <2>4, AnsweredStep
  <1>5. CASE Refused(o)
    <2>1. /\ Replied(o, Kinds) /\ ~reply.ok /\ Done(o, "err")
          /\ loop' = Finish(Served(loop), o) /\ UNCHANGED <<cached, layouts, pendingChanges>>
      BY <1>5 DEF Refused
    <2>2. dev.layers = hist[seen]
      BY <2>1, Replies
    <2>3. Known /\ PendingKnown
      BY <1>1, <2>1, <2>2 DEF Known, PendingKnown
    <2> QED BY <2>1, <2>3, AnsweredStep
  <1> QED BY <1>2, <1>3, <1>4, <1>5

(***************************************************************************)
(* The shared reads.                                                       *)
(***************************************************************************)
LEMMA JobReplies ==
    ASSUME IInv, NEW j \in Jobs, JobReplied(j)
    PROVE  /\ Delivered /\ UNCHANGED <<result, pendingChanges>>
           /\ LoopBut(Served(loop), j) /\ Served(loop).pc = loop.pc
           /\ Served(loop).wake = loop.wake /\ j \in Procs /\ j \notin Ops
           /\ loop.pc[j] \in InLine
           /\ dev.layers = hist[seen] /\ reply.dev = dev
           /\ PendingKnown /\ dev \in Device /\ dev.layers \in Seq(Layer)
  <1> USE DEF IInv
  <1>1. /\ reply # None /\ Head(loop.line) = j /\ j \in Procs /\ j \notin Ops
        /\ Delivered /\ UNCHANGED <<result, pendingChanges>>
    BY ThreeJobs, OpsAssumption DEF JobReplied, Delivered
  <1>2. /\ loop.line # <<>> /\ LoopOK(loop) /\ reply.dev = dev /\ dev.layers = hist[seen]
    BY <1>1 DEF AnswerOK
  <1>3. /\ LoopBut(Served(loop), j) /\ Served(loop).pc = loop.pc
        /\ Served(loop).wake = loop.wake
    BY <1>1, <1>2, ServedOne
  <1>4. loop.pc[j] \in InLine
    <2>1. On(loop.line, j)
      BY <1>1, <1>2 DEF On, LoopOK
    <2> QED BY <1>1, <1>2, <2>1 DEF LoopOK
  <1>5. PendingKnown
    BY <1>1 DEF PendingKnown, PendingOK
  <1>6. dev \in Device /\ dev.layers \in Seq(Layer)
    BY DEF HistOK, Device
  <1> QED BY <1>1, <1>2, <1>3, <1>4, <1>5, <1>6

\* A shared read is over, and `how' tells its callers how it ended.
LEMMA SettlesStep ==
    ASSUME IInv, NEW j \in Jobs, JobReplied(j), NEW how \in {"ok", "err"},
           loop' = SettleJob(Served(loop), j, how),
           behaviors' \in 0..BehaviorCount, LayoutsOK', Known, CallTypes',
           j # BJob => behaviors' = behaviors,
           how = "ok" /\ j = KJob => cached' # None /\ fetched'.layers = dev.layers
    PROVE  IInv'
  <1>1. /\ Delivered /\ UNCHANGED result /\ LoopBut(Served(loop), j)
        /\ Served(loop).pc = loop.pc /\ Served(loop).wake = loop.wake
        /\ j \in Procs /\ j \notin Ops /\ PendingKnown
    BY JobReplies
  <1>2. PICK s : s = Served(loop)
    OBVIOUS
  <1>3. PICK t : t = SettleJob(s, j, how)
    OBVIOUS
  <1>4. /\ LoopOK(t) /\ t.pc[j] = "off"
        /\ \A q \in Procs \ {j} :
              /\ t.pc[q] = s.pc[q]
              /\ t.wake[q] = s.wake[q] \/ (t.wake[q] = how /\ s.pc[q] \in Awaits(j))
    <2>1. LoopBut(s, j)
      BY <1>1, <1>2
    <2> QED BY <1>3, <2>1, JobSettled
  <1>5. loop' = t
    BY <1>2, <1>3
  <1>6. BehaviorsOK'
    <2>1. CASE j = BJob
      BY <1>4, <1>5, <2>1 DEF BehaviorsOK
    <2>2. CASE j # BJob
      BY <1>1, <1>2, <1>4, <1>5, <2>2, ThreeJobs DEF BehaviorsOK, IInv
    <2> QED BY <2>1, <2>2
  <1>7. \A o \in Ops \ {} : Awakes(o)
    <2> SUFFICES ASSUME NEW o \in Ops PROVE Awakes(o)
      OBVIOUS
    <2>1. o \in Procs \ {j} /\ loop.wake[o] = "no"
      BY <1>1, ThreeJobs DEF Delivered, Micro
    <2>2. loop'.pc[o] = loop.pc[o] /\ result'[o] = result[o]
      BY <1>1, <1>2, <1>4, <1>5, <2>1
    <2>3. loop'.wake[o] = "ok" => how = "ok" /\ loop.pc[o] \in Awaits(j)
      BY <1>1, <1>2, <1>4, <1>5, <2>1
    <2>4. loop.pc[o] \in {"onKeymap", "aim", "aimAgain"} /\ loop'.wake[o] = "ok"
              => how = "ok" /\ j = KJob
      BY <2>3, ThreeJobs DEF Awaits, Jobs
    <2> QED BY <2>2, <2>4 DEF Awakes
  <1>8. {} \in SUBSET Ops /\ \A o \in {} : CallOK(o)'
    OBVIOUS
  <1> QED BY <1>1, <1>4, <1>5, <1>6, <1>7, <1>8, DeliveredStep

LEMMA JobRefusedStep ==
    ASSUME IInv, NEW j \in Jobs, JobRefused(j)
    PROVE  IInv'
  <1> USE DEF IInv
  <1>1. /\ JobReplied(j) /\ loop' = SettleJob(Served(loop), j, "err")
        /\ UNCHANGED <<cached, layouts, behaviors, fetched>>
    BY DEF JobRefused
  <1>2. dev.layers = hist[seen] /\ UNCHANGED result /\ Delivered
    BY <1>1, JobReplies
  <1>3. Known /\ LayoutsOK' /\ behaviors' \in 0..BehaviorCount
    BY <1>1, <1>2 DEF Known, CacheOK, LayoutsOK, BehaviorsOK
  <1>4. CallTypes'
    BY <1>1, <1>2 DEF CallTypes, Delivered
  <1> QED BY <1>1, <1>3, <1>4, SettlesStep

LEMMA LayoutsReadStep ==
    ASSUME IInv, LayoutsRead
    PROVE  IInv'
  <1> USE DEF IInv
  <1>1. /\ JobReplied(LJob) /\ loop' = SettleJob(Served(loop), LJob, "ok")
        /\ layouts' = reply.dev.layout /\ UNCHANGED <<cached, behaviors, fetched>>
        /\ LJob \in Jobs /\ LJob # KJob
    BY ThreeJobs DEF LayoutsRead, Jobs
  <1>2. /\ dev.layers = hist[seen] /\ UNCHANGED result /\ Delivered /\ reply.dev = dev
        /\ dev \in Device
    BY <1>1, JobReplies
  <1>3. Known /\ LayoutsOK' /\ behaviors' \in 0..BehaviorCount
    BY <1>1, <1>2 DEF Known, CacheOK, LayoutsOK, BehaviorsOK, Device
  <1>4. CallTypes'
    BY <1>1, <1>2 DEF CallTypes, Delivered
  <1> QED BY <1>1, <1>3, <1>4, SettlesStep

LEMMA KeymapReadStep ==
    ASSUME IInv, KeymapRead
    PROVE  IInv'
  <1> USE DEF IInv
  <1>1. /\ JobReplied(KJob) /\ loop' = SettleJob(Served(loop), KJob, "ok")
        /\ cached' = KeymapOf(reply.dev.layers)
        /\ fetched' = [layers |-> reply.dev.layers, known |-> behaviors]
        /\ UNCHANGED <<layouts, behaviors>>
        /\ KJob \in Jobs /\ KJob # BJob
    BY ThreeJobs DEF KeymapRead, Jobs
  <1>2. /\ UNCHANGED result /\ Delivered /\ reply.dev = dev /\ dev \in Device
        /\ dev.layers \in Seq(Layer)
    BY <1>1, JobReplies
  <1>3. Known /\ LayoutsOK' /\ behaviors' \in 0..BehaviorCount /\ behaviors \in Nat
    BY <1>1, <1>2, KeyboardAssumption DEF Known, LayoutsOK, BehaviorsOK
  <1>4. CallTypes' /\ fetched'.layers = dev.layers
    BY <1>1, <1>2, <1>3 DEF CallTypes, Delivered
  <1>5. cached' # None
    <2>1. Len(dev.layers) \in Nat /\ MaxLayers \in Nat
      BY <1>2, KeyboardAssumption
    <2>2. cached' \in Keymap
      BY <1>1, <1>2, <2>1 DEF KeymapOf, Keymap
    <2> QED BY <2>2, NoneAssumption
  <1> QED BY <1>1, <1>3, <1>4, <1>5, SettlesStep

LEMMA BehaviorsReadStep ==
    ASSUME IInv, BehaviorsRead
    PROVE  IInv'
  <1> USE DEF IInv
  <1>1. /\ JobReplied(BJob)
        /\ behaviors' = IF loop.pc[BJob] = "list" THEN behaviors ELSE behaviors + 1
        /\ loop' = IF behaviors' < BehaviorCount THEN Call(Served(loop), BJob, "details")
                                                 ELSE SettleJob(Served(loop), BJob, "ok")
        /\ UNCHANGED <<cached, layouts, fetched>>
        /\ BJob \in Jobs /\ BJob # KJob
    BY ThreeJobs DEF BehaviorsRead, Jobs
  <1>2. /\ Delivered /\ UNCHANGED <<result, pendingChanges>>
        /\ LoopBut(Served(loop), BJob) /\ Served(loop).pc = loop.pc
        /\ Served(loop).wake = loop.wake /\ BJob \in Procs /\ BJob \notin Ops
        /\ loop.pc[BJob] \in InLine
        /\ dev.layers = hist[seen] /\ PendingKnown
    BY <1>1, JobReplies
  <1>3. loop.pc[BJob] \in {"list", "details"}
    BY <1>2, PlaceTypes DEF LoopOK, InLine
  <1>4. behaviors' \in 0..BehaviorCount
    BY <1>1, <1>3, KeyboardAssumption DEF BehaviorsOK
  <1>5. Known /\ LayoutsOK'
    BY <1>1, <1>2 DEF Known, CacheOK, LayoutsOK
  <1>6. CallTypes'
    BY <1>1, <1>2 DEF CallTypes, Delivered
  <1>7. CASE ~(behaviors' < BehaviorCount)
    <2>1. loop' = SettleJob(Served(loop), BJob, "ok")
      BY <1>1, <1>7
    <2> QED BY <1>1, <1>4, <1>5, <1>6, <2>1, SettlesStep
  <1>8. CASE behaviors' < BehaviorCount
    <2>1. PICK s : s = Served(loop)
      OBVIOUS
    <2>2. PICK at : at = "details"
      OBVIOUS
    <2>3. PICK t : t = Call(s, BJob, at)
      OBVIOUS
    <2>4. LoopBut(s, BJob) /\ at \in PlacesOf(BJob) /\ at \in InLine
      BY <1>2, <2>1, <2>2, PlaceTypes DEF InLine
    <2>5. LoopOK(t) /\ Kept(s, t, Procs \ {BJob}) /\ t.pc[BJob] = at
      BY <1>2, <2>3, <2>4, Called
    <2>6. loop' = t
      BY <1>1, <1>8, <2>1, <2>2, <2>3
    <2>7. BehaviorsOK'
      BY <1>4, <1>8, <2>2, <2>5, <2>6 DEF BehaviorsOK
    <2>8. \A o \in Ops \ {} : Awakes(o)
      <3> SUFFICES ASSUME NEW o \in Ops PROVE Awakes(o)
        OBVIOUS
      <3>1. o \in Procs \ {BJob} /\ loop.wake[o] = "no"
        BY <1>2, ThreeJobs DEF Delivered, Micro
      <3>2. loop'.pc[o] = loop.pc[o] /\ loop'.wake[o] = "no"
        BY <1>2, <2>1, <2>5, <2>6, <3>1 DEF Kept
      <3> QED BY <1>2, <3>2 DEF Awakes
    <2>9. {} \in SUBSET Ops /\ \A o \in {} : CallOK(o)'
      OBVIOUS
    <2> QED BY <1>2, <1>5, <1>6, <2>5, <2>6, <2>7, <2>8, <2>9, DeliveredStep
  <1> QED BY <1>7, <1>8

(***************************************************************************)
(* Notifications, and the keyboard.                                        *)
(***************************************************************************)
LEMMA IInvOfRest ==
    ASSUME IInv, PendingOK',
           UNCHANGED <<loop, req, idx, result, cached, layouts, behaviors, fetched,
                       dev, reply, hist, seen, since, aimed>>
    PROVE  IInv'
  <1> USE DEF IInv
  <1>1. LoopOK(loop)' /\ BehaviorsOK' /\ LayoutsOK' /\ HistOK' /\ CacheOK' /\ CallTypes'
    BY DEF LoopOK, BehaviorsOK, LayoutsOK, HistOK, CacheOK, CallTypes
  <1>2. Calls'
    <2> SUFFICES ASSUME NEW o \in Ops PROVE CallOK(o)'
      BY DEF Calls
    <2> QED BY DEF Calls, CallOK, Recent
  <1>3. AnswerOK'
    <2>1. \A o : Told(o) <=> Told(o)'
      BY DEF Told, Sane, Repeated
    <2> QED BY <2>1 DEF AnswerOK
  <1> QED BY <1>1, <1>2, <1>3

LEMMA NotifiedStep ==
    ASSUME IInv, Notified
    PROVE  IInv'
  <1> USE DEF IInv
  <1>1. /\ notes # <<>> /\ pendingChanges' = Head(notes) /\ notes' = Tail(notes)
        /\ UNCHANGED <<loop, req, idx, result, cached, layouts, behaviors, fetched,
                       dev, reply, hist, seen, since, aimed>>
    BY DEF Notified
  <1>2. /\ notes \in Seq(BOOLEAN) /\ notes[Len(notes)] = dev.unsaved
        /\ Len(notes) \in Nat /\ Len(notes) > 0
    BY <1>1 DEF PendingOK
  <1>3. PICK n \in Nat : n = Len(notes)
    BY <1>2
  <1>4. /\ Head(notes) = notes[1] /\ Head(notes) \in BOOLEAN
        /\ Tail(notes) \in Seq(BOOLEAN) /\ Len(Tail(notes)) = n - 1
        /\ \A i \in 1..n - 1 : Tail(notes)[i] = notes[i + 1]
    BY <1>1, <1>2, <1>3, HeadTailProperties
  <1>5. PICK rest \in Seq(BOOLEAN) : rest = Tail(notes)
    BY <1>4
  <1>6. /\ rest = <<>> => Head(notes) = dev.unsaved
        /\ rest # <<>> => rest[Len(rest)] = dev.unsaved
    <2>1. CASE n = 1
      <3>1. Len(rest) = 0
        BY <1>4, <1>5, <2>1
      <3>2. rest = <<>>
        BY <3>1
      <3> QED BY <1>2, <1>3, <1>4, <2>1, <3>2
    <2>2. CASE n > 1
      <3>1. Len(rest) = n - 1 /\ n - 1 \in 1..n - 1 /\ n - 1 + 1 = n
        BY <1>3, <1>4, <1>5, <2>2
      <3>2. rest[n - 1] = notes[n]
        BY <1>4, <1>5, <3>1
      <3>3. rest # <<>>
        BY <2>2, <3>1
      <3> QED BY <1>2, <1>3, <3>1, <3>2, <3>3
    <2>3. n = 1 \/ n > 1
      BY <1>2, <1>3
    <2> QED BY <2>1, <2>2, <2>3
  <1>7. PendingOK'
    BY <1>1, <1>4, <1>5, <1>6 DEF PendingOK, Says
  <1> QED BY <1>1, <1>7, IInvOfRest

\* What the client knows stays true of the keyboard's past.
LEMMA KeyboardSteps ==
    ASSUME IInv, reply = None, UNCHANGED <<clientVars, seen, since, aimed>>,
           HistOK', AnswerOK', PendingOK',
           Len(hist') >= Len(hist), \A g \in 1..Len(hist) : hist'[g] = hist[g]
    PROVE  IInv'
  <1> USE DEF IInv
  <1>1. UNCHANGED <<loop, req, idx, result, cached, layouts, behaviors, fetched,
                    pendingChanges, seen, since, aimed>>
    BY DEF clientVars
  <1>2. LoopOK(loop)' /\ BehaviorsOK' /\ LayoutsOK' /\ CallTypes'
    BY <1>1 DEF LoopOK, BehaviorsOK, LayoutsOK, CallTypes
  <1>3. seen \in 1..Len(hist) /\ Len(hist) \in Nat /\ Len(hist') \in Nat
    BY DEF HistOK
  <1>4. CacheOK'
    BY <1>1, <1>3 DEF CacheOK
  <1>5. ASSUME NEW o \in Ops PROVE CallOK(o)'
    <2>1. CallOK(o)
      BY DEF Calls
    <2>2. ASSUME NEW layers, Recent(o, layers)
          PROVE  \E g \in since'[o]..Len(hist') : layers = hist'[g]
      <3>1. PICK g \in since[o]..Len(hist) : layers = hist[g]
        BY <2>2 DEF Recent
      <3>2. since[o] \in Nat /\ since[o] >= 1
        BY <1>3, <2>1 DEF CallOK
      <3>3. g \in 1..Len(hist) /\ g \in since'[o]..Len(hist')
        BY <1>1, <1>3, <3>1, <3>2
      <3> QED BY <3>1, <3>3
    <2>3. Recent(o, fetched.layers) => Recent(o, fetched.layers)'
      BY <1>1, <2>2 DEF Recent
    <2>4. Recent(o, result[o].layers) => Recent(o, result[o].layers)'
      BY <1>1, <2>2 DEF Recent
    <2>5. aimed'[o] \in 1..Len(hist') /\ hist'[aimed'[o]] = hist[aimed[o]]
      BY <1>1, <1>3, <2>1 DEF CallOK
    <2> QED BY <1>1, <2>1, <2>3, <2>4, <2>5 DEF CallOK
  <1> QED BY <1>2, <1>4, <1>5 DEF Calls

\* The keyboard's next layers are distinct again, and what the client would make
\* of them when it repeats the operation.
LEMMA LayersAfterEdit ==
    ASSUME IInv, NEW o \in Ops, Sensible(o)
    PROVE  /\ LayersAfter(o) \in Seq(Layer) /\ Distinct(LayersAfter(o))
           /\ req[o].kind = "addLayer" => FreeId \in Ids /\ FreeId \notin IdsOf(dev.layers)
           /\ req[o].kind \notin {"discard", "reset"} =>
                 Sane(o, dev.layers) /\ LayersAfter(o) = Repeated(o, dev.layers, FreeId)
  <1> USE DEF IInv
  <1>1. PICK ls \in Seq(Layer) : ls = dev.layers
    BY DEF HistOK, Device
  <1>2. PICK r \in Requests \cup {NoRequest} : r = req[o]
    BY DEF CallTypes
  <1>3. /\ Distinct(ls) /\ Len(ls) \in Nat
        /\ dev.savedLayers \in Seq(Layer) /\ Distinct(dev.savedLayers)
        /\ StartLayers \in Seq(Layer) /\ Distinct(StartLayers)
    BY <1>1, KeyboardAssumption DEF HistOK, Device, Distinct, Layer
  <1>4. r.kind \in Kinds /\ Fresh \in Vals /\ Edited \in Vals
        /\ (r.kind \in {"removeLayer", "restoreLayer"} => r.id \in Ids)
    BY RequestArguments, KeyboardAssumption DEF Request
  <1>5. CASE r.kind = "setKey"
    <2>1. LayersAfter(o) = WithVal(ls, r.id, Edited)
      BY <1>1, <1>2, <1>5 DEF LayersAfter
    <2>2. WithVal(ls, r.id, Edited) \in Seq(Layer) /\ Distinct(WithVal(ls, r.id, Edited))
      BY <1>3, <1>4, WithValLayer
    <2> QED BY <1>1, <1>2, <1>5, <2>1, <2>2 DEF Sane, Repeated
  <1>6. CASE r.kind = "addLayer"
    <2>1. Len(ls) < MaxLayers
      BY <1>1, <1>2, <1>6 DEF Sensible
    <2>2. FreeId \in Ids \ IdsOf(ls)
      <3>1. \E id \in Ids \ IdsOf(ls) : \A k \in Ids \ IdsOf(ls) : id <= k
        BY <2>1, RoomForId
      <3> QED BY <1>1, <3>1 DEF FreeId
    <2>3. PICK x : x = [id |-> FreeId, val |-> Fresh]
      OBVIOUS
    <2>4. x \in Layer /\ x.id \notin IdsOf(ls)
      BY <1>4, <2>2, <2>3 DEF Layer
    <2>5. LayersAfter(o) = Append(ls, x)
      BY <1>1, <1>2, <1>6, <2>3 DEF LayersAfter
    <2>6. Append(ls, x) \in Seq(Layer) /\ Distinct(Append(ls, x))
      BY <1>3, <2>4, AppendedLayer
    <2>7. Repeated(o, dev.layers, FreeId) = Append(ls, x) /\ Sane(o, dev.layers)
      BY <1>1, <1>2, <1>6, <2>3 DEF Sane, Repeated
    <2> QED BY <1>1, <1>2, <1>6, <2>2, <2>5, <2>6, <2>7
  <1>7. CASE r.kind = "removeLayer"
    <2>1. idx[o] \in 1..Len(ls) /\ LayersAfter(o) = Without(ls, idx[o])
      BY <1>1, <1>2, <1>7 DEF Sensible, LayersAfter
    <2>2. Without(ls, idx[o]) \in Seq(Layer) /\ Distinct(Without(ls, idx[o]))
      BY <1>3, <2>1, WithoutLayer
    <2> QED BY <1>1, <1>2, <1>7, <2>1, <2>2 DEF Sane, Repeated
  <1>8. CASE r.kind = "moveLayer"
    <2> DEFINE w == Inserted(Without(ls, r.at), r.to, ls[r.at])
    <2>1. r.at \in 1..Len(ls) /\ r.to \in 1..Len(ls) /\ LayersAfter(o) = w
      BY <1>1, <1>2, <1>8 DEF Sensible, LayersAfter
    <2>2. w \in Seq(Layer) /\ Distinct(w)
      BY <1>3, <2>1, MovedLayer
    <2>3. Repeated(o, dev.layers, FreeId) = w /\ Sane(o, dev.layers)
      BY <1>1, <1>2, <1>8, <2>1 DEF Sane, Repeated
    <2> HIDE DEF w
    <2> QED BY <1>1, <1>2, <1>8, <2>1, <2>2, <2>3
  <1>9. CASE r.kind = "restoreLayer"
    <2>1. PICK x : x = [id |-> r.id, val |-> Fresh]
      OBVIOUS
    <2>2. /\ r.at \in 1..Len(ls) + 1 /\ x \in Layer /\ x.id \notin IdsOf(ls)
          /\ r.id \in Ids /\ r.id \notin IdsOf(ls)
      BY <1>1, <1>2, <1>4, <1>9, <2>1 DEF Sensible, Layer
    <2>3. PICK at : at = r.at
      OBVIOUS
    <2>4. LayersAfter(o) = Inserted(ls, at, x)
      BY <1>1, <1>2, <1>9, <2>1, <2>3 DEF LayersAfter
    <2>5. Inserted(ls, at, x) \in Seq(Layer) /\ Distinct(Inserted(ls, at, x))
      BY <1>3, <2>2, <2>3, InsertedLayer
    <2>6. Repeated(o, dev.layers, FreeId) = Inserted(ls, at, x) /\ Sane(o, dev.layers)
      BY <1>1, <1>2, <1>9, <2>1, <2>2, <2>3 DEF Sane, Repeated
    <2> QED BY <1>1, <1>2, <1>9, <2>4, <2>5, <2>6
  <1>10. CASE r.kind = "discard"
    <2>1. LayersAfter(o) = dev.savedLayers
      BY <1>2, <1>10 DEF LayersAfter
    <2> QED BY <1>2, <1>3, <1>10, <2>1
  <1>11. CASE r.kind = "reset"
    <2>1. LayersAfter(o) = StartLayers
      BY <1>2, <1>11 DEF LayersAfter
    <2> QED BY <1>2, <1>3, <1>11, <2>1
  <1>12. CASE r.kind \notin Edits \cup {"discard", "reset"}
    <2>1. /\ LayersAfter(o) = ls /\ Repeated(o, dev.layers, FreeId) = ls
          /\ Sane(o, dev.layers)
      BY <1>1, <1>2, <1>12 DEF LayersAfter, Repeated, Sane, Edits
    <2> QED BY <1>1, <1>2, <1>3, <1>12, <2>1 DEF Edits
  <1> QED BY <1>5, <1>6, <1>7, <1>8, <1>9, <1>10, <1>11, <1>12 DEF Edits

LEMMA DevAfterEdit ==
    ASSUME IInv, NEW o \in Ops, Sensible(o)
    PROVE  /\ DevAfter(o) \in Device /\ DevAfter(o).layers = LayersAfter(o)
           /\ Distinct(DevAfter(o).savedLayers)
           /\ req[o].kind \in Edits => DevAfter(o).unsaved
           /\ req[o].kind \in {"commit", "discard", "reset"} => ~DevAfter(o).unsaved
  <1> USE DEF IInv
  <1>1. LayersAfter(o) \in Seq(Layer) /\ Distinct(LayersAfter(o))
    BY LayersAfterEdit
  <1>2. /\ dev.savedLayers \in Seq(Layer) /\ Distinct(dev.savedLayers)
        /\ dev.layout \in Layouts /\ dev.savedLayout \in Layouts /\ dev.unsaved \in BOOLEAN
    BY DEF HistOK, Device
  <1>3. req[o].kind = "setLayout" => req[o].at \in Layouts
    BY RequestArguments DEF CallTypes
  <1> DEFINE k == req[o].kind
             l == CASE k = "setLayout" -> req[o].at
                    [] k = "discard" -> dev.savedLayout
                    [] k = "reset" -> 0
                    [] OTHER -> dev.layout
             saves == k \in {"commit", "reset"}
             unsaved == CASE k \in {"commit", "discard", "reset"} -> FALSE
                          [] k = "refresh" \/ (k = "setLayout" /\ l = dev.layout) -> dev.unsaved
                          [] OTHER -> TRUE
             sl == IF saves THEN LayersAfter(o) ELSE dev.savedLayers
             so == IF saves THEN l ELSE dev.savedLayout
  <1>4. DevAfter(o) = [layers |-> LayersAfter(o), layout |-> l, savedLayers |-> sl,
                       savedLayout |-> so, unsaved |-> unsaved]
    BY DEF DevAfter
  <1>5. l \in Layouts
    BY <1>2, <1>3 DEF Layouts
  <1>6. unsaved \in BOOLEAN /\ (k \in Edits => unsaved)
        /\ (k \in {"commit", "discard", "reset"} => ~unsaved)
    <2> HIDE DEF l
    <2> QED BY <1>2 DEF Edits
  <1>7. sl \in Seq(Layer) /\ Distinct(sl)
    BY <1>1, <1>2
  <1>8. so \in Layouts
    <2> HIDE DEF l
    <2> QED BY <1>2, <1>5
  <1> HIDE DEF l, unsaved, sl, so
  <1>9. DevAfter(o) \in Device
    BY <1>1, <1>4, <1>5, <1>6, <1>7, <1>8 DEF Device
  <1> QED BY <1>4, <1>6, <1>7, <1>9

LEMMA KeyboardStep ==
    ASSUME IInv, Keyboard
    PROVE  IInv'
  <1> USE DEF IInv
  <1>1. /\ loop.line # <<>> /\ reply = None
        /\ Read(Head(loop.line)) \/ Execute(Head(loop.line)) \/ Refuse
        /\ UNCHANGED <<clientVars, seen, since, aimed>>
    BY DEF Keyboard
  <1>2. UNCHANGED <<loop, req, idx, result, cached, layouts, behaviors, fetched,
                    pendingChanges>>
    BY <1>1 DEF clientVars
  <1>3. /\ seen = Len(hist) /\ hist[seen] = dev.layers /\ dev \in Device
        /\ hist \in Seq(Seq(Layer)) /\ Len(hist) \in Nat /\ Len(hist) > 0
        /\ Distinct(dev.layers) /\ Distinct(dev.savedLayers) /\ dev.layers \in Seq(Layer)
    BY <1>1 DEF HistOK, Device
  <1>4. PICK h : h = Head(loop.line)
    OBVIOUS
  <1>5. ASSUME NEW ok \in BOOLEAN, reply' = [ok |-> ok, dev |-> dev, gen |-> Len(hist), id |-> 0],
               UNCHANGED <<dev, hist, notes>>, ~(h \in Ops /\ ok)
        PROVE  IInv'
    <2>1. reply' \in Answer /\ reply'.dev = dev /\ reply'.gen = Len(hist) /\ reply'.ok = ok
          /\ reply' # None
      BY <1>3, <1>5, NoneAssumption DEF Answer
    <2>2. HistOK'
      BY <1>1, <1>5, <2>1 DEF HistOK
    <2>3. AnswerOK'
      BY <1>1, <1>2, <1>3, <1>4, <1>5, <2>1 DEF AnswerOK
    <2>4. PendingOK'
      BY <1>2, <1>4, <1>5, <2>1 DEF PendingOK
    <2> QED BY <1>1, <1>3, <1>5, <2>2, <2>3, <2>4, KeyboardSteps
  <1>6. CASE Read(h)
    <2>1. h \notin Ops
      BY <1>6, ThreeJobs DEF Read, Jobs
    <2> QED BY <1>5, <1>6, <2>1 DEF Read
  <1>7. CASE Refuse
    BY <1>5, <1>7 DEF Refuse
  <1>8. CASE Execute(h)
    <2>1. /\ h \in Ops /\ Sensible(h) /\ dev' = DevAfter(h)
          /\ hist' = IF dev'.layers = dev.layers THEN hist ELSE Append(hist, dev'.layers)
          /\ notes' = IF dev'.unsaved = dev.unsaved THEN notes ELSE Append(notes, dev'.unsaved)
          /\ reply' = [ok |-> TRUE, dev |-> dev', gen |-> Len(hist'),
                       id |-> IF req[h].kind = "addLayer" THEN FreeId ELSE 0]
      BY <1>8 DEF Execute
    <2>2. PICK d \in Device : d = dev'
      BY <2>1, DevAfterEdit
    <2>3. /\ d.layers = LayersAfter(h) /\ Distinct(d.savedLayers)
          /\ req[h].kind \in Edits => d.unsaved
          /\ req[h].kind \in {"commit", "discard", "reset"} => ~d.unsaved
          /\ d.layers \in Seq(Layer) /\ Distinct(d.layers) /\ d.unsaved \in BOOLEAN
          /\ req[h].kind = "addLayer" => FreeId \in Ids /\ FreeId \notin IdsOf(dev.layers)
          /\ req[h].kind \notin {"discard", "reset"} =>
                Sane(h, dev.layers) /\ d.layers = Repeated(h, dev.layers, FreeId)
      BY <2>1, <2>2, DevAfterEdit, LayersAfterEdit DEF Device
    <2>4. /\ hist' \in Seq(Seq(Layer)) /\ Len(hist') \in Nat /\ Len(hist') >= Len(hist)
          /\ hist'[Len(hist')] = d.layers /\ Len(hist') > 0
          /\ \A g \in 1..Len(hist) : hist'[g] = hist[g]
          /\ \A g \in 1..Len(hist') : g \in 1..Len(hist) \/ hist'[g] = d.layers
      <3>1. CASE d.layers = dev.layers
        BY <1>3, <2>1, <2>2, <3>1
      <3>2. CASE d.layers # dev.layers
        <4>1. hist' = Append(hist, d.layers)
          BY <2>1, <2>2, <3>2
        <4>2. /\ Append(hist, d.layers) \in Seq(Seq(Layer))
              /\ Len(Append(hist, d.layers)) = Len(hist) + 1
              /\ Append(hist, d.layers)[Len(hist) + 1] = d.layers
              /\ \A g \in 1..Len(hist) : Append(hist, d.layers)[g] = hist[g]
          BY <1>3, <2>3
        <4>3. \A g \in 1..Len(hist) + 1 : g \in 1..Len(hist) \/ g = Len(hist) + 1
          BY <1>3
        <4> QED BY <1>3, <4>1, <4>2, <4>3
      <3> QED BY <3>1, <3>2
    <2>5. reply' \in Answer /\ reply'.dev = d /\ reply'.gen = Len(hist') /\ reply'.ok
          /\ reply' # None /\ (req[h].kind = "addLayer" => reply'.id = FreeId)
      <3>1. PICK id : id = IF req[h].kind = "addLayer" THEN FreeId ELSE 0
        OBVIOUS
      <3>2. id \in Ids \cup {0}
        BY <2>3, <3>1
      <3>3. reply' = [ok |-> TRUE, dev |-> d, gen |-> Len(hist'), id |-> id]
        BY <2>1, <2>2, <3>1
      <3>4. reply' \in Answer
        BY <2>4, <3>2, <3>3 DEF Answer
      <3> QED BY <3>1, <3>3, <3>4, NoneAssumption
    <2>6. HistOK'
      <3>1. \A g \in 1..Len(hist') : Distinct(hist'[g])
        BY <2>3, <2>4 DEF HistOK
      <3>2. seen' \in 1..Len(hist')
        BY <1>1, <1>3, <2>4
      <3> QED BY <2>2, <2>3, <2>4, <2>5, <3>1, <3>2 DEF HistOK
    <2>7. hist'[seen'] = dev.layers /\ Head(loop'.line) = h /\ loop'.line # <<>>
          /\ UNCHANGED <<req, idx>>
      BY <1>1, <1>2, <1>3, <1>4, <2>4
    <2>8. Told(h)'
      <3>1. CASE req[h].kind \in {"discard", "reset"}
        BY <2>7, <3>1 DEF Told
      <3>2. CASE req[h].kind \notin {"discard", "reset"}
        <4>1. Sane(h, dev.layers) /\ d.layers = Repeated(h, dev.layers, FreeId)
          BY <2>3, <3>2
        <4>2. Sane(h, hist[seen])'
          BY <2>7, <4>1 DEF Sane
        <4>3. d.layers = Repeated(h, hist[seen], reply.id)'
          <5>1. PICK id : id = reply'.id
            OBVIOUS
          <5>2. Repeated(h, dev.layers, FreeId) = Repeated(h, dev.layers, id)
            BY <2>5, <5>1 DEF Repeated
          <5> QED BY <2>7, <4>1, <5>1, <5>2 DEF Repeated
        <4> QED BY <2>2, <2>3, <2>5, <2>7, <4>2, <4>3 DEF Told
      <3> QED BY <3>1, <3>2
    <2>9. AnswerOK'
      <3>1. Told(Head(loop.line))'
        BY <2>7, <2>8 DEF Told, Sane, Repeated
      <3> QED BY <2>1, <2>2, <2>5, <2>7, <3>1 DEF AnswerOK
    <2>10. PendingOK'
      <3>1. Says(h)'
        BY <2>2, <2>3, <2>7 DEF Says
      <3>2. /\ notes' \in Seq(BOOLEAN)
            /\ notes' = <<>> => pendingChanges = d.unsaved
            /\ notes' # <<>> => notes'[Len(notes')] = d.unsaved
        <4>1. CASE d.unsaved = dev.unsaved
          BY <2>1, <2>2, <4>1 DEF PendingOK
        <4>2. CASE d.unsaved # dev.unsaved
          <5>1. notes' = Append(notes, d.unsaved) /\ notes \in Seq(BOOLEAN)
            BY <2>1, <2>2, <4>2 DEF PendingOK
          <5>2. /\ Append(notes, d.unsaved) \in Seq(BOOLEAN)
                /\ Len(Append(notes, d.unsaved)) = Len(notes) + 1
                /\ Append(notes, d.unsaved)[Len(notes) + 1] = d.unsaved
                /\ Append(notes, d.unsaved) # <<>>
            BY <2>3, <5>1
          <5> QED BY <5>1, <5>2
        <4> QED BY <4>1, <4>2
      <3>3. pendingChanges' = pendingChanges /\ pendingChanges \in BOOLEAN
        BY <1>2 DEF PendingOK
      <3> QED BY <2>2, <2>7, <3>1, <3>2, <3>3 DEF PendingOK
    <2> QED BY <1>1, <2>4, <2>6, <2>9, <2>10, KeyboardSteps
  <1> QED BY <1>1, <1>4, <1>6, <1>7, <1>8

(***************************************************************************)
(* The theorems.                                                           *)
(***************************************************************************)
LEMMA Step ==
    ASSUME IInv, [Next]_vars
    PROVE  IInv'
  <1>1. ASSUME NEW o \in Ops, Issue(o) \/ Resume(o) \/ Aim(o) \/ AimMisses(o) \/ Reply(o)
        PROVE  IInv'
    <2>1. CASE Issue(o)
      BY <2>1, IssueStep
    <2>2. CASE Resume(o)
      BY <2>2, ResumeStep
    <2>3. CASE Aim(o)
      BY <2>3, AimStep
    <2>4. CASE AimMisses(o)
      BY <2>4, AimMissesStep
    <2>5. CASE Reply(o)
      BY <2>5, KeySetStep, LayerAddedStep, LayerRemovedStep, LayerMovedStep,
         LayerRestoredStep, LayoutSetStep, SettledStep DEF Reply
    <2> QED BY <1>1, <2>1, <2>2, <2>3, <2>4, <2>5
  <1>2. CASE \E j \in Jobs : JobRefused(j)
    BY <1>2, JobRefusedStep
  <1>3. CASE BehaviorsRead \/ LayoutsRead \/ KeymapRead \/ KeymapGoesOn \/ Notified \/ Keyboard
    BY <1>3, BehaviorsReadStep, LayoutsReadStep, KeymapReadStep, KeymapGoesOnStep,
       NotifiedStep, KeyboardStep
  <1>4. CASE UNCHANGED vars
    <2>1. UNCHANGED <<loop, req, idx, result, cached, layouts, behaviors, fetched,
                      pendingChanges, dev, reply, notes, hist, seen, since, aimed>>
      BY <1>4 DEF vars, clientVars
    <2>2. PendingOK'
      BY <2>1 DEF IInv, PendingOK, Says
    <2> QED BY <2>1, <2>2, IInvOfRest
  <1> QED BY <1>1, <1>2, <1>3, <1>4 DEF Next

LEMMA Invariant == Spec => []IInv
  <1>1. Init => IInv
    BY InitIInv
  <1>2. IInv /\ [Next]_vars => IInv'
    BY Step
  <1> QED BY <1>1, <1>2, PTL DEF Spec

\* Every variable keeps its type, and the cache accounts for every layer slot: the
\* count addLayer and restoreLayer lower is what is left of the keyboard's layers.
THEOREM TypeTheorem == Spec => []TypeOK
  <1>1. IInv => TypeOK
    <2> SUFFICES ASSUME IInv PROVE TypeOK
      OBVIOUS
    <2> USE DEF IInv
    <2>1. /\ loop.pc \in [Procs -> {"idle", "off", "list", "details", "rpc", "onBehaviors",
                                    "onLayouts", "onKeymap", "aim", "aimAgain", "done"}]
          /\ loop.wake \in [Procs -> {"no", "ok", "err"}] /\ loop.line \in Seq(Procs)
      BY DEF LoopOK, Places
    <2>2. /\ req \in [Ops -> Request] /\ idx \in [Ops -> Nat]
          /\ result \in [Ops -> [how : {"none", "ok", "err"}, layers : Seq(Layer), known : Nat]]
      BY RequestArguments DEF CallTypes, Result
    <2>3. cached # None => cached \in Keymap
                           /\ cached.availableLayers = MaxLayers - Len(cached.layers)
      <3> SUFFICES ASSUME cached # None
                   PROVE  cached \in Keymap
                          /\ cached.availableLayers = MaxLayers - Len(cached.layers)
        OBVIOUS
      <3>1. PICK ls \in Seq(Layer) : ls = hist[seen]
        BY DEF HistOK
      <3>2. cached = [layers |-> ls, availableLayers |-> MaxLayers - Len(ls)]
        BY <3>1 DEF CacheOK, KeymapOf
      <3>3. Len(ls) \in Nat /\ MaxLayers \in Nat
        BY KeyboardAssumption
      <3> QED BY <3>2, <3>3 DEF Keymap
    <2>4. dev \in Device /\ reply \in Answer \cup {None} /\ seen \in 1..Len(hist)
      BY DEF HistOK, AnswerOK
    <2> QED BY <2>1, <2>2, <2>3, <2>4
            DEF TypeOK, LayoutsOK, BehaviorsOK, PendingOK
  <1> QED BY <1>1, Invariant, PTL

\* The cache tells the truth (getConfigSource's comment): with no answer under way
\* it is the keyboard's keymap, for any number of callers whose operations
\* interleave, and whatever the keyboard refuses.
THEOREM CacheTheorem == Spec => []CacheFaithful
  <1>1. IInv => CacheFaithful
    BY DEF IInv, CacheOK, HistOK, CacheFaithful, KeymapOf
  <1> QED BY <1>1, Invariant, PTL

\* Callers read their own writes: a keymap returned by getKeymap or getConfigSource
\* is one the keyboard had after the call was made.
THEOREM FreshTheorem == Spec => []FreshRead
  <1>1. IInv => FreshRead
    BY DEF IInv, Calls, CallOK, Recent, FreshRead
  <1> QED BY <1>1, Invariant, PTL

\* hasPendingChanges() is what the keyboard would say once all is quiet.
THEOREM PendingTheorem == Spec => []PendingHonest
  <1>1. IInv => PendingHonest
    BY DEF IInv, PendingOK, PendingHonest
  <1> QED BY <1>1, Invariant, PTL

\* removeLayer removes the layer it was asked to, unless the keyboard's layers
\* changed after its index was looked up.
THEOREM AimTheorem == Spec => RemoveAimed
  <1> DEFINE Aimed ==
          \A o \in Ops :
              /\ reply = None /\ reply' # None /\ reply'.ok
              /\ Head(loop.line) = o /\ req[o].kind = "removeLayer"
              /\ hist[aimed[o]] = dev.layers
              => IdsOf(dev'.layers) = IdsOf(dev.layers) \ {req[o].id}
  <1>1. IInv /\ [Next]_vars => [Aimed]_vars
    <2> SUFFICES ASSUME IInv, Next, NEW o \in Ops,
                        reply = None, reply' # None, reply'.ok,
                        Head(loop.line) = o, req[o].kind = "removeLayer",
                        hist[aimed[o]] = dev.layers
                 PROVE  IdsOf(dev'.layers) = IdsOf(dev.layers) \ {req[o].id}
      OBVIOUS
    <2> USE DEF IInv
    <2>1. Keyboard
      <3>1. \A x \in Ops : /\ ~Issue(x) /\ ~Resume(x) /\ ~Aim(x) /\ ~AimMisses(x)
                           /\ ~Reply(x)
        BY DEF Issue, Resume, Aim, AimMisses, Reply, KeySet, LayerAdded, LayerRemoved,
               LayerMoved, LayerRestored, LayoutSet, Committed, Discarded, Refreshed,
               Refused, Accepted, Replied
      <3>2. ~JobRefused(BJob) /\ ~JobRefused(LJob) /\ ~JobRefused(KJob)
            /\ ~BehaviorsRead /\ ~LayoutsRead /\ ~KeymapRead /\ ~KeymapGoesOn /\ ~Notified
        BY DEF JobRefused, BehaviorsRead, LayoutsRead, KeymapRead, KeymapGoesOn,
               Notified, JobReplied
      <3> QED BY <3>1, <3>2 DEF Next, Jobs
    <2>2. Sensible(o) /\ dev' = DevAfter(o)
      <3>1. ~Read(o) /\ ~Refuse
        BY ThreeJobs DEF Read, Refuse, Jobs
      <3> QED BY <2>1, <3>1 DEF Keyboard, Execute
    <2>3. loop.pc[o] = "rpc"
      <3>1. loop.line # <<>> /\ LoopOK(loop)
        BY <2>1 DEF Keyboard
      <3>2. On(loop.line, o)
        BY <3>1 DEF On, LoopOK
      <3> QED BY <3>1, <3>2, ThreeJobs, PlaceTypes DEF LoopOK, InLine, Waiting
    <2>4. /\ idx[o] \in DOMAIN dev.layers /\ dev.layers[idx[o]].id = req[o].id
          /\ dev.layers \in Seq(Layer) /\ Distinct(dev.layers)
      BY <2>3 DEF Calls, CallOK, HistOK, Device
    <2>5. dev'.layers = Without(dev.layers, idx[o])
      BY <2>2, DevAfterEdit DEF LayersAfter
    <2>6. PICK i \in 1..Len(dev.layers) : i = idx[o]
      BY <2>4
    <2>7. IdsOf(Without(dev.layers, i)) = IdsOf(dev.layers) \ {dev.layers[i].id}
      BY <2>4, WithoutLayer
    <2> QED BY <2>4, <2>5, <2>6, <2>7
  <1> QED BY <1>1, Invariant, PTL DEF Spec, RemoveAimed
=============================================================================
