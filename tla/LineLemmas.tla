----------------------------- MODULE LineLemmas -----------------------------
(***************************************************************************)
(* Lemmas about lines: sequences in which nothing is twice, of which the   *)
(* first leaves and to the end of which others come.  The promise chains   *)
(* and the channels of the clients are lines of calls.                     *)
(***************************************************************************)
EXTENDS Integers, Sequences, FiniteSets, FiniteSetTheorems, TLAPS

On(s, x) == \E i \in DOMAIN s : s[i] = x
NoRepeat(s) == \A i, j \in DOMAIN s : s[i] = s[j] => i = j
Before(s, x, y) == \E i, j \in DOMAIN s : i < j /\ s[i] = x /\ s[j] = y

\* The first one leaves.
LEMMA TailOfLine ==
    ASSUME NEW S, NEW s \in Seq(S), s # <<>>, NoRepeat(s)
    PROVE  /\ Tail(s) \in Seq(S) /\ NoRepeat(Tail(s)) /\ Head(s) \in S /\ On(s, Head(s))
           /\ \A x : On(Tail(s), x) <=> On(s, x) /\ x # Head(s)
  <1>1. /\ Len(s) \in Nat /\ Len(s) > 0 /\ Head(s) = s[1] /\ Tail(s) \in Seq(S)
        /\ DOMAIN s = 1..Len(s) /\ DOMAIN Tail(s) = 1..Len(s) - 1
        /\ \A i \in 1..Len(s) - 1 : Tail(s)[i] = s[i + 1]
    OBVIOUS
  <1>2. NoRepeat(Tail(s))
    BY <1>1 DEF NoRepeat
  <1>3. ASSUME NEW x, On(Tail(s), x) PROVE On(s, x) /\ x # Head(s)
    <2>1. PICK i \in 1..Len(s) - 1 : s[i + 1] = x
      BY <1>1, <1>3 DEF On
    <2> QED BY <2>1, <1>1 DEF On, NoRepeat
  <1>4. ASSUME NEW x, On(s, x), x # Head(s) PROVE On(Tail(s), x)
    <2>1. PICK i \in 1..Len(s) : s[i] = x
      BY <1>1, <1>4 DEF On
    <2>2. i - 1 \in 1..Len(s) - 1 /\ Tail(s)[i - 1] = x
      BY <2>1, <1>1, <1>4
    <2> QED BY <2>2, <1>1 DEF On
  <1>5. Head(s) \in S /\ On(s, Head(s))
    BY <1>1 DEF On
  <1> QED BY <1>1, <1>2, <1>3, <1>4, <1>5

\* One comes that was not in line.
LEMMA AppendedToLine ==
    ASSUME NEW S, NEW s \in Seq(S), NoRepeat(s), NEW o \in S, ~On(s, o)
    PROVE  /\ Append(s, o) \in Seq(S) /\ NoRepeat(Append(s, o)) /\ Append(s, o) # <<>>
           /\ \A x : On(Append(s, o), x) <=> On(s, x) \/ x = o
  <1>1. /\ Len(s) \in Nat /\ DOMAIN s = 1..Len(s)
        /\ Append(s, o) \in Seq(S) /\ DOMAIN Append(s, o) = 1..Len(s) + 1
        /\ \A i \in 1..Len(s) : Append(s, o)[i] = s[i]
        /\ Append(s, o)[Len(s) + 1] = o /\ Append(s, o) # <<>>
    OBVIOUS
  <1>2. NoRepeat(Append(s, o))
    <2> SUFFICES ASSUME NEW i \in 1..Len(s) + 1, NEW j \in 1..Len(s) + 1,
                        Append(s, o)[i] = Append(s, o)[j]
                 PROVE  i = j
      BY <1>1 DEF NoRepeat
    <2>1. CASE i \in 1..Len(s) /\ j \in 1..Len(s)
      BY <2>1, <1>1 DEF NoRepeat
    <2>2. CASE i = Len(s) + 1 \/ j = Len(s) + 1
      BY <2>2, <1>1 DEF On
    <2> QED BY <2>1, <2>2, <1>1
  <1>3. ASSUME NEW x PROVE On(Append(s, o), x) <=> On(s, x) \/ x = o
    BY <1>1 DEF On
  <1> QED BY <1>1, <1>2, <1>3

\* Who is before whom when the first one leaves.
LEMMA BeforeTail ==
    ASSUME NEW S, NEW s \in Seq(S), s # <<>>, NoRepeat(s), NEW x, NEW y
    PROVE  Before(Tail(s), x, y) <=> Before(s, x, y) /\ x # Head(s)
  <1>1. /\ Len(s) \in Nat /\ Len(s) > 0 /\ Head(s) = s[1]
        /\ DOMAIN s = 1..Len(s) /\ DOMAIN Tail(s) = 1..Len(s) - 1
        /\ \A i \in 1..Len(s) - 1 : Tail(s)[i] = s[i + 1]
    OBVIOUS
  <1>2. ASSUME Before(Tail(s), x, y) PROVE Before(s, x, y) /\ x # Head(s)
    <2>1. PICK i \in 1..Len(s) - 1, j \in 1..Len(s) - 1 :
                 i < j /\ s[i + 1] = x /\ s[j + 1] = y
      BY <1>1, <1>2 DEF Before
    <2>2. i + 1 \in DOMAIN s /\ j + 1 \in DOMAIN s /\ i + 1 < j + 1 /\ i + 1 # 1
      BY <2>1, <1>1
    <2> QED BY <2>1, <2>2, <1>1 DEF Before, NoRepeat
  <1>3. ASSUME Before(s, x, y), x # Head(s) PROVE Before(Tail(s), x, y)
    <2>1. PICK i \in 1..Len(s), j \in 1..Len(s) : i < j /\ s[i] = x /\ s[j] = y
      BY <1>1, <1>3 DEF Before
    <2>2. /\ i - 1 \in 1..Len(s) - 1 /\ j - 1 \in 1..Len(s) - 1 /\ i - 1 < j - 1
          /\ Tail(s)[i - 1] = x /\ Tail(s)[j - 1] = y
      BY <2>1, <1>1, <1>3
    <2> QED BY <2>2, <1>1 DEF Before
  <1> QED BY <1>2, <1>3

\* Who is before whom when one comes.
LEMMA BeforeAppend ==
    ASSUME NEW S, NEW s \in Seq(S), NEW o \in S, NEW x, NEW y, y # o
    PROVE  Before(Append(s, o), x, y) <=> Before(s, x, y)
  <1>1. /\ Len(s) \in Nat /\ DOMAIN s = 1..Len(s) /\ DOMAIN Append(s, o) = 1..Len(s) + 1
        /\ \A i \in 1..Len(s) : Append(s, o)[i] = s[i]
        /\ Append(s, o)[Len(s) + 1] = o
    OBVIOUS
  <1>2. ASSUME Before(Append(s, o), x, y) PROVE Before(s, x, y)
    <2>1. PICK i \in 1..Len(s) + 1, j \in 1..Len(s) + 1 :
                 i < j /\ Append(s, o)[i] = x /\ Append(s, o)[j] = y
      BY <1>1, <1>2 DEF Before
    <2>2. i \in 1..Len(s) /\ j \in 1..Len(s)
      BY <2>1, <1>1
    <2> QED BY <2>1, <2>2, <1>1 DEF Before
  <1>3. ASSUME Before(s, x, y) PROVE Before(Append(s, o), x, y)
    <2>1. PICK i \in 1..Len(s), j \in 1..Len(s) : i < j /\ s[i] = x /\ s[j] = y
      BY <1>1, <1>3 DEF Before
    <2>2. /\ i \in DOMAIN Append(s, o) /\ j \in DOMAIN Append(s, o)
          /\ Append(s, o)[i] = x /\ Append(s, o)[j] = y
      BY <2>1, <1>1
    <2> QED BY <2>1, <2>2 DEF Before
  <1> QED BY <1>2, <1>3

\* The first is before all the others.
LEMMA HeadIsBefore ==
    ASSUME NEW S, NEW s \in Seq(S), NoRepeat(s), NEW y, On(s, y)
    PROVE  /\ ~Before(s, y, y)
           /\ y # Head(s) => Before(s, Head(s), y)
           /\ \A x : Before(s, x, y) => On(s, x)
  <1>1. PICK j \in DOMAIN s : s[j] = y
    BY DEF On
  <1>2. /\ Len(s) \in Nat /\ DOMAIN s = 1..Len(s) /\ Head(s) = s[1]
    BY <1>1
  <1>3. y # Head(s) => 1 \in DOMAIN s /\ 1 < j
    BY <1>1, <1>2
  <1>4. y # Head(s) => Before(s, Head(s), y)
    BY <1>1, <1>2, <1>3 DEF Before
  <1>5. ~Before(s, y, y)
    BY <1>2 DEF Before, NoRepeat
  <1>6. \A x : Before(s, x, y) => On(s, x)
    BY DEF Before, On
  <1> QED BY <1>4, <1>5, <1>6

\* Finitely many are in line.
LEMMA LineIsFinite ==
    ASSUME NEW S, NEW s \in Seq(S)
    PROVE  IsFiniteSet({x \in S : On(s, x)})
  <1>1. Len(s) \in Nat /\ DOMAIN s = 1..Len(s)
    OBVIOUS
  <1>2. IsFiniteSet(1..Len(s))
    BY <1>1, FS_Interval
  <1> DEFINE T == {x \in S : On(s, x)}
  <1>3. s \in Surjection(1..Len(s), T)
    <2>1. s \in [1..Len(s) -> T]
      BY <1>1 DEF On
    <2>2. \A t \in T : \E i \in 1..Len(s) : s[i] = t
      BY <1>1 DEF On
    <2> QED BY <2>1, <2>2 DEF Surjection
  <1> QED BY <1>2, <1>3, FS_Surjection
=============================================================================
