----------------------------- MODULE ListLemmas -----------------------------
(***************************************************************************)
(* What pushing, unlinking and popping do to a list whose elements differ, *)
(* such as an LRU list or a stack of free slots.                           *)
(***************************************************************************)
EXTENDS Integers, SequencesExt, Functions, SequenceTheorems, FiniteSetTheorems, NaturalsInduction,
        WellFoundedInduction, TLAPS

\* An element moved or added to the front.
LEMMA FrontPushed ==
  ASSUME NEW S, NEW q \in Seq(S), NEW e \in S
  PROVE  /\ <<e>> \o q \in Seq(S)
         /\ ToSet(<<e>> \o q) = ToSet(q) \cup {e}
         /\ IsInjective(q) /\ e \notin ToSet(q) => IsInjective(<<e>> \o q)
<1> DEFINE r == <<e>> \o q
<1>1. Len(q) \in Nat /\ DOMAIN q = 1..Len(q)
  BY LenProperties
<1>2. <<e>> \in Seq(S) /\ Len(<<e>>) = 1 /\ <<e>>[1] = e
  OBVIOUS
<1>3. /\ r \in Seq(S) /\ Len(r) = 1 + Len(q)
      /\ \A i \in 1..(1 + Len(q)) : r[i] = IF i <= 1 THEN <<e>>[i] ELSE q[i - 1]
  BY <1>2, ConcatProperties
<1>4. DOMAIN r = 1..(1 + Len(q))
  BY <1>3, LenProperties
<1> HIDE DEF r
<1>5. /\ r[1] = e /\ 1 \in DOMAIN r
      /\ \A i \in 1..Len(q) : i + 1 \in DOMAIN r /\ r[i + 1] = q[i]
      /\ \A i \in DOMAIN r : i = 1 \/ (i - 1 \in DOMAIN q /\ r[i] = q[i - 1])
  BY <1>1, <1>2, <1>3, <1>4
<1>6. ToSet(r) = ToSet(q) \cup {e}
  <2>1. \A x \in ToSet(r) : x \in ToSet(q) \cup {e}
    BY <1>5 DEF ToSet
  <2>2. \A x \in ToSet(q) : x \in ToSet(r)
    BY <1>1, <1>5 DEF ToSet
  <2>3. e \in ToSet(r)
    BY <1>5 DEF ToSet
  <2> QED
    BY <2>1, <2>2, <2>3
<1>7. ASSUME IsInjective(q), e \notin ToSet(q) PROVE IsInjective(r)
  <2> SUFFICES ASSUME NEW a \in DOMAIN r, NEW b \in DOMAIN r, r[a] = r[b] PROVE a = b
    BY DEF IsInjective
  <2>1. \A i \in DOMAIN q : q[i] # e
    BY <1>7 DEF ToSet
  <2>2. CASE a = 1 \/ b = 1
    BY <1>5, <2>1, <2>2
  <2>3. CASE a # 1 /\ b # 1
    <3>1. a - 1 = b - 1
      BY <1>5, <1>7, <2>3 DEF IsInjective
    <3> QED
      BY <1>1, <1>4, <3>1
  <2> QED
    BY <2>2, <2>3
<1> QED
  BY <1>3, <1>6, <1>7 DEF r

\* A list without one of its places.
LacksPlace(r, q, p) ==
  /\ Len(r) = Len(q) - 1
  /\ \A i \in 1..(Len(q) - 1) : r[i] = IF i < p THEN q[i] ELSE q[i + 1]

LEMMA PlaceRemoved ==
  ASSUME NEW S, NEW q \in Seq(S), NEW p \in 1..Len(q), NEW r \in Seq(S), LacksPlace(r, q, p)
  PROVE  IsInjective(q) => IsInjective(r) /\ ToSet(r) = ToSet(q) \ {q[p]}
<1>0. /\ Len(r) = Len(q) - 1
      /\ \A i \in 1..(Len(q) - 1) : r[i] = IF i < p THEN q[i] ELSE q[i + 1]
  BY DEF LacksPlace
<1>1. Len(q) \in Nat /\ DOMAIN q = 1..Len(q) /\ DOMAIN r = 1..(Len(q) - 1)
  BY <1>0, LenProperties
<1> SUFFICES ASSUME IsInjective(q) PROVE IsInjective(r) /\ ToSet(r) = ToSet(q) \ {q[p]}
  OBVIOUS
<1> DEFINE at == [i \in 1..(Len(q) - 1) |-> IF i < p THEN i ELSE i + 1]
<1>2. \A i \in DOMAIN r : at[i] \in DOMAIN q /\ at[i] # p /\ r[i] = q[at[i]]
  BY <1>0, <1>1
<1>3. \A i, j \in DOMAIN r : at[i] = at[j] => i = j
  BY <1>1
<1>4. \A k \in DOMAIN q : k # p => \E i \in DOMAIN r : at[i] = k
  <2> SUFFICES ASSUME NEW k \in DOMAIN q, k # p PROVE \E i \in DOMAIN r : at[i] = k
    OBVIOUS
  <2>1. CASE k < p
    <3>1. k \in DOMAIN r /\ at[k] = k
      BY <1>1, <2>1
    <3> QED
      BY <3>1
  <2>2. CASE k > p
    <3>1. k - 1 \in DOMAIN r /\ at[k - 1] = k
      BY <1>1, <2>2
    <3> QED
      BY <3>1
  <2> QED
    BY <1>1, <2>1, <2>2
<1> HIDE DEF at
<1>5. p \in DOMAIN q
  BY <1>1
<1>6. IsInjective(r)
  BY <1>2, <1>3 DEF IsInjective
<1>7. ToSet(r) = ToSet(q) \ {q[p]}
  <2>1. \A x \in ToSet(r) : x \in ToSet(q) /\ x # q[p]
    BY <1>2, <1>5 DEF ToSet, IsInjective
  <2>2. \A x \in ToSet(q) \ {q[p]} : x \in ToSet(r)
    BY <1>2, <1>4 DEF ToSet
  <2> QED
    BY <2>1, <2>2
<1> QED
  BY <1>6, <1>7

\* The element unlinked.
LEMMA FirstRemoved ==
  ASSUME NEW S, NEW q \in Seq(S), IsInjective(q), NEW e
  PROVE  /\ RemoveFirst(q, e) \in Seq(S) /\ IsInjective(RemoveFirst(q, e))
         /\ ToSet(RemoveFirst(q, e)) = ToSet(q) \ {e}
<1>1. Len(q) \in Nat /\ DOMAIN q = 1..Len(q) /\ \A i \in 1..Len(q) : q[i] \in S
  BY LenProperties, ElementOfSeq
<1>2. CASE \A i \in 1..Len(q) : q[i] # e
  <2>1. RemoveFirst(q, e) = q
    BY <1>2 DEF RemoveFirst
  <2> QED
    BY <1>1, <1>2, <2>1 DEF ToSet
<1>3. CASE \E i \in 1..Len(q) : q[i] = e
  <2> DEFINE I == {i \in 1..Len(q) : q[i] = e}
             p == Min(I)
  <2>1. RemoveFirst(q, e) = RemoveAt(q, p)
    BY <1>3 DEF RemoveFirst, SelectInSeq
  <2>2. p \in I
    <3>1. PICK x \in 1..Len(q) : q[x] = e
      BY <1>3
    <3>2. x \in I /\ \A y \in I : x <= y
      BY <1>1, <3>1 DEF IsInjective
    <3> HIDE DEF I
    <3> QED
      BY <3>2 DEF Min
  <2>3. p \in 1..Len(q) /\ q[p] = e
    BY <2>2
  <2> HIDE DEF p, I
  <2>4. /\ SubSeq(q, 1, p - 1) \in Seq(S) /\ Len(SubSeq(q, 1, p - 1)) = p - 1
        /\ \A i \in 1..(p - 1) : SubSeq(q, 1, p - 1)[i] = q[i]
    <3>1. 1 \in Int /\ p - 1 \in Int /\ \A i \in 1..(p - 1) : q[i] \in S
      BY <1>1, <2>3
    <3> QED
      BY <2>3, <3>1, SubSeqProperties
  <2>5. /\ SubSeq(q, p + 1, Len(q)) \in Seq(S) /\ Len(SubSeq(q, p + 1, Len(q))) = Len(q) - p
        /\ \A i \in 1..(Len(q) - p) : SubSeq(q, p + 1, Len(q))[i] = q[p + i]
    <3>1. p + 1 \in Int /\ Len(q) \in Int /\ \A i \in (p + 1)..Len(q) : q[i] \in S
      BY <1>1, <2>3
    <3>2. /\ SubSeq(q, p + 1, Len(q)) \in Seq(S)
          /\ Len(SubSeq(q, p + 1, Len(q))) = IF p + 1 <= Len(q) THEN Len(q) - (p + 1) + 1 ELSE 0
          /\ \A i \in 1..(Len(q) - (p + 1) + 1) : SubSeq(q, p + 1, Len(q))[i] = q[(p + 1) + i - 1]
      BY <3>1, SubSeqProperties
    <3> DEFINE m == Len(q)
    <3>3. m \in Nat /\ p \in 1..m /\ p \in Int
      BY <1>1, <2>3
    <3>4. /\ (IF p + 1 <= m THEN m - (p + 1) + 1 ELSE 0) = m - p
          /\ m - (p + 1) + 1 = m - p
          /\ \A i \in 1..(m - p) : (p + 1) + i - 1 = p + i
      <4> HIDE DEF m
      <4> QED
        BY <3>3
    <3>5. Len(SubSeq(q, p + 1, Len(q))) = Len(q) - p
      BY <3>2, <3>4
    <3>6. \A i \in 1..(Len(q) - p) : SubSeq(q, p + 1, Len(q))[i] = q[p + i]
      BY <3>2, <3>4
    <3> QED
      BY <3>2, <3>5, <3>6
  <2> DEFINE a == SubSeq(q, 1, p - 1)
             b == SubSeq(q, p + 1, Len(q))
             r == a \o b
  <2>6. a \in Seq(S) /\ b \in Seq(S) /\ Len(a) = p - 1 /\ Len(b) = Len(q) - p
    BY <2>4, <2>5
  <2>7. /\ r \in Seq(S) /\ Len(r) = Len(a) + Len(b)
        /\ \A i \in 1..(Len(a) + Len(b)) : r[i] = IF i <= Len(a) THEN a[i] ELSE b[i - Len(a)]
    BY <2>6, ConcatProperties
  <2>8. /\ \A i \in 1..(p - 1) : a[i] = q[i]
        /\ \A i \in 1..(Len(q) - p) : b[i] = q[p + i]
    BY <2>4, <2>5
  <2>9. RemoveFirst(q, e) = r
    BY <2>1 DEF RemoveAt
  <2> HIDE DEF a, b, r
  <2>10. Len(r) = Len(q) - 1
    BY <1>1, <2>3, <2>6, <2>7
  <2>11. ASSUME NEW i \in 1..(Len(q) - 1) PROVE r[i] = IF i < p THEN q[i] ELSE q[i + 1]
    <3> DEFINE m == Len(q)
    <3>0. m \in Nat /\ p \in 1..m /\ i \in 1..(m - 1) /\ Len(a) = p - 1 /\ Len(b) = m - p
      BY <1>1, <2>3, <2>6
    <3> HIDE DEF m
    <3>3. i \in 1..(Len(a) + Len(b))
      BY <3>0
    <3>1. CASE i < p
      <4>1. i <= Len(a) /\ i \in 1..(p - 1)
        BY <3>0, <3>1
      <4> QED
        BY <2>7, <2>8, <3>1, <3>3, <4>1
    <3>2. CASE ~(i < p)
      <4>0. ~(i <= Len(a)) /\ i - (p - 1) \in 1..(m - p) /\ p + (i - (p - 1)) = i + 1
        BY <3>0, <3>2
      <4>1. r[i] = b[i - (p - 1)] /\ i - (p - 1) \in 1..(Len(q) - p)
        BY <2>6, <2>7, <3>3, <4>0 DEF m
      <4>2. p + (i - (p - 1)) = i + 1
        BY <4>0
      <4> QED
        BY <2>8, <3>2, <4>1, <4>2
    <3> QED
      BY <3>1, <3>2
  <2> QED
    <3>1. LacksPlace(r, q, p)
      BY <2>10, <2>11 DEF LacksPlace
    <3> QED
      BY <2>3, <2>7, <2>9, <3>1, PlaceRemoved
<1> QED
  BY <1>2, <1>3

\* The last element taken away.
LEMMA LastRemoved ==
  ASSUME NEW S, NEW q \in Seq(S), q # << >>
  PROVE  /\ Front(q) \in Seq(S) /\ Last(q) \in ToSet(q) /\ Last(q) \in S
         /\ IsInjective(q) => IsInjective(Front(q)) /\ ToSet(Front(q)) = ToSet(q) \ {Last(q)}
<1>1. Len(q) \in Nat \ {0} /\ DOMAIN q = 1..Len(q) /\ \A i \in 1..Len(q) : q[i] \in S
  BY LenProperties, ElementOfSeq, EmptySeq
<1>2. /\ Front(q) \in Seq(S) /\ Len(Front(q)) = Len(q) - 1
      /\ \A i \in 1..(Len(q) - 1) : Front(q)[i] = q[i]
  <2>1. 1 \in Int /\ Len(q) - 1 \in Int /\ \A i \in 1..(Len(q) - 1) : q[i] \in S
    BY <1>1
  <2>2. /\ SubSeq(q, 1, Len(q) - 1) \in Seq(S)
        /\ Len(SubSeq(q, 1, Len(q) - 1)) = IF 1 <= Len(q) - 1 THEN Len(q) - 1 - 1 + 1 ELSE 0
        /\ \A i \in 1..(Len(q) - 1 - 1 + 1) : SubSeq(q, 1, Len(q) - 1)[i] = q[1 + i - 1]
    BY <2>1, SubSeqProperties
  <2> QED
    BY <1>1, <2>2 DEF Front
<1>3. Len(q) \in 1..Len(q) /\ Last(q) = q[Len(q)] /\ \A i \in 1..(Len(q) - 1) : i < Len(q)
  BY <1>1 DEF Last
<1>4. \A i \in 1..(Len(q) - 1) : Front(q)[i] = IF i < Len(q) THEN q[i] ELSE q[i + 1]
  BY <1>2, <1>3
<1>5. IsInjective(q) => IsInjective(Front(q)) /\ ToSet(Front(q)) = ToSet(q) \ {q[Len(q)]}
  <2>1. LacksPlace(Front(q), q, Len(q))
    BY <1>2, <1>4 DEF LacksPlace
  <2> QED
    BY <1>2, <1>3, <2>1, PlaceRemoved
<1> QED
  BY <1>1, <1>2, <1>3, <1>5 DEF ToSet

\* An element appended.
LEMMA BackPushed ==
  ASSUME NEW S, NEW q \in Seq(S), NEW e \in S
  PROVE  /\ Append(q, e) \in Seq(S) /\ Append(q, e) # << >>
         /\ ToSet(Append(q, e)) = ToSet(q) \cup {e}
         /\ IsInjective(q) /\ e \notin ToSet(q) => IsInjective(Append(q, e))
<1> DEFINE r == Append(q, e)
<1>1. Len(q) \in Nat /\ DOMAIN q = 1..Len(q)
  BY LenProperties
<1>2. /\ r \in Seq(S) /\ r # << >> /\ Len(r) = Len(q) + 1
      /\ \A i \in 1..Len(q) : r[i] = q[i]
      /\ r[Len(q) + 1] = e
  BY AppendProperties
<1>3. DOMAIN r = 1..(Len(q) + 1)
  BY <1>2, LenProperties
<1> HIDE DEF r
<1>4. \A i \in 1..(Len(q) + 1) : r[i] = IF i = Len(q) + 1 THEN e ELSE q[i]
  BY <1>1, <1>2
<1>5. ToSet(r) = ToSet(q) \cup {e}
  <2>1. /\ Len(q) + 1 \in 1..(Len(q) + 1)
        /\ \A i \in 1..Len(q) : i \in 1..(Len(q) + 1) /\ i # Len(q) + 1
        /\ \A i \in 1..(Len(q) + 1) : i = Len(q) + 1 \/ i \in 1..Len(q)
    BY <1>1
  <2> QED
    BY <1>1, <1>2, <1>3, <1>4, <2>1 DEF ToSet
<1>6. IsInjective(q) /\ e \notin ToSet(q) => IsInjective(r)
  <2>1. \A i \in 1..(Len(q) + 1) : i = Len(q) + 1 \/ i \in 1..Len(q)
    BY <1>1
  <2> QED
    BY <1>1, <1>3, <1>4, <2>1 DEF IsInjective, ToSet
<1> QED
  BY <1>2, <1>5, <1>6 DEF r

-----------------------------------------------------------------------------
(* Induction, and lists put together *)

\* Induction over the naturals, as a statement about sets: the provers take it
\* where they do not take an operator.
LEMMA LeastNat ==
  ASSUME NEW T \in SUBSET Nat, T # {}
  PROVE  \E n \in T : \A m \in T : n <= m
<1> DEFINE R == {ss \in Nat \X Nat : ss[1] < ss[2]}
<1>1. \A m, n \in Nat : m < n => <<m, n>> \in R
  OBVIOUS
<1>2. IsWellFoundedOn(R, Nat)
  BY NatLessThanWellFounded DEF OpToRel
<1> HIDE DEF R
<1>3. \E x \in T : \A y \in T : ~ (<<y, x>> \in R)
  BY <1>2, WFMin
<1>4. PICK x \in T : \A y \in T : ~ (<<y, x>> \in R)
  BY <1>3
<1>5. \A m \in T : ~(m < x)
  BY <1>1, <1>4
<1> QED
  BY <1>4, <1>5

\* A set of naturals that holds 0 and with each of its elements below n the
\* next one, holds all up to n.
LEMMA UpTo ==
  ASSUME NEW n \in Nat, NEW U, 0 \in U, \A m \in 0..(n - 1) : m \in U => m + 1 \in U
  PROVE  \A m \in 0..n : m \in U
<1> DEFINE T == {m \in 0..n : m \notin U}
<1> SUFFICES ASSUME T # {} PROVE FALSE
  OBVIOUS
<1>0. T \in SUBSET Nat
  OBVIOUS
<1>1. PICK m \in T : \A k \in T : m <= k
  BY <1>0, LeastNat
<1>2. m \in 1..n /\ m - 1 \in 0..(n - 1) /\ m - 1 \notin T
  BY <1>1
<1>3. m - 1 \in U
  BY <1>2
<1> QED
  BY <1>1, <1>2, <1>3

\* A part of an interval that holds with a number all smaller ones.
LEMMA InitialSegment ==
  ASSUME NEW a \in Nat, NEW b \in Nat, NEW P \in SUBSET (a + 1..b),
         \A n \in P, m \in a + 1..b : m < n => m \in P
  PROVE  IsFiniteSet(P) /\ Cardinality(P) \in Nat /\ P = a + 1..a + Cardinality(P)
         /\ (P # {} => a + Cardinality(P) <= b)
<1> DEFINE T == (a + 1..b + a + 1) \ P
<1>1. T \in SUBSET Nat /\ b + a + 1 \in T
  OBVIOUS
<1>2. PICK m \in T : \A k \in T : m <= k
  BY <1>1, LeastNat
<1>3. m \in Nat /\ m >= a + 1 /\ m \notin P /\ \A k \in a + 1..m - 1 : k \in P
  BY <1>2
<1>4. \A k \in P : k < m
  <2> SUFFICES ASSUME NEW k \in P, k >= m PROVE FALSE
    BY <1>3
  <2>1. m < k /\ m \in a + 1..b
    BY <1>3
  <2> QED
    BY <1>3, <2>1
<1>5. P = a + 1..m - 1
  <2>1. \A k \in P : k \in a + 1..m - 1
    BY <1>3, <1>4
  <2> QED
    BY <1>3, <2>1
<1>6. IsFiniteSet(P) /\ Cardinality(P) = IF a + 1 > m - 1 THEN 0 ELSE m - 1 - (a + 1) + 1
  BY <1>3, <1>5, FS_Interval
<1>7. Cardinality(P) = m - 1 - a
  BY <1>3, <1>6
<1>8. m - 1 = a + Cardinality(P)
  BY <1>3, <1>7
<1>9. P # {} => m - 1 <= b
  BY <1>3, <1>5
<1> QED
  BY <1>3, <1>5, <1>6, <1>7, <1>8, <1>9
\* r has the elements of the first m lists of q, list after list.
IsFlat(S, r, q, m) ==
  /\ r \in Seq(S)
  /\ \A o \in 1..m : \A i \in 1..Len(q[o]) : \E a \in 1..Len(r) : r[a] = q[o][i]
  /\ \A a \in 1..Len(r) : \E o \in 1..m : \E i \in 1..Len(q[o]) : r[a] = q[o][i]
  /\ \A a, b \in 1..Len(r) : a < b =>
       \E o, p \in 1..m : \E i \in 1..Len(q[o]), k \in 1..Len(q[p]) :
         r[a] = q[o][i] /\ r[b] = q[p][k] /\ (o < p \/ (o = p /\ i < k))

LEMMA FlatStep ==
  ASSUME NEW S, NEW q \in Seq(Seq(S)), NEW m \in 1..Len(q), NEW r, IsFlat(S, r, q, m - 1)
  PROVE  IsFlat(S, r \o q[m], q, m)
<1> DEFINE s == q[m]
           t == r \o s
<1>1. /\ r \in Seq(S) /\ s \in Seq(S) /\ Len(r) \in Nat /\ Len(s) \in Nat /\ Len(q) \in Nat
  BY ElementOfSeq, LenProperties DEF IsFlat
<1>2. /\ t \in Seq(S) /\ Len(t) = Len(r) + Len(s)
      /\ \A i \in 1..Len(t) : t[i] = IF i <= Len(r) THEN r[i] ELSE s[i - Len(r)]
  BY <1>1, ConcatProperties
<1>3. \A a \in 1..Len(r) : a \in 1..Len(t) /\ t[a] = r[a]
  BY <1>1, <1>2
<1>4. \A i \in 1..Len(s) : Len(r) + i \in 1..Len(t) /\ t[Len(r) + i] = s[i]
  BY <1>1, <1>2
<1>5. \A a \in 1..Len(t) : a \notin 1..Len(r) => a - Len(r) \in 1..Len(s) /\ t[a] = s[a - Len(r)]
  BY <1>1, <1>2
<1> HIDE DEF t
<1>6. ASSUME NEW o \in 1..m, NEW i \in 1..Len(q[o]) PROVE \E a \in 1..Len(t) : t[a] = q[o][i]
  <2>1. CASE o = m
    BY <1>4, <1>6, <2>1
  <2>2. CASE o # m
    <3>1. o \in 1..m - 1
      BY <1>1, <2>2
    <3>2. PICK a \in 1..Len(r) : r[a] = q[o][i]
      BY <3>1 DEF IsFlat
    <3> QED
      BY <1>3, <3>2
  <2> QED
    BY <2>1, <2>2
<1>7. ASSUME NEW a \in 1..Len(t) PROVE \E o \in 1..m : \E i \in 1..Len(q[o]) : t[a] = q[o][i]
  <2>1. CASE a \in 1..Len(r)
    <3>1. PICK o \in 1..m - 1 : \E i \in 1..Len(q[o]) : r[a] = q[o][i]
      BY <2>1 DEF IsFlat
    <3>2. o \in 1..m
      BY <1>1
    <3> QED
      BY <1>3, <2>1, <3>1, <3>2
  <2>2. CASE a \notin 1..Len(r)
    <3>1. m \in 1..m
      BY <1>1
    <3> QED
      BY <1>5, <2>2, <3>1
  <2> QED
    BY <2>1, <2>2
<1>8. ASSUME NEW a \in 1..Len(t), NEW b \in 1..Len(t), a < b
      PROVE  \E o, p \in 1..m : \E i \in 1..Len(q[o]), k \in 1..Len(q[p]) :
               t[a] = q[o][i] /\ t[b] = q[p][k] /\ (o < p \/ (o = p /\ i < k))
  <2>0. m \in Nat /\ m \in 1..m /\ \A o \in 1..m - 1 : o \in 1..m /\ o < m
    BY <1>1
  <2>1. CASE b \in 1..Len(r)
    <3>1. a \in 1..Len(r)
      BY <1>1, <1>8, <2>1
    <3>2. PICK o, p \in 1..m - 1 : \E i \in 1..Len(q[o]), k \in 1..Len(q[p]) :
            r[a] = q[o][i] /\ r[b] = q[p][k] /\ (o < p \/ (o = p /\ i < k))
      BY <1>8, <2>1, <3>1 DEF IsFlat
    <3> QED
      BY <1>3, <2>0, <2>1, <3>1, <3>2
  <2>2. CASE b \notin 1..Len(r)
    <3>1. b - Len(r) \in 1..Len(s) /\ t[b] = s[b - Len(r)]
      BY <1>5, <2>2
    <3>2. CASE a \in 1..Len(r)
      <4>1. PICK o \in 1..m - 1 : \E i \in 1..Len(q[o]) : r[a] = q[o][i]
        BY <3>2 DEF IsFlat
      <4>2. PICK i \in 1..Len(q[o]) : r[a] = q[o][i]
        BY <4>1
      <4>3. o \in 1..m /\ o < m /\ t[a] = q[o][i]
        BY <1>3, <2>0, <3>2, <4>1, <4>2
      <4>4. b - Len(r) \in 1..Len(q[m]) /\ t[b] = q[m][b - Len(r)]
        BY <3>1
      <4> HIDE DEF s
      <4>5. \E k \in 1..Len(q[m]) : t[a] = q[o][i] /\ t[b] = q[m][k] /\ (o < m \/ (o = m /\ i < k))
        BY <4>3, <4>4
      <4>6. \E i0 \in 1..Len(q[o]), k \in 1..Len(q[m]) :
              t[a] = q[o][i0] /\ t[b] = q[m][k] /\ (o < m \/ (o = m /\ i0 < k))
        BY <4>5
      <4> QED
        BY <2>0, <4>3, <4>6
    <3>3. CASE a \notin 1..Len(r)
      <4>1. a - Len(r) \in 1..Len(s) /\ t[a] = s[a - Len(r)]
        BY <1>5, <3>3
      <4>2. a - Len(r) < b - Len(r)
        BY <1>1, <1>2, <1>8
      <4> QED
        BY <2>0, <3>1, <4>1, <4>2
    <3> QED
      BY <3>2, <3>3
  <2> QED
    BY <2>1, <2>2
<1> QED
  BY <1>2, <1>6, <1>7, <1>8 DEF IsFlat, t

\* What FlattenSeq returns.
LEMMA Flattened ==
  ASSUME NEW S, NEW q \in Seq(Seq(S))
  PROVE  IsFlat(S, FlattenSeq(q), q, Len(q))
<1> DEFINE n == Len(q)
           F(g, m) == [i \in 1..m |-> IF i = 1 THEN q[i] ELSE g[i - 1] \o q[i]]
<1>1. n \in Nat
  BY LenProperties
<1>2. CASE n = 0
  <2>1. FlattenSeq(q) = q /\ q = << >> 
    BY <1>2, EmptySeq DEF FlattenSeq
  <2>2. << >> \in Seq(S) /\ Len(<< >>) = 0
    BY EmptySeq
  <2> QED
    BY <1>2, <2>1, <2>2 DEF IsFlat
<1>3. CASE n # 0
  <2>1. \E f : f = F(f, n)
    <3> DEFINE U == {m \in Nat : \E g : g = F(g, m)}
    <3>1. 0 \in U
      <4>1. << >> = F(<< >>, 0)
        OBVIOUS
      <4> QED
        BY <4>1
    <3>2. ASSUME NEW m \in 0..(n - 1), m \in U PROVE m + 1 \in U
      <4>1. PICK g : g = F(g, m)
        BY <3>2
      <4> DEFINE h == [i \in 1..m + 1 |-> IF i = m + 1 THEN (IF i = 1 THEN q[i] ELSE g[i - 1] \o q[i])
                                          ELSE g[i]]
      <4>2. \A i \in 1..m : h[i] = g[i]
        OBVIOUS
      <4>3. \A i \in 1..m + 1 : h[i] = IF i = 1 THEN q[i] ELSE h[i - 1] \o q[i]
        <5> SUFFICES ASSUME NEW i \in 1..m + 1
                     PROVE  h[i] = IF i = 1 THEN q[i] ELSE h[i - 1] \o q[i]
          OBVIOUS
        <5>1. CASE i = m + 1
          <6>1. i # 1 => i - 1 \in 1..m
            BY <5>1
          <6> QED
            BY <4>2, <5>1, <6>1
        <5>2. CASE i # m + 1
          <6>1. i \in 1..m /\ (i # 1 => i - 1 \in 1..m)
            BY <5>2
          <6>2. g[i] = IF i = 1 THEN q[i] ELSE g[i - 1] \o q[i]
            BY <4>1, <6>1
          <6> QED
            BY <4>2, <6>1, <6>2
        <5> QED
          BY <5>1, <5>2
      <4>4. h = F(h, m + 1)
        <5>1. h = [i \in 1..m + 1 |-> h[i]]
          OBVIOUS
        <5> HIDE DEF h
        <5> QED
          BY <4>3, <5>1
      <4> HIDE DEF h, F
      <4>5. m + 1 \in Nat
        OBVIOUS
      <4> QED
        BY <4>4, <4>5
    <3> HIDE DEF U
    <3>3. n \in U
      <4>1. \A m \in 0..n : m \in U
        BY <1>1, <3>1, <3>2, UpTo
      <4> QED
        BY <1>1, <4>1
    <3> QED
      BY <3>3 DEF U
  <2> DEFINE f == CHOOSE g : g = F(g, n)
  <2>2. f = F(f, n)
    BY <2>1, Zenon
  <2>3. FlattenSeq(q) = f[n]
    BY <1>3, Zenon DEF FlattenSeq
  <2> HIDE DEF f
  <2>4. \A m \in 1..n : f[m] = IF m = 1 THEN q[m] ELSE f[m - 1] \o q[m]
    BY <2>2
  <2> DEFINE V == {m \in 0..n - 1 : IsFlat(S, f[m + 1], q, m + 1)}
  <2>5. 0 \in V
    <3>1. IsFlat(S, << >>, q, 0)
      <4>1. << >> \in Seq(S) /\ Len(<< >>) = 0
        BY EmptySeq
      <4> QED
        BY <4>1 DEF IsFlat
    <3>2. 1 \in 1..n /\ 1 - 1 = 0 /\ q[1] \in Seq(S)
      BY <1>1, <1>3, ElementOfSeq
    <3>3. IsFlat(S, << >> \o q[1], q, 1)
      BY <3>1, <3>2, FlatStep
    <3>4. << >> \o q[1] = q[1] /\ f[1] = q[1]
      BY <2>4, <3>2, ConcatEmptySeq
    <3> QED
      BY <1>1, <1>3, <3>3, <3>4
  <2>6. ASSUME NEW m \in 0..(n - 2), m \in V PROVE m + 1 \in V
    <3>1. m + 2 \in 1..n /\ m + 2 # 1 /\ (m + 2) - 1 = m + 1 /\ m + 1 \in 0..n - 1 /\ (m + 1) + 1 = m + 2
      BY <1>1, <1>3
    <3>2. IsFlat(S, f[m + 1], q, (m + 2) - 1)
      BY <2>6, <3>1
    <3>3. IsFlat(S, f[m + 1] \o q[m + 2], q, m + 2)
      BY <3>1, <3>2, FlatStep
    <3>4. f[m + 2] = f[m + 1] \o q[m + 2]
      BY <2>4, <3>1
    <3> QED
      BY <3>1, <3>3, <3>4
  <2> HIDE DEF V
  <2>7. n - 1 \in V
    <3>1. n - 1 \in Nat /\ (n - 1) - 1 = n - 2 /\ n - 1 \in 0..n - 1
      BY <1>1, <1>3
    <3>2. \A m \in 0..((n - 1) - 1) : m \in V => m + 1 \in V
      BY <2>6, <3>1
    <3> QED
      BY <2>5, <3>1, <3>2, UpTo
  <2>8. IsFlat(S, f[(n - 1) + 1], q, (n - 1) + 1) /\ (n - 1) + 1 = n
    BY <1>1, <2>7 DEF V
  <2> QED
    BY <2>3, <2>8
<1> QED
  BY <1>2, <1>3

\* The first c elements taken off.
LEMMA FrontDropped ==
  ASSUME NEW S, NEW q \in Seq(S), NEW c \in 0..Len(q)
  PROVE  LET r == SubSeq(q, c + 1, Len(q)) IN
         /\ r \in Seq(S) /\ Len(r) = Len(q) - c /\ DOMAIN r = 1..Len(q) - c
         /\ \A i \in 1..Len(q) - c : r[i] = q[c + i]
         /\ ToSet(r) = {q[i] : i \in c + 1..Len(q)}
         /\ IsInjective(q) => IsInjective(r)
<1> DEFINE r == SubSeq(q, c + 1, Len(q))
<1>1. Len(q) \in Nat /\ DOMAIN q = 1..Len(q) /\ \A i \in 1..Len(q) : q[i] \in S
  BY LenProperties, ElementOfSeq
<1>2. /\ r \in Seq(S) /\ Len(r) = Len(q) - c
      /\ \A i \in 1..(Len(q) - c) : r[i] = q[c + i]
  <2>1. c + 1 \in Int /\ Len(q) \in Int /\ \A i \in c + 1..Len(q) : q[i] \in S
    BY <1>1
  <2>2. /\ r \in Seq(S) /\ Len(r) = IF c + 1 <= Len(q) THEN Len(q) - (c + 1) + 1 ELSE 0
        /\ \A i \in 1..Len(q) - (c + 1) + 1 : r[i] = q[c + 1 + i - 1]
    BY <2>1, SubSeqProperties
  <2>3. c \in Nat /\ c <= Len(q) /\ Len(q) - (c + 1) + 1 = Len(q) - c
    BY <1>1
  <2>4. \A i \in 1..(Len(q) - c) : c + 1 + i - 1 = c + i
    BY <2>3
  <2> HIDE DEF r
  <2>5. Len(r) = Len(q) - c
    <3>1. \A m, n, l \in Nat : m <= n /\ l = (IF m + 1 <= n THEN n - (m + 1) + 1 ELSE 0) => l = n - m
      OBVIOUS
    <3>2. Len(q) \in Nat /\ Len(r) \in Nat
      BY <1>1, <2>2, LenProperties
    <3> QED
      BY <2>2, <2>3, <3>1, <3>2
  <2> QED
    BY <2>2, <2>3, <2>4, <2>5
<1>3. DOMAIN r = 1..(Len(q) - c)
  BY <1>2, LenProperties
<1> HIDE DEF r
<1>4. ToSet(r) = {q[i] : i \in c + 1..Len(q)}
  <2>1. \A i \in 1..(Len(q) - c) : c + i \in c + 1..Len(q)
    BY <1>1
  <2>2. \A i \in c + 1..Len(q) : i - c \in 1..(Len(q) - c) /\ c + (i - c) = i
    BY <1>1
  <2>3. \A e \in ToSet(r) : e \in {q[i] : i \in c + 1..Len(q)}
    BY <1>2, <1>3, <2>1 DEF ToSet
  <2>4. ASSUME NEW i \in c + 1..Len(q) PROVE q[i] \in ToSet(r)
    <3>1. i - c \in DOMAIN r /\ r[i - c] = q[i]
      BY <1>2, <1>3, <2>2
    <3> QED
      BY <3>1 DEF ToSet
  <2> QED
    BY <2>3, <2>4
<1>5. IsInjective(q) => IsInjective(r)
  <2>1. \A i \in 1..(Len(q) - c) : c + i \in 1..Len(q)
    BY <1>1
  <2>2. \A i, k \in 1..(Len(q) - c) : c + i = c + k => i = k
    BY <1>1
  <2>3. SUFFICES ASSUME IsInjective(q), NEW i \in DOMAIN r, NEW k \in DOMAIN r, r[i] = r[k]
                 PROVE  i = k
    BY DEF IsInjective
  <2>4. i \in 1..(Len(q) - c) /\ k \in 1..(Len(q) - c) /\ q[c + i] = q[c + k]
    BY <1>2, <1>3, <2>3
  <2>5. c + i \in DOMAIN q /\ c + k \in DOMAIN q
    BY <1>1, <2>1, <2>4
  <2>6. c + i = c + k
    BY <2>3, <2>4, <2>5 DEF IsInjective
  <2> QED
    BY <2>2, <2>4, <2>6
<1> QED
  BY <1>2, <1>4, <1>5 DEF r

\* The first element popped.
LEMMA FrontPopped ==
  ASSUME NEW S, NEW q \in Seq(S), q # << >>
  PROVE  /\ Tail(q) \in Seq(S) /\ Len(Tail(q)) = Len(q) - 1
         /\ Head(q) \in ToSet(q) /\ Head(q) \in S
         /\ IsInjective(q) => IsInjective(Tail(q)) /\ ToSet(Tail(q)) = ToSet(q) \ {Head(q)}
<1>1. Len(q) \in Nat \ {0} /\ DOMAIN q = 1..Len(q) /\ Head(q) = q[1]
  BY EmptySeq, LenProperties
<1>2. Tail(q) = SubSeq(q, 2, Len(q)) /\ Head(q) \in S
  BY TailIsSubSeq, HeadTailProperties
<1>3. /\ Tail(q) \in Seq(S) /\ Len(Tail(q)) = Len(q) - 1
      /\ ToSet(Tail(q)) = {q[i] : i \in 2..Len(q)}
      /\ IsInjective(q) => IsInjective(Tail(q))
  <2>1. 1 \in 0..Len(q) /\ 1 + 1 = 2
    BY <1>1
  <2> DEFINE r == SubSeq(q, 1 + 1, Len(q))
  <2>2. r \in Seq(S) /\ Len(r) = Len(q) - 1 /\ ToSet(r) = {q[i] : i \in 1 + 1..Len(q)}
    BY <2>1, FrontDropped
  <2>3. IsInjective(q) => IsInjective(r)
    BY <2>1, FrontDropped
  <2>4. Tail(q) = r
    BY <1>2, <2>1
  <2> HIDE DEF r
  <2> QED
    BY <2>1, <2>2, <2>3, <2>4
<1>4. 1 \in DOMAIN q /\ \A i \in DOMAIN q : i = 1 \/ i \in 2..Len(q)
  BY <1>1
<1>5. Head(q) \in ToSet(q)
  BY <1>1, <1>4 DEF ToSet
<1>6. ASSUME IsInjective(q) PROVE ToSet(Tail(q)) = ToSet(q) \ {Head(q)}
  <2>1. \A i \in 2..Len(q) : i \in DOMAIN q /\ i # 1
    BY <1>1
  <2>2. \A i \in 2..Len(q) : q[i] # q[1]
    BY <1>4, <1>6, <2>1 DEF IsInjective
  <2> QED
    BY <1>1, <1>3, <1>4, <2>1, <2>2 DEF ToSet
<1> QED
  BY <1>2, <1>3, <1>5, <1>6

\* A finite set of naturals has a greatest element.
LEMMA GreatestNat ==
  ASSUME NEW S \in SUBSET Nat, IsFiniteSet(S), S # {}
  PROVE  \E m \in S : \A n \in S : n <= m
<1> DEFINE HasMax(Q) == \E m \in Q : \A n \in Q : n <= m
           c == Cardinality(S)
           U == {k \in 0..c : \A Q \in SUBSET S : Cardinality(Q) = k => Q = {} \/ HasMax(Q)}
<1>1. c \in Nat /\ \A Q \in SUBSET S : IsFiniteSet(Q) /\ Cardinality(Q) \in Nat
  BY FS_Subset, FS_CardinalityType
<1> HIDE DEF c
<1>2. 0 \in U
  BY <1>1, FS_EmptySet
<1>3. ASSUME NEW k \in 0..(c - 1), k \in U PROVE k + 1 \in U
  <2>1. ASSUME NEW Q \in SUBSET S, Cardinality(Q) = k + 1 PROVE HasMax(Q)
    <3>1. Q # {}
      BY <1>1, <2>1, FS_EmptySet
    <3>2. PICK x \in Q : TRUE
      BY <3>1
    <3>3. Cardinality(Q \ {x}) = k /\ Q \ {x} \in SUBSET S
      BY <1>1, <2>1, <3>2, FS_RemoveElement
    <3>4. Q \ {x} = {} \/ HasMax(Q \ {x})
      BY <1>3, <3>3
    <3>5. CASE Q \ {x} = {}
      <4>1. \A n \in Q : n = x /\ n \in Nat
        BY <3>5
      <4> QED
        BY <3>2, <4>1
    <3>6. CASE HasMax(Q \ {x})
      <4>1. PICK m \in Q \ {x} : \A n \in Q \ {x} : n <= m
        BY <3>6
      <4>2. m \in Nat /\ x \in Nat /\ \A n \in Q : n \in Nat
        OBVIOUS
      <4>3. CASE x <= m
        BY <4>1, <4>2, <4>3
      <4>4. CASE ~(x <= m)
        <5>1. \A n \in Q : n <= x
          BY <4>1, <4>2, <4>4
        <5> QED
          BY <5>1
      <4> QED
        BY <4>3, <4>4
    <3> QED
      BY <3>4, <3>5, <3>6
  <2>2. k + 1 \in 0..c
    BY <1>1
  <2> HIDE DEF HasMax
  <2> QED
    BY <2>1, <2>2
<1> HIDE DEF U
<1>4. \A k \in 0..c : k \in U
  BY <1>1, <1>2, <1>3, UpTo
<1>5. c \in U
  BY <1>1, <1>4
<1> QED
  BY <1>5 DEF U, c
-----------------------------------------------------------------------------
(* Folds *)

\* The greatest of some of the numbers up to n.
LEMMA GreatestUpTo ==
  ASSUME NEW n \in Nat, NEW s \in SUBSET (1..n), s # {}
  PROVE  Max(s) \in s /\ \A y \in s : y <= Max(s)
<1>0. IsFiniteSet(1..n)
  BY FS_Interval
<1>1. IsFiniteSet(s)
  BY <1>0, FS_Subset
<1>a. s \in SUBSET Nat
  OBVIOUS
<1>2. PICK m \in s : \A y \in s : y <= m
  BY <1>1, <1>a, GreatestNat
<1>3. m \in s /\ \A y \in s : m >= y
  BY <1>a, <1>2
<1>4. Max(s) \in s /\ \A y \in s : Max(s) >= y
  BY <1>3, Zenon DEF Max
<1> QED
  BY <1>a, <1>4

\* it solves the recursion of a fold over the numbers up to n, from the greatest
\* down.
FoldsUp(it, n, base, r) ==
  it = [s \in SUBSET (1..n) |-> IF s = {} THEN base ELSE r[<<it[s \ {Max(s)}], Max(s)>>]]

\* It has a solution when its steps stay within a set.
LEMMA FoldExists ==
  ASSUME NEW X, NEW n \in Nat, NEW base \in X, NEW r \in [X \X (1..n) -> X]
  PROVE  \E it \in [SUBSET (1..n) -> X] : FoldsUp(it, n, base, r)
<1> DEFINE Solves(it, m) == \A s \in SUBSET (1..m) :
                              it[s] = IF s = {} THEN base ELSE r[<<it[s \ {Max(s)}], Max(s)>>]
           U == {m \in 0..n : \E it \in [SUBSET (1..m) -> X] : Solves(it, m)}
<1>1. 0 \in U
  <2> DEFINE z == [s \in SUBSET (1..0) |-> base]
  <2>1. \A s \in SUBSET (1..0) : s = {}
    OBVIOUS
  <2>2. z \in [SUBSET (1..0) -> X] /\ Solves(z, 0)
    BY <2>1
  <2>3. 0 \in 0..n
    OBVIOUS
  <2> HIDE DEF Solves, z
  <2> QED
    BY <2>2, <2>3
<1>2. ASSUME NEW m \in 0..(n - 1), m \in U PROVE m + 1 \in U
  <2>1. PICK it \in [SUBSET (1..m) -> X] : Solves(it, m)
    BY <1>2
  <2>2. m \in Nat /\ m + 1 \in 1..n /\ 1..m \subseteq 1..n /\ 1..m + 1 = 1..m \cup {m + 1} /\ m + 1 \notin 1..m
    OBVIOUS
  <2> DEFINE g == [s \in SUBSET (1..m + 1) |->
                     IF s \in SUBSET (1..m) THEN it[s] ELSE r[<<it[s \ {m + 1}], m + 1>>]]
  <2>3. ASSUME NEW s \in SUBSET (1..m + 1), s \notin SUBSET (1..m)
        PROVE  s # {} /\ Max(s) = m + 1 /\ s \ {m + 1} \in SUBSET (1..m)
    <3>0. m + 1 \in Nat /\ s # {}
      BY <2>2, <2>3
    <3>1. m + 1 \in s /\ s \ {m + 1} \in SUBSET (1..m)
      BY <2>2, <2>3
    <3>2. Max(s) \in s /\ \A y \in s : y <= Max(s)
      BY <2>2, <2>3, <3>0, GreatestUpTo
    <3>3. Max(s) \in 1..m + 1 /\ m + 1 <= Max(s)
      BY <3>1, <3>2
    <3> QED
      BY <2>2, <3>1, <3>3
  <2>4. g \in [SUBSET (1..m + 1) -> X]
    <3>1. ASSUME NEW s \in SUBSET (1..m + 1) PROVE g[s] \in X
      <4>1. CASE s \in SUBSET (1..m)
        BY <4>1
      <4>2. CASE s \notin SUBSET (1..m)
        <5>1. it[s \ {m + 1}] \in X
          BY <2>3, <4>2
        <5> QED
          BY <2>2, <4>2, <5>1
      <4> QED
        BY <4>1, <4>2
    <3> QED
      BY <3>1
  <2>5. Solves(g, m + 1)
    <3> SUFFICES ASSUME NEW s \in SUBSET (1..m + 1)
                 PROVE  g[s] = IF s = {} THEN base ELSE r[<<g[s \ {Max(s)}], Max(s)>>]
      OBVIOUS
    <3>1. CASE s \in SUBSET (1..m)
      <4>1. g[s] = it[s] /\ s \ {Max(s)} \in SUBSET (1..m)
        BY <3>1
      <4>2. g[s \ {Max(s)}] = it[s \ {Max(s)}]
        BY <2>2, <4>1
      <4> QED
        BY <2>1, <3>1, <4>1, <4>2
    <3>2. CASE s \notin SUBSET (1..m)
      <4>1. s # {} /\ Max(s) = m + 1 /\ s \ {m + 1} \in SUBSET (1..m)
        BY <2>3, <3>2
      <4>2. g[s \ {m + 1}] = it[s \ {m + 1}]
        BY <2>2, <4>1
      <4> QED
        BY <3>2, <4>1, <4>2
    <3> QED
      BY <3>1, <3>2
  <2>6. m + 1 \in 0..n
    OBVIOUS
  <2> HIDE DEF Solves, g
  <2> QED
    BY <2>4, <2>5, <2>6
<1> HIDE DEF U
<1>3. n \in U
  BY <1>1, <1>2, UpTo
<1>4. PICK it \in [SUBSET (1..n) -> X] : Solves(it, n)
  BY <1>3 DEF U
<1>5. it = [s \in SUBSET (1..n) |-> IF s = {} THEN base ELSE r[<<it[s \ {Max(s)}], Max(s)>>]]
  BY <1>4
<1> QED
  BY <1>5, Zenon DEF FoldsUp

\* The start of the numbers up to n.
LEMMA UpToLast ==
  ASSUME NEW n \in Nat, NEW k \in 0..(n - 1)
  PROVE  /\ 1..k \in SUBSET (1..n) /\ 1..k + 1 \in SUBSET (1..n) /\ 1..k + 1 # {}
         /\ Max(1..k + 1) = k + 1 /\ (1..k + 1) \ {k + 1} = 1..k
<1>1. k \in Nat /\ k + 1 \in Nat /\ 1..k + 1 # {} /\ 1..k + 1 \in SUBSET (1..k + 1) /\ k + 1 \in 1..k + 1
  OBVIOUS
<1>2. Max(1..k + 1) \in 1..k + 1 /\ \A y \in 1..k + 1 : y <= Max(1..k + 1)
  BY <1>1, GreatestUpTo
<1>3. Max(1..k + 1) = k + 1
  BY <1>1, <1>2
<1> QED
  BY <1>1, <1>3
=============================================================================
