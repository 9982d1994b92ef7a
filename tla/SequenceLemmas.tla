--------------------------- MODULE SequenceLemmas ---------------------------
(* Facts about the operators on sequences and numbers the models use.       *)
EXTENDS SequencesExt, SequenceTheorems, WellFoundedInduction, TLAPS

(* A nonempty set of naturals has a least element, which is what Min picks.  *)
LEMMA MinOfNaturals ==
  ASSUME NEW I \in SUBSET Nat, I # {}
  PROVE  Min(I) \in I /\ \A y \in I : Min(I) <= y
<1>. DEFINE less == {ss \in Nat \X Nat : ss[1] < ss[2]}
<1>1. IsWellFoundedOn(less, Nat)
  BY NatLessThanWellFounded DEF OpToRel
<1>2. \A x, y \in Nat : y < x => <<y, x>> \in less
  OBVIOUS
<1>. HIDE DEF less
<1>3. \E x \in I : \A y \in I : ~(<<y, x>> \in less)
  BY <1>1, WFMin
<1>4. \E x \in I : \A y \in I : x <= y
  <2>1. PICK x \in I : \A y \in I : ~(<<y, x>> \in less)
    BY <1>3
  <2>2. \A y \in I : x \in Nat /\ y \in Nat /\ ~(y < x)
    BY <1>2, <2>1
  <2>3. \A y \in I : x <= y
    BY <2>2
  <2>. QED BY <2>3
<1>. QED
  BY <1>4 DEF Min

(* One with an upper bound has a greatest element, which is what Max picks:  *)
(* the least distance from the bound is its distance.                        *)
LEMMA MaxOfNaturals ==
  ASSUME NEW n \in Nat, NEW I \in SUBSET (0 .. n), I # {}
  PROVE  Max(I) \in I /\ \A y \in I : y <= Max(I)
<1>. DEFINE distances == {n - x : x \in I}
<1>1. distances \in SUBSET Nat /\ distances # {}
  <2>1. \A x \in I : n - x \in Nat
    OBVIOUS
  <2>2. PICK x \in I : TRUE
    OBVIOUS
  <2>3. n - x \in distances
    BY <2>2
  <2>. QED BY <2>1, <2>3
<1>2. PICK d \in distances : \A e \in distances : d <= e
  BY <1>1, MinOfNaturals
<1>3. PICK x \in I : d = n - x
  OBVIOUS
<1>4. ASSUME NEW y \in I
      PROVE  y <= x
  <2>1. n - y \in distances
    OBVIOUS
  <2>. HIDE DEF distances
  <2>2. n - x <= n - y
    BY <1>2, <1>3, <2>1
  <2>3. x \in Nat /\ y \in Nat
    OBVIOUS
  <2>. QED BY <2>2, <2>3
<1>5. \E z \in I : \A y \in I : z >= y
  BY <1>4
<1>6. Max(I) \in I /\ \A y \in I : Max(I) >= y
  BY <1>5 DEF Max
<1>. QED BY <1>6

(* A sequence t that is s without position k has all other elements of s.   *)
LEMMA ElementsWithoutPosition ==
  ASSUME NEW S, NEW s \in Seq(S), NEW t \in Seq(S), NEW k \in 1..Len(s),
         Len(t) = Len(s) - 1,
         \A i \in 1..(Len(s) - 1) : t[i] = IF i < k THEN s[i] ELSE s[i + 1]
  PROVE  /\ ToSet(t) \subseteq ToSet(s)
         /\ ToSet(s) \ {s[k]} \subseteq ToSet(t)
<1>1. Len(s) \in Nat /\ DOMAIN s = 1..Len(s) /\ DOMAIN t = 1..(Len(s) - 1)
  OBVIOUS
<1>2. ToSet(t) \subseteq ToSet(s)
  <2>1. ASSUME NEW i \in 1..(Len(s) - 1)
        PROVE  t[i] \in ToSet(s)
    <3>1. i \in DOMAIN s /\ i + 1 \in DOMAIN s /\ (t[i] = s[i] \/ t[i] = s[i + 1])
      BY <1>1
    <3>. QED BY <3>1 DEF ToSet
  <2>. QED BY <1>1, <2>1 DEF ToSet
<1>3. ASSUME NEW j \in 1..Len(s), j # k
      PROVE  s[j] \in ToSet(t)
  <2>1. CASE j < k
    <3>1. j \in DOMAIN t /\ t[j] = s[j]
      BY <1>1, <2>1
    <3>. QED BY <3>1 DEF ToSet
  <2>2. CASE j > k
    <3>1. j - 1 \in DOMAIN t /\ t[j - 1] = s[j]
      BY <1>1, <2>2
    <3>. QED BY <3>1 DEF ToSet
  <2>. QED BY <1>1, <1>3, <2>1, <2>2
<1>4. ToSet(s) \ {s[k]} \subseteq ToSet(t)
  BY <1>1, <1>3 DEF ToSet
<1>. QED BY <1>2, <1>4

(* Where a sequence has e, RemoveFirst closes the gap at one of its positions. *)
LEMMA RemoveFirstPositions ==
  ASSUME NEW S, NEW s \in Seq(S), NEW e \in ToSet(s)
  PROVE  \E k \in 1..Len(s) :
           /\ s[k] = e
           /\ RemoveFirst(s, e) \in Seq(S) /\ Len(RemoveFirst(s, e)) = Len(s) - 1
           /\ \A i \in 1..(Len(s) - 1) :
                RemoveFirst(s, e)[i] = IF i < k THEN s[i] ELSE s[i + 1]
<1>. DEFINE I == {i \in 1..Len(s) : s[i] = e}
            k == Min(I)
            a == SubSeq(s, 1, k - 1)
            b == SubSeq(s, k + 1, Len(s))
            t == a \o b
<1>1. Len(s) \in Nat /\ \A i \in 1..Len(s) : s[i] \in S
  OBVIOUS
<1>2. I # {}
  BY DEF ToSet
<1>3. k \in 1..Len(s) /\ s[k] = e
  <2>1. I \in SUBSET Nat
    BY <1>1
  <2>2. k \in I
    BY <1>2, <2>1, MinOfNaturals
  <2>. QED BY <2>2
<1>4. RemoveFirst(s, e) = t
  BY <1>1, <1>2 DEF RemoveFirst, RemoveAt, SelectInSeq
<1>. HIDE DEF k
<1>5. /\ a \in Seq(S) /\ Len(a) = k - 1
      /\ \A i \in 1..(k - 1) : a[i] = s[i]
  BY <1>1, <1>3, SubSeqProperties
<1>6. /\ b \in Seq(S) /\ Len(b) = Len(s) - k
      /\ \A i \in 1..(Len(s) - k) : b[i] = s[k + i]
  BY <1>1, <1>3, SubSeqProperties
<1>. HIDE DEF a, b
<1>7. /\ t \in Seq(S)
      /\ Len(t) = Len(a) + Len(b)
      /\ \A i \in 1..(Len(a) + Len(b)) :
           t[i] = IF i <= Len(a) THEN a[i] ELSE b[i - Len(a)]
  BY <1>5, <1>6, ConcatProperties
<1>. HIDE DEF t
<1>8. Len(a) + Len(b) = Len(s) - 1
  BY <1>1, <1>3, <1>5, <1>6
<1>9. ASSUME NEW i \in 1..(Len(s) - 1), i < k
      PROVE  t[i] = s[i]
  BY <1>1, <1>3, <1>5, <1>7, <1>8, <1>9
<1>10. ASSUME NEW i \in 1..(Len(s) - 1), ~(i < k)
       PROVE  t[i] = s[i + 1]
  <2>1. i - Len(a) \in 1..(Len(s) - k) /\ k + (i - Len(a)) = i + 1
    BY <1>1, <1>3, <1>5, <1>10
  <2>2. b[i - Len(a)] = s[i + 1]
    BY <1>6, <2>1
  <2>. QED BY <1>1, <1>3, <1>5, <1>7, <1>8, <1>10, <2>2
<1>. QED BY <1>3, <1>4, <1>7, <1>8, <1>9, <1>10

(* Removing the first occurrence of e keeps every other element.            *)
LEMMA RemoveFirstElements ==
  ASSUME NEW S, NEW s \in Seq(S), NEW e
  PROVE  /\ RemoveFirst(s, e) \in Seq(S)
         /\ ToSet(RemoveFirst(s, e)) \subseteq ToSet(s)
         /\ ToSet(s) \ {e} \subseteq ToSet(RemoveFirst(s, e))
<1>1. CASE e \notin ToSet(s)
  <2>1. {i \in 1..Len(s) : s[i] = e} = {}
    BY <1>1 DEF ToSet
  <2>2. RemoveFirst(s, e) = s
    BY <2>1 DEF RemoveFirst, RemoveAt, SelectInSeq
  <2>. QED BY <2>2
<1>2. CASE e \in ToSet(s)
  BY <1>2, RemoveFirstPositions, ElementsWithoutPosition
<1>. QED BY <1>1, <1>2

(* Appending adds exactly one element.                                      *)
LEMMA AppendElements ==
  ASSUME NEW S, NEW s \in Seq(S), NEW e \in S
  PROVE  /\ Append(s, e) \in Seq(S)
         /\ ToSet(Append(s, e)) = ToSet(s) \cup {e}
<1>1. /\ Append(s, e) \in Seq(S)
      /\ Len(Append(s, e)) = Len(s) + 1
      /\ \A i \in 1..Len(s) : Append(s, e)[i] = s[i]
      /\ Append(s, e)[Len(s) + 1] = e
  BY AppendProperties
<1>. DEFINE t == Append(s, e)
<1>2. t \in Seq(S) /\ Len(t) = Len(s) + 1 /\ t[Len(s) + 1] = e
      /\ \A i \in 1..Len(s) : t[i] = s[i]
  BY <1>1
<1>. HIDE DEF t
<1>3. Len(s) \in Nat /\ DOMAIN s = 1..Len(s) /\ DOMAIN t = 1..(Len(s) + 1)
  BY <1>2
<1>4. ToSet(t) = ToSet(s) \cup {e}
  BY <1>2, <1>3 DEF ToSet
<1>. QED BY <1>2, <1>4 DEF t

(* The first element and the rest together are the whole sequence.          *)
LEMMA HeadTailElements ==
  ASSUME NEW S, NEW s \in Seq(S), s # <<>>
  PROVE  /\ Head(s) \in S
         /\ Tail(s) \in Seq(S)
         /\ ToSet(s) = {Head(s)} \cup ToSet(Tail(s))
<1>1. /\ Head(s) \in S /\ Tail(s) \in Seq(S) /\ Len(Tail(s)) = Len(s) - 1
      /\ \A i \in 1..Len(Tail(s)) : Tail(s)[i] = s[i + 1]
  BY HeadTailProperties
<1>. DEFINE t == Tail(s)
<1>2. /\ t \in Seq(S) /\ Len(t) = Len(s) - 1
      /\ \A i \in 1..(Len(s) - 1) : t[i] = s[i + 1]
  BY <1>1
<1>. HIDE DEF t
<1>3. /\ Len(s) \in Nat \ {0} /\ DOMAIN s = 1..Len(s)
      /\ DOMAIN t = 1..(Len(s) - 1) /\ Head(s) = s[1]
  BY <1>2
<1>4. ASSUME NEW x \in ToSet(s), x # Head(s)
      PROVE  x \in ToSet(t)
  <2>1. PICK j \in 1..Len(s) : s[j] = x
    BY <1>3 DEF ToSet
  <2>2. j - 1 \in DOMAIN t /\ t[j - 1] = x
    BY <1>2, <1>3, <1>4, <2>1
  <2>. QED BY <2>2 DEF ToSet
<1>5. ToSet(t) \subseteq ToSet(s)
  BY <1>2, <1>3 DEF ToSet
<1>6. Head(s) \in ToSet(s)
  BY <1>3 DEF ToSet
<1>7. ToSet(s) = {Head(s)} \cup ToSet(t)
  BY <1>4, <1>5, <1>6
<1>. QED BY <1>1, <1>7 DEF t

(* Where no element stands twice, removing one removes it for good.          *)
LEMMA RemoveFirstDistinct ==
  ASSUME NEW S, NEW s \in Seq(S), IsInjective(s), NEW e
  PROVE  IsInjective(RemoveFirst(s, e)) /\ ToSet(RemoveFirst(s, e)) = ToSet(s) \ {e}
<1>1. CASE e \notin ToSet(s)
  <2>1. {i \in 1..Len(s) : s[i] = e} = {}
    BY <1>1 DEF ToSet
  <2>2. RemoveFirst(s, e) = s
    BY <2>1 DEF RemoveFirst, RemoveAt, SelectInSeq
  <2>. QED BY <1>1, <2>2
<1>2. CASE e \in ToSet(s)
  <2>. DEFINE t == RemoveFirst(s, e)
  <2>1. PICK k \in 1..Len(s) :
          /\ s[k] = e
          /\ t \in Seq(S) /\ Len(t) = Len(s) - 1
          /\ \A i \in 1..(Len(s) - 1) : t[i] = IF i < k THEN s[i] ELSE s[i + 1]
    BY <1>2, RemoveFirstPositions
  <2>2. ToSet(t) \subseteq ToSet(s) /\ ToSet(s) \ {e} \subseteq ToSet(t)
    BY RemoveFirstElements
  <2>. HIDE DEF t
  <2>3. Len(s) \in Nat /\ DOMAIN t = 1..(Len(s) - 1)
    BY <2>1
  <2>4. ASSUME NEW i \in 1..(Len(s) - 1)
        PROVE  \E n \in 1..Len(s) : /\ n # k /\ t[i] = s[n]
                                    /\ (n = i \/ n = i + 1) /\ (n = i <=> i < k)
    <3>1. CASE i < k
      BY <2>1, <2>3, <3>1
    <3>2. CASE ~(i < k)
      <4>1. i + 1 \in 1..Len(s) /\ i + 1 # k /\ t[i] = s[i + 1]
        BY <2>1, <2>3, <3>2
      <4>. QED BY <4>1, <3>2, <2>3
    <3>. QED BY <3>1, <3>2
  <2>5. e \notin ToSet(t)
    BY <2>1, <2>3, <2>4 DEF ToSet, IsInjective
  <2>6. ASSUME NEW i \in 1..(Len(s) - 1), NEW j \in 1..(Len(s) - 1), t[i] = t[j]
        PROVE  i = j
    <3>1. PICK n \in 1..Len(s) : t[i] = s[n] /\ (n = i \/ n = i + 1) /\ (n = i <=> i < k)
      BY <2>4
    <3>2. PICK m \in 1..Len(s) : t[j] = s[m] /\ (m = j \/ m = j + 1) /\ (m = j <=> j < k)
      BY <2>4
    <3>3. n = m
      <4>1. DOMAIN s = 1..Len(s)
        OBVIOUS
      <4>2. s[n] = s[m]
        BY <2>6, <3>1, <3>2
      <4>. QED BY <4>1, <4>2 DEF IsInjective
    <3>. QED BY <3>1, <3>2, <3>3, <2>3
  <2>7. IsInjective(t)
    BY <2>1, <2>6 DEF IsInjective
  <2>. QED BY <2>2, <2>5, <2>7 DEF t
<1>. QED BY <1>1, <1>2

(* The rest of such a sequence no longer has its first element.              *)
LEMMA TailDistinct ==
  ASSUME NEW S, NEW s \in Seq(S), s # <<>>, IsInjective(s)
  PROVE  IsInjective(Tail(s)) /\ ToSet(Tail(s)) = ToSet(s) \ {Head(s)}
<1>. DEFINE t == Tail(s)
<1>1. /\ t \in Seq(S) /\ Len(t) = Len(s) - 1 /\ Head(s) = s[1]
      /\ \A i \in 1..(Len(s) - 1) : t[i] = s[i + 1]
  BY HeadTailProperties
<1>2. ToSet(s) = {Head(s)} \cup ToSet(t)
  BY HeadTailElements
<1>. HIDE DEF t
<1>3. Len(s) \in Nat \ {0} /\ DOMAIN t = 1..(Len(s) - 1)
  BY <1>1
<1>4. Head(s) \notin ToSet(t)
  <2>1. \A i \in 1..(Len(s) - 1) : i + 1 \in 1..Len(s) /\ 1 \in 1..Len(s) /\ i + 1 # 1
    BY <1>3
  <2>. QED BY <1>1, <1>3, <2>1 DEF ToSet, IsInjective
<1>5. IsInjective(t)
  <2>1. DOMAIN s = 1..Len(s)
    OBVIOUS
  <2>2. ASSUME NEW i \in 1..(Len(s) - 1), NEW j \in 1..(Len(s) - 1), t[i] = t[j]
        PROVE  i = j
    <3>1. i + 1 \in DOMAIN s /\ j + 1 \in DOMAIN s /\ s[i + 1] = s[j + 1]
      BY <1>1, <1>3, <2>1, <2>2
    <3>2. i + 1 = j + 1
      BY <3>1 DEF IsInjective
    <3>. QED BY <3>2
  <2>. QED BY <1>3, <2>2 DEF IsInjective
<1>. QED BY <1>2, <1>4, <1>5 DEF t

(* A new element may be appended.                                            *)
LEMMA AppendDistinct ==
  ASSUME NEW S, NEW s \in Seq(S), IsInjective(s), NEW e \in S \ ToSet(s)
  PROVE  IsInjective(Append(s, e))
<1>. DEFINE t == Append(s, e)
<1>1. t \in Seq(S) /\ Len(t) = Len(s) + 1 /\ t[Len(s) + 1] = e
      /\ \A i \in 1..Len(s) : t[i] = s[i]
  BY AppendProperties
<1>. HIDE DEF t
<1>2. Len(s) \in Nat /\ \A i \in 1..(Len(s) + 1) : i \in 1..Len(s) \/ i = Len(s) + 1
  OBVIOUS
<1>3. \A i \in 1..Len(s) : s[i] # e
  BY DEF ToSet
<1>4. DOMAIN s = 1..Len(s) /\ DOMAIN t = 1..(Len(s) + 1)
  BY <1>1
<1>5. DOMAIN s = 1..Len(s)
  OBVIOUS
<1>6. \A i, j \in 1..(Len(s) + 1) : t[i] = t[j] => i = j
  BY <1>1, <1>2, <1>3, <1>5 DEF IsInjective
<1>. QED BY <1>4, <1>6 DEF IsInjective, t
=============================================================================
