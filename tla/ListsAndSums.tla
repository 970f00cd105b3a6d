---------------------------- MODULE ListsAndSums ----------------------------
(***************************************************************************)
(* What the list operators of LruSeq return and preserve, for lists of any *)
(* length over any set; and what the sum of the values of a function over  *)
(* a finite set is, although FoldFunction only says that some element is   *)
(* added first.                                                            *)
(***************************************************************************)
EXTENDS LruSeq, FiniteSets, Functions, TLAPS,
        SequenceTheorems, FiniteSetTheorems, WellFoundedInduction

\* The elements of a list are members of the set it is a list of, and a list
\* without elements is the empty one.
LEMMA ElementsType ==
  ASSUME NEW S, NEW s \in Seq(S)
  PROVE  /\ Elements(s) \subseteq S
         /\ \A i \in 1 .. Len(s) : s[i] \in Elements(s)
         /\ \A e \in Elements(s) : \E i \in 1 .. Len(s) : s[i] = e
  BY DEF Elements

\* Unlinking e moves every element behind it up by one position.
LEMMA WithoutAt ==
  ASSUME NEW S, NEW s \in Seq(S), NEW e \in Elements(s)
  PROVE  \E i \in 1 .. Len(s) :
           /\ s[i] = e
           /\ Without(s, e) \in Seq(S) /\ Len(Without(s, e)) = Len(s) - 1
           /\ \A j \in 1 .. Len(s) - 1 :
                Without(s, e)[j] = IF j < i THEN s[j] ELSE s[j + 1]
<1> DEFINE i == CHOOSE i \in DOMAIN s : s[i] = e
           left == SubSeq(s, 1, i - 1)
           right == SubSeq(s, i + 1, Len(s))
           w == Without(s, e)
<1>1. i \in 1 .. Len(s) /\ s[i] = e
  BY DEF Elements
<1>2. w = left \o right
  BY DEF Without
<1> HIDE DEF i
<1>3. /\ left \in Seq(S) /\ Len(left) = i - 1
      /\ \A j \in 1 .. i - 1 : left[j] = s[j]
  BY <1>1
<1>4. /\ right \in Seq(S) /\ Len(right) = Len(s) - i
      /\ \A j \in 1 .. Len(s) - i : right[j] = s[i + j]
  BY <1>1
<1> HIDE DEF left, right, w
<1>5. /\ w \in Seq(S) /\ Len(w) = Len(s) - 1
      /\ \A j \in 1 .. Len(s) - 1 : w[j] = IF j < i THEN left[j] ELSE right[j - (i - 1)]
  <2>1. /\ w \in Seq(S) /\ Len(w) = Len(left) + Len(right)
        /\ \A j \in 1 .. Len(left) + Len(right) :
             w[j] = IF j <= Len(left) THEN left[j] ELSE right[j - Len(left)]
    BY <1>2, <1>3, <1>4, ConcatProperties
  <2>2. Len(left) + Len(right) = Len(s) - 1 /\ i \in Int
    BY <1>1, <1>3, <1>4
  <2>3. \A j \in 1 .. Len(s) - 1 : j <= i - 1 <=> j < i
    BY <1>1
  <2> QED BY <2>1, <2>2, <2>3, <1>3
<1>6. \A j \in 1 .. Len(s) - 1 : w[j] = IF j < i THEN s[j] ELSE s[j + 1]
  <2> SUFFICES ASSUME NEW j \in 1 .. Len(s) - 1
               PROVE  w[j] = IF j < i THEN s[j] ELSE s[j + 1]
    OBVIOUS
  <2>1. CASE j < i
    BY <2>1, <1>1, <1>3, <1>5
  <2>2. CASE ~(j < i)
    <3>1. j - (i - 1) \in 1 .. Len(s) - i
      BY <2>2, <1>1
    <3>2. right[j - (i - 1)] = s[i + (j - (i - 1))]
      BY <3>1, <1>4
    <3> QED BY <3>2, <2>2, <1>1, <1>5
  <2> QED BY <2>1, <2>2
<1> QED BY <1>1, <1>5, <1>6 DEF w

\* Unlinking e removes e and nothing else (GDALRasterBlock::Detach).
LEMMA WithoutProperties ==
  ASSUME NEW S, NEW s \in Seq(S), NoDuplicates(s), NEW e
  PROVE  /\ Without(s, e) \in Seq(S)
         /\ Elements(Without(s, e)) = Elements(s) \ {e}
         /\ NoDuplicates(Without(s, e))
         /\ Len(Without(s, e)) = IF e \in Elements(s) THEN Len(s) - 1 ELSE Len(s)
<1>1. CASE e \notin Elements(s)
  BY <1>1 DEF Without
<1>2. CASE e \in Elements(s)
  <2> DEFINE w == Without(s, e)
  <2>1. PICK i \in 1 .. Len(s) :
          /\ s[i] = e
          /\ w \in Seq(S) /\ Len(w) = Len(s) - 1
          /\ \A j \in 1 .. Len(s) - 1 : w[j] = IF j < i THEN s[j] ELSE s[j + 1]
    BY <1>2, WithoutAt
  <2> HIDE DEF w
  <2>2. Elements(w) = Elements(s) \ {e}
    <3>1. ASSUME NEW j \in 1 .. Len(s), j # i
          PROVE  \E k \in 1 .. Len(s) - 1 : w[k] = s[j]
      <4>1. CASE j < i
        <5>1. j \in 1 .. Len(s) - 1 /\ w[j] = s[j]
          BY <4>1, <2>1
        <5> QED BY <5>1
      <4>2. CASE j > i
        <5>1. j - 1 \in 1 .. Len(s) - 1 /\ w[j - 1] = s[(j - 1) + 1]
          BY <4>2, <2>1
        <5>2. (j - 1) + 1 = j
          OBVIOUS
        <5> QED BY <5>1, <5>2
      <4> QED BY <4>1, <4>2, <3>1, <2>1
    <3>2. ASSUME NEW k \in 1 .. Len(s) - 1
          PROVE  \E j \in 1 .. Len(s) : j # i /\ w[k] = s[j]
      <4>1. CASE k < i
        <5>1. k \in 1 .. Len(s) /\ k # i /\ w[k] = s[k]
          BY <4>1, <2>1
        <5> QED BY <5>1
      <4>2. CASE ~(k < i)
        <5>1. k + 1 \in 1 .. Len(s) /\ k + 1 # i /\ w[k] = s[k + 1]
          BY <4>2, <2>1
        <5> QED BY <5>1
      <4> QED BY <4>1, <4>2
    <3>3. \A j \in 1 .. Len(s) : s[j] = e <=> j = i
      BY <2>1 DEF NoDuplicates
    <3>4. Elements(w) = {w[k] : k \in 1 .. Len(s) - 1}
      BY <2>1 DEF Elements
    <3>5. Elements(s) = {s[j] : j \in 1 .. Len(s)}
      BY DEF Elements
    <3>6. ASSUME NEW x \in Elements(w) PROVE x \in Elements(s) \ {e}
      <4>1. PICK k \in 1 .. Len(s) - 1 : x = w[k]
        BY <3>4
      <4>2. PICK j \in 1 .. Len(s) : j # i /\ w[k] = s[j]
        BY <3>2
      <4> QED BY <4>1, <4>2, <3>3, <3>5
    <3>7. ASSUME NEW x \in Elements(s) \ {e} PROVE x \in Elements(w)
      <4>1. PICK j \in 1 .. Len(s) : x = s[j]
        BY <3>5
      <4>2. j # i
        BY <4>1, <3>3
      <4>3. PICK k \in 1 .. Len(s) - 1 : w[k] = s[j]
        BY <4>2, <3>1
      <4> QED BY <4>1, <4>3, <3>4
    <3> QED BY <3>6, <3>7
  <2>3. NoDuplicates(w)
    <3> SUFFICES ASSUME NEW j \in 1 .. Len(s) - 1, NEW k \in 1 .. Len(s) - 1,
                        w[j] = w[k]
                 PROVE  j = k
      BY <2>1 DEF NoDuplicates
    <3>1. \A x, y \in 1 .. Len(s) : s[x] = s[y] => x = y
      BY DEF NoDuplicates
    <3>2. /\ j \in 1 .. Len(s) /\ j + 1 \in 1 .. Len(s)
          /\ k \in 1 .. Len(s) /\ k + 1 \in 1 .. Len(s)
      OBVIOUS
    <3> QED BY <3>1, <3>2, <2>1
  <2> QED BY <1>2, <2>1, <2>2, <2>3 DEF w
<1> QED BY <1>1, <1>2

\* Touching e makes it the newest element and keeps the others
\* (GDALRasterBlock::Touch).
LEMMA MoveToFrontProperties ==
  ASSUME NEW S, NEW s \in Seq(S), NoDuplicates(s), NEW e \in S
  PROVE  /\ MoveToFront(s, e) \in Seq(S)
         /\ Elements(MoveToFront(s, e)) = Elements(s) \cup {e}
         /\ NoDuplicates(MoveToFront(s, e))
         /\ Len(MoveToFront(s, e)) = IF e \in Elements(s) THEN Len(s) ELSE Len(s) + 1
<1> DEFINE w == Without(s, e)
           m == MoveToFront(s, e)
<1>1. /\ w \in Seq(S) /\ Elements(w) = Elements(s) \ {e} /\ NoDuplicates(w)
      /\ Len(w) = IF e \in Elements(s) THEN Len(s) - 1 ELSE Len(s)
  BY WithoutProperties
<1>2. m = <<e>> \o w
  BY DEF MoveToFront
<1> HIDE DEF w
<1>3. /\ m \in Seq(S) /\ Len(m) = Len(w) + 1
      /\ \A j \in 1 .. Len(w) + 1 : m[j] = IF j = 1 THEN e ELSE w[j - 1]
  BY <1>1, <1>2
<1> HIDE DEF m
<1>4. Elements(m) = Elements(w) \cup {e}
  <2>1. Elements(m) = {m[j] : j \in 1 .. Len(w) + 1}
    <3>1. DOMAIN m = 1 .. Len(w) + 1
      BY <1>1, <1>3
    <3> QED BY <3>1 DEF Elements
  <2>2. Elements(w) = {w[j] : j \in 1 .. Len(w)}
    BY <1>1 DEF Elements
  <2>3. ASSUME NEW k \in 1 .. Len(w)
        PROVE  \E j \in 1 .. Len(w) + 1 : m[j] = w[k]
    <3>1. k + 1 \in 1 .. Len(w) + 1 /\ m[k + 1] = w[k]
      BY <1>1, <1>3
    <3> QED BY <3>1
  <2>4. ASSUME NEW j \in 1 .. Len(w) + 1
        PROVE  m[j] = e \/ \E k \in 1 .. Len(w) : m[j] = w[k]
    <3>1. CASE j = 1
      BY <3>1, <1>3
    <3>2. CASE j # 1
      <4>1. j - 1 \in 1 .. Len(w) /\ m[j] = w[j - 1]
        BY <3>2, <1>1, <1>3
      <4> QED BY <4>1
    <3> QED BY <3>1, <3>2
  <2>5. 1 \in 1 .. Len(w) + 1 /\ m[1] = e
    BY <1>1, <1>3
  <2> QED BY <2>1, <2>2, <2>3, <2>4, <2>5
<1>5. NoDuplicates(m)
  <2> SUFFICES ASSUME NEW j \in 1 .. Len(w) + 1, NEW k \in 1 .. Len(w) + 1,
                      m[j] = m[k]
               PROVE  j = k
    BY <1>3 DEF NoDuplicates
  <2>1. \A x \in 1 .. Len(w) : w[x] # e
    BY <1>1, ElementsType
  <2>2. \A x, y \in 1 .. Len(w) : w[x] = w[y] => x = y
    BY <1>1 DEF NoDuplicates
  <2>3. CASE j = 1 /\ k # 1
    <3>1. k - 1 \in 1 .. Len(w)
      BY <2>3, <1>1
    <3> QED BY <3>1, <2>1, <2>3, <1>3
  <2>4. CASE j # 1 /\ k = 1
    <3>1. j - 1 \in 1 .. Len(w)
      BY <2>4, <1>1
    <3> QED BY <3>1, <2>1, <2>4, <1>3
  <2>5. CASE j # 1 /\ k # 1
    <3>1. j - 1 \in 1 .. Len(w) /\ k - 1 \in 1 .. Len(w)
      BY <2>5, <1>1
    <3>2. w[j - 1] = w[k - 1]
      BY <2>5, <1>3
    <3> QED BY <3>1, <3>2, <2>2
  <2> QED BY <2>3, <2>4, <2>5
<1>6. Len(m) = IF e \in Elements(s) THEN Len(s) ELSE Len(s) + 1
  BY <1>1, <1>3
<1> QED BY <1>1, <1>3, <1>4, <1>5, <1>6 DEF m

\* The walk from the oldest end stops at the last position with an element of
\* the set looked for, when there is one.
LEMMA OldestInAt ==
  ASSUME NEW S, NEW s \in Seq(S), NEW T, Elements(s) \cap T # {}
  PROVE  \E i \in 1 .. Len(s) :
           /\ OldestIn(s, T) = s[i] /\ s[i] \in T
           /\ \A j \in 1 .. Len(s) : j > i => s[j] \notin T
<1> DEFINE fromEnd == {n \in Nat : n < Len(s) /\ s[Len(s) - n] \in T}
<1>1. fromEnd # {}
  <2>1. PICK i \in 1 .. Len(s) : s[i] \in T
    BY DEF Elements
  <2>2. Len(s) - i \in Nat /\ Len(s) - i < Len(s) /\ Len(s) - (Len(s) - i) = i
    OBVIOUS
  <2>3. Len(s) - i \in fromEnd
    BY <2>1, <2>2
  <2> QED BY <2>3
<1>2. PICK n \in fromEnd : \A m \in fromEnd : n <= m
  <2>1. fromEnd \subseteq Nat
    OBVIOUS
  <2>2. PICK n \in fromEnd : \A m \in fromEnd : ~ (<<m, n>> \in OpToRel(<, Nat))
    BY <1>1, <2>1, NatLessThanWellFounded, WFMin
  <2>3. \A m \in fromEnd : ~ (m < n)
    BY <2>1, <2>2 DEF OpToRel
  <2> QED BY <2>1, <2>3
<1>3. Len(s) - n \in DOMAIN s /\ s[Len(s) - n] \in T
  OBVIOUS
<1>4. \A j \in DOMAIN s : j > Len(s) - n => s[j] \notin T
  <2> SUFFICES ASSUME NEW j \in 1 .. Len(s), j > Len(s) - n, s[j] \in T
               PROVE  FALSE
    OBVIOUS
  <2>1. Len(s) - j \in Nat /\ Len(s) - j < Len(s) /\ Len(s) - (Len(s) - j) = j
    OBVIOUS
  <2>2. Len(s) - j \in fromEnd
    BY <2>1
  <2> QED BY <2>2, <1>2
<1>5. \E i \in DOMAIN s : s[i] \in T /\ \A j \in DOMAIN s : j > i => s[j] \notin T
  BY <1>3, <1>4
<1> QED BY <1>5 DEF OldestIn

\* It ends on an element of the list that is in the set looked for.
LEMMA OldestInProperties ==
  ASSUME NEW S, NEW s \in Seq(S), NEW T, Elements(s) \cap T # {}
  PROVE  OldestIn(s, T) \in Elements(s) \cap T
BY OldestInAt DEF Elements
----------------------------------------------------------------------------
\* A set of naturals that is not empty has a least element.
LEMMA LeastOf ==
  ASSUME NEW T \in SUBSET Nat, T # {}
  PROVE  \E n \in T : \A m \in T : n <= m
<1>1. IsWellFoundedOn(OpToRel(<, Nat), Nat)
  BY NatLessThanWellFounded
<1>2. PICK n \in T : \A m \in T : ~(<<m, n>> \in OpToRel(<, Nat))
  BY <1>1, WFMin
<1>3. \A m \in T : ~(m < n)
  BY <1>2 DEF OpToRel
<1> QED BY <1>3

\* The element that FoldFunction adds first.
Chosen(s) == CHOOSE x \in s : TRUE
\* g[s] is the sum of f over s, for each subset s of S.
Sums(g, f, S) ==
  g = [s \in SUBSET S |-> IF s = {} THEN 0 ELSE f[Chosen(s)] + g[s \ {Chosen(s)}]]

\* The fold that SumFunction stands for is well defined on finite functions.
LEMMA SumsExist ==
  ASSUME NEW f, NEW S, IsFiniteSet(S)
  PROVE  \E g : Sums(g, f, S)
<1> DEFINE Upto(g, n) ==
      \A s \in SUBSET S : Cardinality(s) <= n =>
        g[s] = IF s = {} THEN 0 ELSE f[Chosen(s)] + g[s \ {Chosen(s)}]
<1> DEFINE T == {n \in Nat : ~(\E g : Upto(g, n))}
<1>1. ASSUME NEW s \in SUBSET S
      PROVE  /\ IsFiniteSet(s) /\ Cardinality(s) \in Nat /\ Cardinality(s) <= Cardinality(S)
             /\ Cardinality(s) = 0 <=> s = {}
             /\ s # {} => /\ Chosen(s) \in s /\ s \ {Chosen(s)} \in SUBSET S
                          /\ Cardinality(s \ {Chosen(s)}) = Cardinality(s) - 1
  <2>1. IsFiniteSet(s) /\ Cardinality(s) \in Nat /\ Cardinality(s) <= Cardinality(S)
    BY FS_Subset, FS_CardinalityType
  <2>2. Cardinality(s) = 0 <=> s = {}
    BY <2>1, FS_EmptySet
  <2>3. s # {} => Chosen(s) \in s
    BY DEF Chosen
  <2> QED BY <2>1, <2>2, <2>3, FS_RemoveElement
<1>2. T = {}
  <2> SUFFICES ASSUME T # {} PROVE FALSE
    OBVIOUS
  <2>0. T \in SUBSET Nat
    OBVIOUS
  <2>1. PICK n \in Nat : n \in T /\ \A m \in T : n <= m
    <3> HIDE DEF T
    <3> QED BY <2>0, LeastOf
  <2>2. ~(\E g : Upto(g, n)) /\ \A m \in Nat : m < n => \E g : Upto(g, m)
    <3>1. \A m \in Nat : m < n => m \notin T
      <4> HIDE DEF T
      <4> QED BY <2>1
    <3> QED BY <2>1, <3>1
  <2> HIDE DEF T
  <2>3. CASE n = 0
    <3> DEFINE z == [s \in SUBSET S |-> 0]
    <3>1. ASSUME NEW s \in SUBSET S, Cardinality(s) <= 0 PROVE z[s] = 0 /\ s = {}
      <4>1. Cardinality(s) = 0
        <5> HIDE DEF z, Upto
        <5>1. PICK c \in Nat : c = Cardinality(s)
          BY <1>1
        <5> QED BY <3>1, <5>1
      <4>2. s = {}
        <5> HIDE DEF z
        <5> QED BY <1>1, <4>1
      <4> QED BY <4>2
    <3>2. Upto(z, 0)
      BY <3>1
    <3> QED BY <2>2, <2>3, <3>2
  <2>4. CASE n # 0
    <3>1. n - 1 \in Nat /\ n - 1 < n
      BY <2>4
    <3>2. PICK g : Upto(g, n - 1)
      BY <2>2, <3>1
    <3> DEFINE h == [s \in SUBSET S |-> IF Cardinality(s) < n THEN g[s]
                                       ELSE f[Chosen(s)] + g[s \ {Chosen(s)}]]
    <3>3. ASSUME NEW s \in SUBSET S, Cardinality(s) <= n
          PROVE  h[s] = IF s = {} THEN 0 ELSE f[Chosen(s)] + h[s \ {Chosen(s)}]
      <4>1. CASE s = {}
        <5>1. Cardinality(s) < n /\ Cardinality(s) <= n - 1
          <6> HIDE DEF h, Upto
          <6>1. Cardinality(s) = 0
            BY <1>1, <4>1
          <6> QED BY <2>4, <6>1
        <5>2. h[s] = g[s]
          BY <5>1
        <5> QED BY <3>2, <4>1, <5>1, <5>2
      <4>2. CASE s # {}
        <5>1. s \ {Chosen(s)} \in SUBSET S /\ Cardinality(s \ {Chosen(s)}) < n
          BY <1>1, <3>3, <4>2
        <5>2. h[s \ {Chosen(s)}] = g[s \ {Chosen(s)}]
          BY <5>1
        <5>3. CASE Cardinality(s) < n
          <6>1. Cardinality(s) <= n - 1
            <7> HIDE DEF h, Upto
            <7>1. Cardinality(s) \in Nat
              BY <1>1
            <7> QED BY <5>3, <7>1
          <6>2. h[s] = g[s]
            BY <5>3
          <6> QED BY <3>2, <4>2, <5>2, <6>1, <6>2
        <5>4. CASE ~(Cardinality(s) < n)
          BY <4>2, <5>2, <5>4
        <5> QED BY <5>3, <5>4
      <4> QED BY <4>1, <4>2
    <3>4. Upto(h, n)
      BY <3>3
    <3> QED BY <2>2, <3>4
  <2> QED BY <2>3, <2>4
<1>3. Cardinality(S) \in Nat
  BY <1>1
<1>4. PICK g : Upto(g, Cardinality(S))
  BY <1>2, <1>3
<1> DEFINE h == [s \in SUBSET S |-> g[s]]
<1>5. ASSUME NEW s \in SUBSET S
      PROVE  h[s] = IF s = {} THEN 0 ELSE f[Chosen(s)] + h[s \ {Chosen(s)}]
  BY <1>1, <1>4
<1>6. h = [s \in SUBSET S |-> h[s]]
  OBVIOUS
<1> HIDE DEF h
<1>7. Sums(h, f, S)
  BY <1>5, <1>6 DEF Sums
<1> QED BY <1>7

\* SumFunction is one of these sums.
LEMMA TotalIs ==
  ASSUME NEW f, IsFiniteSet(DOMAIN f)
  PROVE  \E g : SumFunction(f) = g[DOMAIN f] /\ Sums(g, f, DOMAIN f)
<1> DEFINE S == DOMAIN f
<1> DEFINE it == CHOOSE g : g = [s \in SUBSET S |->
                   IF s = {} THEN 0 ELSE f[CHOOSE x \in s : TRUE] + g[s \ {CHOOSE x \in s : TRUE}]]
<1>1. SumFunction(f) = it[S]
  BY DEF SumFunction, SumFunctionOnSet, FoldFunctionOnSet, MapThenFoldSet
<1>2. PICK g : Sums(g, f, S)
  <2>1. IsFiniteSet(S)
    OBVIOUS
  <2> HIDE DEF it, S
  <2> QED BY <2>1, SumsExist
<1>3. g = [s \in SUBSET S |-> IF s = {} THEN 0 ELSE f[CHOOSE x \in s : TRUE] + g[s \ {CHOOSE x \in s : TRUE}]]
  BY <1>2 DEF Sums, Chosen
<1>4. it = [s \in SUBSET S |-> IF s = {} THEN 0 ELSE f[CHOOSE x \in s : TRUE] + it[s \ {CHOOSE x \in s : TRUE}]]
  BY <1>3
<1> HIDE DEF it
<1>5. Sums(it, f, S)
  BY <1>4 DEF Sums, Chosen
<1> QED BY <1>1, <1>5

\* What a subset of a finite set loses with an element.
LEMMA OneLess ==
  ASSUME NEW S, IsFiniteSet(S), NEW s \in SUBSET S
  PROVE  /\ IsFiniteSet(s) /\ Cardinality(s) \in Nat
         /\ \A x \in s : /\ s \ {x} \in SUBSET S
                         /\ Cardinality(s \ {x}) < Cardinality(s)
         /\ s # {} => Chosen(s) \in s
<1>1. IsFiniteSet(s) /\ Cardinality(s) \in Nat
  BY FS_Subset, FS_CardinalityType
<1>2. ASSUME NEW x \in s PROVE Cardinality(s \ {x}) < Cardinality(s)
  <2>1. Cardinality(s \ {x}) = Cardinality(s) - 1
    BY <1>1, FS_RemoveElement
  <2> QED BY <1>1, <2>1
<1>3. s # {} => Chosen(s) \in s
  BY DEF Chosen
<1> QED BY <1>1, <1>2, <1>3

\* A property of the subsets of a finite set that does not hold for all of them
\* fails for one all of whose proper subsets have it.
LEMMA SmallestBad ==
  ASSUME NEW S, IsFiniteSet(S), NEW Bad \in SUBSET SUBSET S, Bad # {}
  PROVE  \E s \in Bad : \A x \in s : s \ {x} \notin Bad
<1> DEFINE T == {Cardinality(s) : s \in Bad}
<1>1. T \in SUBSET Nat /\ T # {}
  BY OneLess
<1>2. PICK n \in T : \A m \in T : n <= m
  <2> HIDE DEF T
  <2> QED BY <1>1, LeastOf
<1>3. PICK s \in Bad : n = Cardinality(s)
  BY <1>2
<1>4. \A r \in Bad : Cardinality(s) <= Cardinality(r)
  BY <1>2, <1>3
<1> HIDE DEF T
<1>5. ASSUME NEW x \in s, s \ {x} \in Bad PROVE FALSE
  <2>1. Cardinality(s) <= Cardinality(s \ {x})
    BY <1>4, <1>5
  <2>2. Cardinality(s \ {x}) < Cardinality(s) /\ Cardinality(s) \in Nat
    BY OneLess
  <2>3. Cardinality(s \ {x}) \in Nat
    BY <1>5, OneLess
  <2> QED BY <2>1, <2>2, <2>3
<1> QED BY <1>5

\* Any element may be added last.
LEMMA SumsAny ==
  ASSUME NEW f, NEW S, IsFiniteSet(S), \A x \in S : f[x] \in Int, NEW g, Sums(g, f, S)
  PROVE  /\ g[{}] = 0
         /\ \A s \in SUBSET S : g[s] \in Int /\ \A x \in s : g[s] = f[x] + g[s \ {x}]
<1>1. ASSUME NEW s \in SUBSET S
      PROVE  g[s] = IF s = {} THEN 0 ELSE f[Chosen(s)] + g[s \ {Chosen(s)}]
  BY DEF Sums
<1>2. g[{}] = 0
  BY <1>1
<1>3. \A s \in SUBSET S : g[s] \in Int
  <2> DEFINE Bad == {s \in SUBSET S : g[s] \notin Int}
  <2> SUFFICES ASSUME Bad # {} PROVE FALSE
    OBVIOUS
  <2>0. Bad \in SUBSET SUBSET S
    OBVIOUS
  <2>1. PICK s \in Bad : \A x \in s : s \ {x} \notin Bad
    <3> HIDE DEF Bad
    <3>1. Bad # {}
      OBVIOUS
    <3> QED BY ONLY IsFiniteSet(S), <2>0, <3>1, SmallestBad
  <2>2. s \in SUBSET S /\ g[s] \notin Int /\ \A x \in s : g[s \ {x}] \in Int
    BY <2>1
  <2> HIDE DEF Bad
  <2>3. s # {}
    BY <1>2, <2>2
  <2>4. PICK y \in s : y = Chosen(s)
    BY <2>2, <2>3, OneLess
  <2>5. g[s] = f[y] + g[s \ {y}]
    BY <1>1, <2>2, <2>3, <2>4
  <2>6. f[y] \in Int /\ g[s \ {y}] \in Int
    BY <2>2
  <2> QED BY <2>2, <2>5, <2>6
<1>4. \A s \in SUBSET S : \A x \in s : g[s] = f[x] + g[s \ {x}]
  <2> DEFINE Bad == {s \in SUBSET S : ~(\A x \in s : g[s] = f[x] + g[s \ {x}])}
  <2> SUFFICES ASSUME Bad # {} PROVE FALSE
    OBVIOUS
  <2>0. Bad \in SUBSET SUBSET S
    OBVIOUS
  <2>1. PICK s \in Bad : \A x \in s : s \ {x} \notin Bad
    <3> HIDE DEF Bad
    <3>1. Bad # {}
      OBVIOUS
    <3> QED BY ONLY IsFiniteSet(S), <2>0, <3>1, SmallestBad
  <2>2. /\ s \in SUBSET S /\ ~(\A x \in s : g[s] = f[x] + g[s \ {x}])
        /\ \A x \in s : \A z \in s \ {x} : g[s \ {x}] = f[z] + g[(s \ {x}) \ {z}]
    BY <2>1
  <2> HIDE DEF Bad
  <2>3. PICK x \in s : g[s] # f[x] + g[s \ {x}]
    BY <2>2
  <2>4. PICK y \in s : y = Chosen(s)
    BY <2>2, <2>3, OneLess
  <2>5. g[s] = f[y] + g[s \ {y}] /\ x # y
    BY <1>1, <2>2, <2>3, <2>4
  <2>6. g[s \ {y}] = f[x] + g[(s \ {y}) \ {x}] /\ g[s \ {x}] = f[y] + g[(s \ {x}) \ {y}]
    BY <2>2, <2>5
  <2>7. (s \ {y}) \ {x} = (s \ {x}) \ {y} /\ (s \ {x}) \ {y} \in SUBSET S
    BY <2>2
  <2>8. PICK a \in Int, b \in Int, e \in Int : a = f[x] /\ b = f[y] /\ e = g[(s \ {x}) \ {y}]
    BY <1>3, <2>2, <2>7
  <2>9. g[s] = b + (a + e) /\ g[s \ {x}] = b + e
    BY <2>5, <2>6, <2>7, <2>8
  <2> QED BY <2>3, <2>8, <2>9
<1> QED BY <1>2, <1>3, <1>4

\* A sum over a set does not depend on the function or the set it is a part of.
LEMMA SumsAgree ==
  ASSUME NEW e, NEW f, NEW S, NEW T, IsFiniteSet(S), IsFiniteSet(T),
         NEW g, NEW h, Sums(g, e, S), Sums(h, f, T),
         NEW s \in SUBSET S, s \in SUBSET T, \A x \in s : e[x] = f[x]
  PROVE  g[s] = h[s]
<1>1. \A r \in SUBSET S : g[r] = IF r = {} THEN 0 ELSE e[Chosen(r)] + g[r \ {Chosen(r)}]
  BY DEF Sums
<1>2. \A r \in SUBSET T : h[r] = IF r = {} THEN 0 ELSE f[Chosen(r)] + h[r \ {Chosen(r)}]
  BY DEF Sums
<1> DEFINE Bad == {r \in SUBSET s : g[r] # h[r]}
<1>3. Bad = {}
  <2> SUFFICES ASSUME Bad # {} PROVE FALSE
    OBVIOUS
  <2>0. Bad \in SUBSET SUBSET s /\ IsFiniteSet(s)
    BY FS_Subset
  <2>1. PICK r \in Bad : \A x \in r : r \ {x} \notin Bad
    <3> HIDE DEF Bad
    <3> QED BY <2>0, SmallestBad
  <2>2. r \in SUBSET s /\ g[r] # h[r] /\ \A x \in r : g[r \ {x}] = h[r \ {x}]
    BY <2>1
  <2> HIDE DEF Bad
  <2>3. r # {}
    BY <1>1, <1>2, <2>2
  <2>4. PICK y \in r : y = Chosen(r)
    BY <2>0, <2>2, <2>3, OneLess
  <2>5. g[r] = e[y] + g[r \ {y}]
    BY <1>1, <2>2, <2>3, <2>4
  <2>6. h[r] = f[y] + h[r \ {y}]
    BY <1>2, <2>2, <2>3, <2>4
  <2>7. e[y] = f[y]
    BY <2>2
  <2> QED BY <2>2, <2>5, <2>6, <2>7
<1> QED BY <1>3

\* The sum of no numbers.
LEMMA TotalOfNone == ASSUME NEW f, DOMAIN f = {} PROVE SumFunction(f) = 0
<1>1. PICK g : SumFunction(f) = g[DOMAIN f] /\ Sums(g, f, DOMAIN f)
  BY FS_EmptySet, TotalIs
<1> QED BY <1>1 DEF Sums

\* The sum of finitely many numbers is that of one of them and of the others.
LEMMA TotalWith ==
  ASSUME NEW f, IsFiniteSet(DOMAIN f), \A y \in DOMAIN f : f[y] \in Int, NEW x \in DOMAIN f,
         NEW e, DOMAIN e = (DOMAIN f) \ {x}, \A y \in DOMAIN e : e[y] = f[y]
  PROVE  SumFunction(f) = f[x] + SumFunction(e) /\ SumFunction(e) \in Int
<1>0. PICK S : S = DOMAIN f
  OBVIOUS
<1>1. IsFiniteSet(S \ {x})
  BY <1>0, FS_Subset
<1>2. PICK g : SumFunction(f) = g[S] /\ Sums(g, f, S)
  BY <1>0, TotalIs
<1>3. PICK h : SumFunction(e) = h[S \ {x}] /\ Sums(h, e, S \ {x})
  BY <1>0, <1>1, TotalIs
<1>4. g[S] = f[x] + g[S \ {x}] /\ g[S] \in Int /\ g[S \ {x}] \in Int
  <2>1. IsFiniteSet(S) /\ x \in S /\ \A y \in S : f[y] \in Int
    BY <1>0
  <2>2. \A s \in SUBSET S : g[s] \in Int /\ \A y \in s : g[s] = f[y] + g[s \ {y}]
    BY <1>2, <2>1, SumsAny
  <2> QED BY <2>1, <2>2
<1>5. g[S \ {x}] = h[S \ {x}]
  BY <1>0, <1>1, <1>2, <1>3, SumsAgree
<1> QED BY <1>0, <1>2, <1>3, <1>4, <1>5

\* A sum is a number.
LEMMA TotalIsInt ==
  ASSUME NEW S, IsFiniteSet(S), NEW f, DOMAIN f = S, \A y \in S : f[y] \in Int
  PROVE  SumFunction(f) \in Int
<1>1. PICK g : SumFunction(f) = g[S] /\ Sums(g, f, S)
  BY TotalIs
<1> QED BY <1>1, SumsAny

\* Only the values count.
LEMMA TotalSame ==
  ASSUME NEW S, IsFiniteSet(S), NEW f, NEW e, DOMAIN f = S, DOMAIN e = S,
         \A y \in S : e[y] = f[y]
  PROVE  SumFunction(e) = SumFunction(f)
<1>1. PICK g : SumFunction(f) = g[S] /\ Sums(g, f, S)
  BY TotalIs
<1>2. PICK h : SumFunction(e) = h[S] /\ Sums(h, e, S)
  BY TotalIs
<1> QED BY <1>1, <1>2, SumsAgree

\* One of the numbers changes.
LEMMA TotalChanged ==
  ASSUME NEW S, IsFiniteSet(S), NEW x \in S, NEW f, NEW e, DOMAIN f = S, DOMAIN e = S,
         \A y \in S : f[y] \in Int, e[x] \in Int, \A y \in S \ {x} : e[y] = f[y]
  PROVE  SumFunction(e) = SumFunction(f) + e[x] - f[x] /\ SumFunction(e) \in Int /\ SumFunction(f) \in Int
<1> DEFINE r == [y \in S \ {x} |-> f[y]]
<1>1. DOMAIN r = S \ {x} /\ \A y \in S \ {x} : r[y] = f[y] /\ r[y] = e[y]
  OBVIOUS
<1>2. \A y \in S : e[y] \in Int
  OBVIOUS
<1> HIDE DEF r
<1>3. SumFunction(f) = f[x] + SumFunction(r) /\ SumFunction(r) \in Int
  BY <1>1, TotalWith
<1>4. SumFunction(e) = e[x] + SumFunction(r)
  BY <1>1, <1>2, TotalWith
<1>5. f[x] \in Int
  OBVIOUS
<1> QED BY <1>3, <1>4, <1>5

\* A sum of naturals is at least each of them, and zero when all are.
LEMMA TotalOfNat ==
  ASSUME NEW S, IsFiniteSet(S), NEW f, DOMAIN f = S, \A y \in S : f[y] \in Nat
  PROVE  /\ SumFunction(f) \in Nat
         /\ \A x \in S : f[x] <= SumFunction(f)
         /\ (\A x \in S : f[x] = 0) => SumFunction(f) = 0
<1>1. PICK g : SumFunction(f) = g[S] /\ Sums(g, f, S)
  BY TotalIs
<1>2. /\ g[{}] = 0
      /\ \A s \in SUBSET S : g[s] \in Int /\ \A x \in s : g[s] = f[x] + g[s \ {x}]
  BY <1>1, SumsAny
<1>3. \A s \in SUBSET S : g[s] >= 0
  <2> DEFINE Bad == {s \in SUBSET S : ~(g[s] >= 0)}
  <2> SUFFICES ASSUME Bad # {} PROVE FALSE
    OBVIOUS
  <2>0. Bad \in SUBSET SUBSET S
    OBVIOUS
  <2>1. PICK s \in Bad : \A x \in s : s \ {x} \notin Bad
    <3> HIDE DEF Bad
    <3>1. Bad # {}
      OBVIOUS
    <3> QED BY ONLY IsFiniteSet(S), <2>0, <3>1, SmallestBad
  <2>2. s \in SUBSET S /\ ~(g[s] >= 0) /\ \A x \in s : g[s \ {x}] >= 0
    BY <2>1
  <2> HIDE DEF Bad
  <2>3. s # {}
    <3> SUFFICES ASSUME s = {} PROVE FALSE
      OBVIOUS
    <3>1. g[s] = 0
      BY <1>2
    <3> QED BY <2>2, <3>1
  <2>4. PICK x \in s : TRUE
    BY <2>3
  <2>5. g[s] = f[x] + g[s \ {x}] /\ g[s \ {x}] \in Int /\ f[x] \in Nat
    BY <1>2, <2>2, <2>4
  <2> QED BY <2>2, <2>5
<1>4. ASSUME NEW x \in S PROVE f[x] <= g[S]
  <2>1. g[S] = f[x] + g[S \ {x}] /\ g[S \ {x}] >= 0 /\ g[S \ {x}] \in Int /\ f[x] \in Nat
    BY <1>2, <1>3
  <2> QED BY <2>1
<1>5. ASSUME \A x \in S : f[x] = 0 PROVE g[S] = 0
  <2> DEFINE Bad == {s \in SUBSET S : g[s] # 0}
  <2> SUFFICES ASSUME Bad # {} PROVE FALSE
    OBVIOUS
  <2>0. Bad \in SUBSET SUBSET S
    OBVIOUS
  <2>1. PICK s \in Bad : \A x \in s : s \ {x} \notin Bad
    <3> HIDE DEF Bad
    <3>1. Bad # {}
      OBVIOUS
    <3> QED BY ONLY IsFiniteSet(S), <2>0, <3>1, SmallestBad
  <2>2. s \in SUBSET S /\ g[s] # 0 /\ \A x \in s : g[s \ {x}] = 0
    BY <2>1
  <2> HIDE DEF Bad
  <2>3. PICK x \in s : TRUE
    BY <1>2, <2>2
  <2>4. g[s] = f[x] + g[s \ {x}] /\ f[x] = 0
    BY <1>2, <1>5, <2>2, <2>3
  <2> QED BY <2>2, <2>4
<1>6. g[S] \in Nat
  BY <1>2, <1>3
<1> QED BY <1>1, <1>4, <1>5, <1>6

\* A sum of naturals grows with the set.
LEMMA SumsGrow ==
  ASSUME NEW T, IsFiniteSet(T), NEW e, \A y \in T : e[y] \in Nat, NEW h, Sums(h, e, T),
         NEW U \in SUBSET T
  PROVE  h[U] <= h[T]
<1>1. \A s \in SUBSET T : h[s] \in Int /\ \A x \in s : h[s] = e[x] + h[s \ {x}]
  BY SumsAny
<1> DEFINE Bad == {V \in SUBSET (T \ U) : ~(h[U] <= h[U \cup V])}
<1>2. Bad = {}
  <2> SUFFICES ASSUME Bad # {} PROVE FALSE
    OBVIOUS
  <2>0. Bad \in SUBSET SUBSET (T \ U) /\ IsFiniteSet(T \ U)
    BY FS_Subset
  <2>1. PICK V \in Bad : \A x \in V : V \ {x} \notin Bad
    <3> HIDE DEF Bad
    <3> QED BY <2>0, SmallestBad
  <2>2. /\ V \in SUBSET (T \ U) /\ ~(h[U] <= h[U \cup V])
        /\ \A x \in V : h[U] <= h[U \cup (V \ {x})]
    BY <2>1
  <2> HIDE DEF Bad
  <2>3. V # {}
    <3> SUFFICES ASSUME V = {} PROVE FALSE
      OBVIOUS
    <3>1. U \cup V = U /\ h[U] \in Int
      BY <1>1
    <3> QED BY <2>2, <3>1
  <2>4. PICK x \in V : TRUE
    BY <2>3
  <2>5. (U \cup V) \ {x} = U \cup (V \ {x}) /\ U \cup V \in SUBSET T /\ x \in U \cup V
    BY <2>2
  <2>6. h[U \cup V] = e[x] + h[U \cup (V \ {x})]
    BY <1>1, <2>5
  <2>7. h[U \cup (V \ {x})] \in Int /\ e[x] \in Nat /\ h[U] \in Int
    BY <1>1, <2>2
  <2>8. h[U] <= h[U \cup (V \ {x})]
    BY <2>2
  <2> QED BY <2>2, <2>6, <2>7, <2>8
<1>3. h[U] <= h[U \cup (T \ U)]
  BY <1>2
<1>4. U \cup (T \ U) = T
  OBVIOUS
<1> QED BY <1>3, <1>4

\* Numbers that different members of T are large enough for.
LEMMA TotalWithin ==
  ASSUME NEW f, IsFiniteSet(DOMAIN f), \A x \in DOMAIN f : f[x] \in Nat,
         NEW e, IsFiniteSet(DOMAIN e), \A y \in DOMAIN e : e[y] \in Nat,
         NEW m \in [DOMAIN f -> DOMAIN e], \A x, z \in DOMAIN f : m[x] = m[z] => x = z,
         \A x \in DOMAIN f : f[x] <= e[m[x]]
  PROVE  SumFunction(f) <= SumFunction(e)
<1>a. PICK S, T : S = DOMAIN f /\ T = DOMAIN e
  OBVIOUS
<1>b. /\ IsFiniteSet(S) /\ \A x \in S : f[x] \in Nat
      /\ IsFiniteSet(T) /\ \A y \in T : e[y] \in Nat
      /\ m \in [S -> T] /\ \A x, z \in S : m[x] = m[z] => x = z
      /\ \A x \in S : f[x] <= e[m[x]]
  BY <1>a
<1> USE <1>b
<1>1. PICK g : SumFunction(f) = g[S] /\ Sums(g, f, S)
  BY <1>a, TotalIs
<1>2. PICK h : SumFunction(e) = h[T] /\ Sums(h, e, T)
  BY <1>a, TotalIs
<1>3. /\ g[{}] = 0
      /\ \A s \in SUBSET S : g[s] \in Int /\ \A x \in s : g[s] = f[x] + g[s \ {x}]
  <2>1. \A x \in S : f[x] \in Int
    OBVIOUS
  <2>2. IsFiniteSet(S) /\ Sums(g, f, S)
    BY <1>1
  <2> HIDE <1>b
  <2> QED BY <2>1, <2>2, SumsAny
<1>4. /\ h[{}] = 0
      /\ \A s \in SUBSET T : h[s] \in Int /\ \A x \in s : h[s] = e[x] + h[s \ {x}]
  <2>1. \A y \in T : e[y] \in Int
    OBVIOUS
  <2>2. IsFiniteSet(T) /\ Sums(h, e, T)
    BY <1>2
  <2> HIDE <1>b
  <2> QED BY <2>1, <2>2, SumsAny
<1> DEFINE Image(s) == {m[x] : x \in s}
<1> DEFINE Bad == {s \in SUBSET S : ~(g[s] <= h[Image(s)])}
<1>5. Bad = {}
  <2> SUFFICES ASSUME Bad # {} PROVE FALSE
    OBVIOUS
  <2>0. Bad \in SUBSET SUBSET S
    OBVIOUS
  <2>1. PICK s \in Bad : \A x \in s : s \ {x} \notin Bad
    <3> HIDE DEF Bad
    <3>1. Bad # {}
      OBVIOUS
    <3> QED BY ONLY IsFiniteSet(S), <2>0, <3>1, SmallestBad
  <2>2. /\ s \in SUBSET S /\ ~(g[s] <= h[Image(s)])
        /\ \A x \in s : g[s \ {x}] <= h[Image(s \ {x})]
    BY <2>1
  <2> HIDE DEF Bad
  <2>3. s # {}
    <3> SUFFICES ASSUME s = {} PROVE FALSE
      OBVIOUS
    <3>1. Image(s) = {}
      OBVIOUS
    <3>2. g[s] = 0 /\ h[Image(s)] = 0
      BY <1>3, <1>4, <3>1
    <3> QED BY <2>2, <3>2
  <2>4. PICK x \in s : TRUE
    BY <2>3
  <2>5. Image(s) \in SUBSET T /\ m[x] \in Image(s) /\ Image(s) \ {m[x]} = Image(s \ {x})
    BY <2>2
  <2>6. Image(s \ {x}) \in SUBSET T
    BY <2>2
  <2> HIDE DEF Image
  <2>7. h[Image(s)] = e[m[x]] + h[Image(s \ {x})] /\ h[Image(s \ {x})] \in Int
    <3>1. h[Image(s)] = e[m[x]] + h[Image(s) \ {m[x]}]
      BY <1>4, <2>5
    <3> QED BY <1>4, <2>5, <2>6, <3>1
  <2>8. g[s] = f[x] + g[s \ {x}] /\ g[s \ {x}] \in Int
    BY <1>3, <2>2
  <2>9. f[x] \in Nat /\ e[m[x]] \in Nat /\ f[x] <= e[m[x]] /\ g[s \ {x}] <= h[Image(s \ {x})]
    BY <2>2
  <2> QED BY <2>2, <2>7, <2>8, <2>9
<1>6. g[S] <= h[Image(S)]
  BY <1>5
<1>7. Image(S) \in SUBSET T
  OBVIOUS
<1> HIDE DEF Image
<1>8. h[Image(S)] <= h[T]
  BY <1>2, <1>7, SumsGrow
<1>9. g[S] \in Int /\ h[Image(S)] \in Int /\ h[T] \in Int
  BY <1>3, <1>4, <1>7
<1> QED BY <1>1, <1>2, <1>6, <1>8, <1>9
=============================================================================
