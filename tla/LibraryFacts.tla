-------------------------- MODULE LibraryFacts ------------------------------
(***************************************************************************)
(* What operators of the community modules return, what they do to         *)
(* sequences that are kept in order, and what a recursive function does    *)
(* step by step.                                                           *)
(***************************************************************************)
EXTENDS Integers, SequencesExt, FiniteSetTheorems, SequenceTheorems, TLAPS

\* A nonempty set of naturals has a least element, and Min chooses it.  The
\* intervals 0..x are ordered by strict inclusion, which is well-founded.
LEMMA LeastElement ==
  ASSUME NEW S \in SUBSET Nat, S # {}
  PROVE  Min(S) \in S /\ \A y \in S : Min(S) <= y
<1> DEFINE below == {0 .. x : x \in S}
<1>1. \A x \in S : 0 .. x \subseteq Nat /\ IsFiniteSet(0 .. x)
  BY FS_Interval
<1>2. below \subseteq FiniteSubsetsOf(Nat) /\ below # {}
  BY <1>1 DEF FiniteSubsetsOf
<1>3. PICK b \in below : \A c \in below : ~(<<c, b>> \in StrictSubsetOrdering(Nat))
  BY <1>2, FS_StrictSubsetOrderingWellFounded, WFMin
<1>4. PICK x \in S : b = 0 .. x
  OBVIOUS
<1>5. \A y \in S : x <= y
  <2> SUFFICES ASSUME NEW y \in S, y < x PROVE FALSE
    OBVIOUS
  <2>1. 0 .. y \in below /\ 0 .. y \subseteq Nat /\ b \subseteq Nat
    BY <1>4
  <2>2. 0 .. y \subseteq b /\ 0 .. y # b
    BY <1>4
  <2> QED
    BY <1>3, <2>1, <2>2 DEF StrictSubsetOrdering
<1> QED
  BY <1>5 DEF Min

\* A nonempty bounded set of naturals has a greatest element, chosen by Max.
LEMMA GreatestElement ==
  ASSUME NEW S \in SUBSET Nat, S # {}, NEW n \in Nat, \A x \in S : x <= n
  PROVE  Max(S) \in S /\ \A y \in S : y <= Max(S)
<1> DEFINE R == {n - x : x \in S}
<1>1. \A x \in S : n - x \in Nat
  OBVIOUS
<1>2. R \in SUBSET Nat /\ R # {}
  BY <1>1
<1>3. Min(R) \in R /\ \A y \in R : Min(R) <= y
  BY <1>2, LeastElement
<1>4. PICK x \in S : Min(R) = n - x
  BY <1>3
<1>5. \A y \in S : y <= x
  <2> TAKE y \in S
  <2>1. n - y \in R
    OBVIOUS
  <2>2. Min(R) <= n - y
    BY <2>1, <1>3
  <2>3. n - x <= n - y
    BY <2>2, <1>4
  <2> HIDE DEF R
  <2> QED
    BY <2>3
<1> QED
  BY <1>5 DEF Max

\* Taking position i out of a sequence.
LEMMA RemoveAtProperties ==
  ASSUME NEW S, NEW q \in Seq(S), NEW i \in 1 .. Len(q)
  PROVE  /\ RemoveAt(q, i) \in Seq(S)
         /\ Len(RemoveAt(q, i)) = Len(q) - 1
         /\ \A j \in 1 .. Len(q) - 1 :
              RemoveAt(q, i)[j] = IF j < i THEN q[j] ELSE q[j + 1]
<1> DEFINE a == SubSeq(q, 1, i - 1)
           b == SubSeq(q, i + 1, Len(q))
<1>1. \A j \in 1 .. i - 1 : q[j] \in S
  OBVIOUS
<1>2. \A j \in i + 1 .. Len(q) : q[j] \in S
  OBVIOUS
<1>3. a \in Seq(S) /\ Len(a) = i - 1 /\ \A j \in 1 .. i - 1 : a[j] = q[j]
  BY <1>1, SubSeqProperties
<1>4. b \in Seq(S) /\ Len(b) = Len(q) - i /\ \A j \in 1 .. Len(q) - i : b[j] = q[i + j]
  BY <1>2, SubSeqProperties
<1>5. RemoveAt(q, i) = a \o b
  BY DEF RemoveAt
<1> HIDE DEF a, b
<1>6. /\ a \o b \in Seq(S) /\ Len(a \o b) = Len(a) + Len(b)
      /\ \A j \in 1 .. Len(a) + Len(b) :
           (a \o b)[j] = IF j <= Len(a) THEN a[j] ELSE b[j - Len(a)]
  BY <1>3, <1>4, ConcatProperties
<1>7. Len(a) + Len(b) = Len(q) - 1
  BY <1>3, <1>4
<1>8. ASSUME NEW j \in 1 .. Len(q) - 1
      PROVE  (a \o b)[j] = IF j < i THEN q[j] ELSE q[j + 1]
  <2>1. CASE j < i
    BY <2>1, <1>3, <1>6, <1>7
  <2>2. CASE ~(j < i)
    <3>1. (a \o b)[j] = b[j - (i - 1)]
      BY <2>2, <1>3, <1>6, <1>7
    <3>2. j - (i - 1) \in 1 .. Len(q) - i /\ i + (j - (i - 1)) = j + 1
      BY <2>2
    <3> QED
      BY <3>1, <3>2, <1>4, <2>2
  <2> QED
    BY <2>1, <2>2
<1> QED
  BY <1>5, <1>6, <1>7, <1>8

\* Putting an element at position i of a sequence.
LEMMA InsertAtProperties ==
  ASSUME NEW S, NEW q \in Seq(S), NEW i \in 1 .. Len(q) + 1, NEW e \in S
  PROVE  /\ InsertAt(q, i, e) \in Seq(S)
         /\ Len(InsertAt(q, i, e)) = Len(q) + 1
         /\ \A j \in 1 .. Len(q) + 1 :
              InsertAt(q, i, e)[j] = IF j < i THEN q[j] ELSE IF j = i THEN e ELSE q[j - 1]
<1> DEFINE a == SubSeq(q, 1, i - 1)
           b == SubSeq(q, i, Len(q))
           c == a \o <<e>>
<1>1. \A j \in 1 .. i - 1 : q[j] \in S
  OBVIOUS
<1>2. \A j \in i .. Len(q) : q[j] \in S
  OBVIOUS
<1>3. a \in Seq(S) /\ Len(a) = i - 1 /\ \A j \in 1 .. i - 1 : a[j] = q[j]
  BY <1>1, SubSeqProperties
<1>4. b \in Seq(S) /\ Len(b) = Len(q) - i + 1
      /\ \A j \in 1 .. Len(q) - i + 1 : b[j] = q[i + j - 1]
  BY <1>2, SubSeqProperties
<1>5. InsertAt(q, i, e) = c \o b
  BY DEF InsertAt
<1> HIDE DEF a, b
<1>6. c \in Seq(S) /\ Len(c) = i /\ c[i] = e /\ \A j \in 1 .. i - 1 : c[j] = q[j]
  BY <1>3
<1> HIDE DEF c
<1>7. /\ c \o b \in Seq(S) /\ Len(c \o b) = Len(c) + Len(b)
      /\ \A j \in 1 .. Len(c) + Len(b) :
           (c \o b)[j] = IF j <= Len(c) THEN c[j] ELSE b[j - Len(c)]
  BY <1>4, <1>6, ConcatProperties
<1>8. Len(c) + Len(b) = Len(q) + 1
  BY <1>4, <1>6
<1>9. ASSUME NEW j \in 1 .. Len(q) + 1
      PROVE  (c \o b)[j] = IF j < i THEN q[j] ELSE IF j = i THEN e ELSE q[j - 1]
  <2>1. CASE j < i
    BY <2>1, <1>6, <1>7, <1>8
  <2>2. CASE j = i
    BY <2>2, <1>6, <1>7, <1>8
  <2>3. CASE j > i
    <3>1. j - i \in 1 .. Len(q) - i + 1 /\ i + (j - i) - 1 = j - 1
      BY <2>3
    <3>2. b[j - i] = q[j - 1]
      BY <3>1, <1>4
    <3>3. (c \o b)[j] = b[j - i]
      BY <2>3, <1>6, <1>7, <1>8
    <3> QED
      BY <2>3, <3>2, <3>3
  <2>4. j < i \/ j = i \/ j > i
    OBVIOUS
  <2> QED
    BY <2>1, <2>2, <2>3, <2>4, Zenon
<1> QED
  BY <1>5, <1>7, <1>8, <1>9

\* The elements of a sequence.
LEMMA ToSetElements ==
  ASSUME NEW S, NEW q \in Seq(S)
  PROVE  ToSet(q) = {q[i] : i \in 1 .. Len(q)}
<1>1. DOMAIN q = 1 .. Len(q)
  OBVIOUS
<1> QED
  BY <1>1 DEF ToSet

\* One more element at the end, or one less at the front.
LEMMA ToSetAppend ==
  ASSUME NEW S, NEW q \in Seq(S), NEW e \in S
  PROVE  ToSet(Append(q, e)) = ToSet(q) \cup {e}
<1>1. /\ Append(q, e) \in Seq(S) /\ Len(Append(q, e)) = Len(q) + 1
      /\ \A i \in 1 .. Len(q) + 1 : Append(q, e)[i] = IF i <= Len(q) THEN q[i] ELSE e
  OBVIOUS
<1>2. Len(q) \in Nat /\ Len(q) + 1 \in 1 .. Len(q) + 1
  OBVIOUS
<1>3. ToSet(Append(q, e)) = {Append(q, e)[i] : i \in 1 .. Len(q) + 1}
  BY <1>1, ToSetElements
<1>4. ToSet(q) = {q[i] : i \in 1 .. Len(q)}
  BY ToSetElements
<1> QED
  BY <1>1, <1>2, <1>3, <1>4

LEMMA ToSetTail ==
  ASSUME NEW S, NEW q \in Seq(S), q # <<>>
  PROVE  /\ Tail(q) \in Seq(S) /\ Head(q) \in S
         /\ ToSet(q) = {Head(q)} \cup ToSet(Tail(q))
<1>1. /\ Tail(q) \in Seq(S) /\ Len(Tail(q)) = Len(q) - 1 /\ Len(q) \in Nat \ {0}
      /\ \A i \in 1 .. Len(q) - 1 : Tail(q)[i] = q[i + 1]
  OBVIOUS
<1>2. ToSet(q) = {q[i] : i \in 1 .. Len(q)}
  BY ToSetElements
<1>3. ToSet(Tail(q)) = {Tail(q)[i] : i \in 1 .. Len(q) - 1}
  BY <1>1, ToSetElements
<1>4. Head(q) = q[1] /\ Head(q) \in S
  OBVIOUS
<1>5. \A i \in 1 .. Len(q) : i = 1 \/ (i - 1 \in 1 .. Len(q) - 1 /\ q[i] = Tail(q)[i - 1])
  BY <1>1
<1>6. ToSet(q) \subseteq {Head(q)} \cup ToSet(Tail(q))
  <2>1. ASSUME NEW i \in 1 .. Len(q) PROVE q[i] \in {Head(q)} \cup ToSet(Tail(q))
    BY <1>3, <1>4, <1>5
  <2> QED
    BY <1>2, <2>1
<1>7. {Head(q)} \cup ToSet(Tail(q)) \subseteq ToSet(q)
  BY <1>1, <1>2, <1>3, <1>4
<1> QED
  BY <1>1, <1>4, <1>6, <1>7

LEMMA ToSetEmpty == ToSet(<<>>) = {}
BY DEF ToSet

\* Taking an element out of a sequence without duplicates: the others stay,
\* in their order.
LEMMA RemoveFirstProperties ==
  ASSUME NEW S, NEW q \in Seq(S), IsInjective(q), NEW e
  PROVE  /\ RemoveFirst(q, e) \in Seq(S) /\ IsInjective(RemoveFirst(q, e))
         /\ Range(RemoveFirst(q, e)) = Range(q) \ {e}
         /\ \A i, j \in 1 .. Len(RemoveFirst(q, e)) :
              i < j => \E k, l \in 1 .. Len(q) :
                         k < l /\ RemoveFirst(q, e)[i] = q[k] /\ RemoveFirst(q, e)[j] = q[l]
<1>1. DOMAIN q = 1 .. Len(q) /\ Len(q) \in Nat
  OBVIOUS
<1>2. CASE ~ \E i \in 1 .. Len(q) : q[i] = e
  <2>1. RemoveFirst(q, e) = q
    BY <1>2 DEF RemoveFirst
  <2>2. Range(q) = Range(q) \ {e}
    BY <1>1, <1>2 DEF Range
  <2> QED
    BY <2>1, <2>2
<1>3. CASE \E i \in 1 .. Len(q) : q[i] = e
  <2> DEFINE I == {i \in 1 .. Len(q) : q[i] = e}
             k == Min(I)
             r == RemoveAt(q, k)
  <2>1. I \in SUBSET Nat /\ I # {}
    BY <1>1, <1>3
  <2>2. k \in I
    BY <2>1, LeastElement
  <2>3. k \in 1 .. Len(q) /\ q[k] = e
    BY <2>2
  <2>4. RemoveFirst(q, e) = r
    BY <1>3, <2>1 DEF RemoveFirst, SelectInSeq
  <2> HIDE DEF k, I
  <2>5. /\ r \in Seq(S) /\ Len(r) = Len(q) - 1
        /\ \A j \in 1 .. Len(q) - 1 : r[j] = IF j < k THEN q[j] ELSE q[j + 1]
    BY <2>3, RemoveAtProperties
  <2> HIDE DEF r
  <2> DEFINE at == [j \in 1 .. Len(q) - 1 |-> IF j < k THEN j ELSE j + 1]
  <2>6. at \in [1 .. Len(q) - 1 -> 1 .. Len(q)]
    BY <1>1, <2>3
  <2>7. \A j \in 1 .. Len(q) - 1 : r[j] = q[at[j]] /\ at[j] # k
    BY <2>3, <2>5
  <2>8. \A i, j \in 1 .. Len(q) - 1 : i < j => at[i] < at[j]
    BY <2>3
  <2>9. \A j \in 1 .. Len(q) : j # k => \E i \in 1 .. Len(q) - 1 : at[i] = j
    <3> TAKE j \in 1 .. Len(q)
    <3>1. CASE j < k
      BY <3>1, <2>3
    <3>2. CASE j > k
      <4>1. j - 1 \in 1 .. Len(q) - 1 /\ at[j - 1] = j
        BY <3>2, <2>3
      <4> QED
        BY <4>1
    <3> QED
      BY <3>1, <3>2, <2>3
  <2> HIDE DEF at
  <2>10. DOMAIN r = 1 .. Len(q) - 1
    BY <2>5
  <2>11. IsInjective(r)
    <3>1. \A i, j \in 1 .. Len(q) - 1 : at[i] = at[j] => i = j
      <4> SUFFICES ASSUME NEW i \in 1 .. Len(q) - 1, NEW j \in 1 .. Len(q) - 1,
                          at[i] = at[j], i # j
                   PROVE  FALSE
        OBVIOUS
      <4>1. at[i] \in Nat /\ (i < j \/ j < i)
        BY <2>6
      <4> QED
        BY <4>1, <2>8
    <3> QED
      BY <1>1, <2>6, <2>7, <2>10, <3>1 DEF IsInjective
  <2>12. Range(r) = Range(q) \ {e}
    <3>1. ASSUME NEW j \in 1 .. Len(q) - 1 PROVE r[j] \in Range(q) /\ r[j] # e
      <4>1. at[j] \in 1 .. Len(q) /\ r[j] = q[at[j]] /\ at[j] # k
        BY <2>6, <2>7
      <4> QED
        BY <1>1, <2>3, <4>1 DEF IsInjective, Range
    <3>2. \A y \in Range(q) \ {e} : \E j \in 1 .. Len(q) - 1 : r[j] = y
      <4> TAKE y \in Range(q) \ {e}
      <4>1. PICK i \in 1 .. Len(q) : q[i] = y /\ i # k
        BY <1>1, <2>3 DEF Range
      <4>2. PICK j \in 1 .. Len(q) - 1 : at[j] = i
        BY <2>9, <4>1
      <4> QED
        BY <2>7, <4>1, <4>2
    <3> QED
      BY <2>10, <3>1, <3>2 DEF Range
  <2>13. \A i, j \in 1 .. Len(q) - 1 :
           i < j => \E m, l \in 1 .. Len(q) : m < l /\ r[i] = q[m] /\ r[j] = q[l]
    BY <2>6, <2>7, <2>8
  <2> QED
    BY SMTT(20), <2>4, <2>5, <2>11, <2>12, <2>13
<1> QED
  BY <1>2, <1>3

\* An element in front of a sequence.
LEMMA InFrontProperties ==
  ASSUME NEW S, NEW q \in Seq(S), NEW e \in S
  PROVE  /\ <<e>> \o q \in Seq(S) /\ Len(<<e>> \o q) = Len(q) + 1
         /\ (<<e>> \o q)[1] = e
         /\ \A i \in 1 .. Len(q) : (<<e>> \o q)[i + 1] = q[i]
         /\ Range(<<e>> \o q) = Range(q) \cup {e}
         /\ IsInjective(q) /\ e \notin Range(q) => IsInjective(<<e>> \o q)
<1> DEFINE h == <<e>>
           r == h \o q
<1>1. h \in Seq(S) /\ Len(h) = 1 /\ h[1] = e
  OBVIOUS
<1> HIDE DEF h
<1>2. /\ r \in Seq(S) /\ Len(r) = Len(h) + Len(q)
      /\ \A i \in 1 .. Len(h) + Len(q) : r[i] = IF i <= Len(h) THEN h[i] ELSE q[i - Len(h)]
  BY <1>1, ConcatProperties
<1> HIDE DEF r
<1>3. Len(q) \in Nat /\ DOMAIN q = 1 .. Len(q)
  OBVIOUS
<1>4. Len(r) = Len(q) + 1 /\ DOMAIN r = 1 .. Len(q) + 1 /\ r[1] = e
  BY <1>1, <1>2, <1>3
<1>5. ASSUME NEW i \in 1 .. Len(q) PROVE r[i + 1] = q[i]
  <2>1. i + 1 \in 1 .. Len(h) + Len(q) /\ ~(i + 1 <= Len(h)) /\ i + 1 - Len(h) = i
    BY <1>1, <1>3
  <2> QED
    BY <2>1, <1>2
<1>6. \A i \in 1 .. Len(q) + 1 : i = 1 \/ (i - 1 \in 1 .. Len(q) /\ r[i] = q[i - 1])
  <2> TAKE i \in 1 .. Len(q) + 1
  <2>1. i = 1 \/ (i - 1 \in 1 .. Len(q) /\ (i - 1) + 1 = i)
    BY <1>3
  <2> QED
    BY <2>1, <1>5
<1>7. Range(r) \subseteq Range(q) \cup {e}
  BY <1>3, <1>4, <1>6 DEF Range
<1>8. Range(q) \cup {e} \subseteq Range(r)
  <2>1. \A i \in 1 .. Len(q) : i + 1 \in DOMAIN r /\ 1 \in DOMAIN r
    BY <1>3, <1>4
  <2>2. 1 \in DOMAIN r
    BY <1>3, <1>4
  <2> QED
    BY <1>3, <1>4, <1>5, <2>1, <2>2 DEF Range
<1>9. ASSUME IsInjective(q), e \notin Range(q) PROVE IsInjective(r)
  <2> SUFFICES ASSUME NEW i \in 1 .. Len(q) + 1, NEW j \in 1 .. Len(q) + 1, r[i] = r[j]
               PROVE  i = j
    BY <1>4 DEF IsInjective
  <2>1. \A k \in 1 .. Len(q) : q[k] # e
    BY <1>3, <1>9 DEF Range
  <2>2. CASE i = 1 \/ j = 1
    BY <1>4, <1>6, <2>1, <2>2
  <2>3. CASE i # 1 /\ j # 1
    <3>1. i - 1 \in 1 .. Len(q) /\ j - 1 \in 1 .. Len(q) /\ q[i - 1] = q[j - 1]
      BY <1>6, <2>3
    <3>2. i - 1 = j - 1
      BY <3>1, <1>3, <1>9 DEF IsInjective
    <3> QED
      BY <3>2
  <2> QED
    BY <2>2, <2>3
<1> QED
  BY <1>1, <1>2, <1>4, <1>5, <1>7, <1>8, <1>9 DEF r, h

\* Of n elements of a finite set there is a list in descending order of f
\* that leaves out no greater one.
LEMMA DescendingListExists ==
  ASSUME NEW S, IsFiniteSet(S), NEW b \in Nat, NEW f \in [S -> Nat],
         \A i \in S : f[i] <= b,
         NEW n \in Nat, n <= Cardinality(S)
  PROVE  \E s \in [1 .. n -> S] :
           /\ IsInjective(s)
           /\ \A k \in DOMAIN s : \A i \in S : f[i] > f[s[k]] => \E m \in 1 .. k - 1 : s[m] = i
<1> DEFINE Descending(s) ==
             /\ IsInjective(s)
             /\ \A k \in DOMAIN s : \A i \in S :
                  f[i] > f[s[k]] => \E m \in 1 .. k - 1 : s[m] = i
           Bad == {k \in Nat : k <= Cardinality(S) /\ ~ \E s \in [1 .. k -> S] : Descending(s)}
<1>1. Cardinality(S) \in Nat
  BY FS_CardinalityType
<1> SUFFICES ASSUME Bad # {} PROVE FALSE
  OBVIOUS
<1> DEFINE l == Min(Bad)
<1>2. Bad \in SUBSET Nat
  OBVIOUS
<1> HIDE DEF Bad
<1>3. l \in Bad /\ \A k \in Bad : l <= k
  BY <1>2, LeastElement
<1> HIDE DEF l
<1>4. l \in Nat /\ l <= Cardinality(S) /\ ~ \E s \in [1 .. l -> S] : Descending(s)
  BY <1>3 DEF Bad
<1> HIDE DEF Descending
<1>5. l # 0
  <2> SUFFICES ASSUME l = 0 PROVE FALSE
    OBVIOUS
  <2> DEFINE s == [k \in 1 .. 0 |-> CHOOSE x : x \in S]
  <2>1. s \in [1 .. 0 -> S] /\ DOMAIN s = {}
    OBVIOUS
  <2> HIDE DEF s
  <2>2. Descending(s)
    BY <2>1 DEF Descending, IsInjective
  <2> QED
    BY <1>4, <2>1, <2>2
<1>6. l - 1 \in Nat /\ l - 1 <= Cardinality(S) /\ l - 1 \notin Bad
  BY <1>1, <1>3, <1>4, <1>5
<1>7. PICK s \in [1 .. l - 1 -> S] : Descending(s)
  BY <1>6 DEF Bad
<1> DEFINE left == S \ {s[k] : k \in 1 .. l - 1}
<1>8. left # {}
  <2> SUFFICES ASSUME left = {} PROVE FALSE
    OBVIOUS
  <2>1. s \in Injection(1 .. l - 1, S)
    BY <1>7 DEF Descending, Injection, IsInjective
  <2>2. s \in Surjection(1 .. l - 1, S)
    BY DEF Surjection
  <2>3. Cardinality(1 .. l - 1) = Cardinality(S)
    BY <2>1, <2>2, FS_Injection
  <2>4. Cardinality(1 .. l - 1) = l - 1
    <3> DEFINE m == l - 1
    <3>1. m \in Int /\ 1 \in Int /\ (m = 0 \/ m >= 1)
      BY <1>4, <1>5
    <3> HIDE DEF m
    <3>2. Cardinality(1 .. m) = IF 1 > m THEN 0 ELSE m - 1 + 1
      BY <3>1, FS_Interval
    <3>3. Cardinality(1 .. m) = m
      BY <3>1, <3>2
    <3> QED
      BY <3>3 DEF m
  <2> QED
    BY <2>3, <2>4, <1>1, <1>4
<1> DEFINE values == {f[x] : x \in left}
<1>9. values \in SUBSET Nat /\ values # {} /\ \A v \in values : v <= b
  BY <1>8
<1>10. Max(values) \in values /\ \A v \in values : v <= Max(values)
  BY <1>9, GreatestElement
<1>11. PICK x \in left : Max(values) = f[x]
  BY <1>10
<1>12. x \in S /\ \A y \in left : f[y] <= f[x]
  BY <1>10, <1>11
<1>13. \A k \in 1 .. l - 1 : s[k] # x
  BY <1>11
<1>14. \A i \in S : f[i] > f[x] => \E k \in 1 .. l - 1 : s[k] = i
  <2> TAKE i \in S
  <2> HAVE f[i] > f[x]
  <2>1. i \notin left
    BY <1>12
  <2> QED
    BY <2>1
<1> HIDE DEF values, left
<1> DEFINE r == [k \in 1 .. l |-> IF k = l THEN x ELSE s[k]]
<1>15. r \in [1 .. l -> S] /\ DOMAIN r = 1 .. l /\ r[l] = x /\ \A k \in 1 .. l - 1 : r[k] = s[k]
  BY <1>4, <1>5, <1>12
<1> HIDE DEF r
<1>16. IsInjective(r)
  <2> SUFFICES ASSUME NEW i \in 1 .. l, NEW j \in 1 .. l, r[i] = r[j], i # j PROVE FALSE
    BY <1>15 DEF IsInjective
  <2>1. \A k \in 1 .. l : k = l \/ k \in 1 .. l - 1
    BY <1>4
  <2>2. CASE i = l \/ j = l
    BY <2>1, <2>2, <1>13, <1>15
  <2>3. CASE i # l /\ j # l
    BY <2>1, <2>3, <1>7, <1>15 DEF Descending, IsInjective
  <2> QED
    BY <2>2, <2>3
<1>17. ASSUME NEW k \in 1 .. l, NEW i \in S, f[i] > f[r[k]]
       PROVE  \E m \in 1 .. k - 1 : r[m] = i
  <2>1. CASE k = l
    BY <2>1, <1>14, <1>15, <1>17
  <2>2. CASE k # l
    <3>1. k \in 1 .. l - 1 /\ r[k] = s[k]
      BY <2>2, <1>4, <1>15
    <3>2. PICK m \in 1 .. k - 1 : s[m] = i
      BY <3>1, <1>7, <1>17 DEF Descending
    <3>3. m \in 1 .. l - 1
      BY <3>1, <1>4
    <3> QED
      BY <3>2, <3>3, <1>15
  <2> QED
    BY <2>1, <2>2
<1>18. Descending(r)
  BY <1>15, <1>16, <1>17 DEF Descending
<1> QED
  BY <1>4, <1>15, <1>18

-----------------------------------------------------------------------------
(***************************************************************************)
(* Sequences kept in the order of a rank.                                  *)
(***************************************************************************)
Ranks(S, rank) == rank \in [S -> Nat] /\ \A x, y \in S : rank[x] = rank[y] => x = y

\* In the order of rank, and so without repetition.
InOrder(q, rank) ==
  \A i, j \in 1 .. Len(q) : j < i => rank[q[j]] < rank[q[i]]

\* The first element that is not before e, or the end.
FirstNotBefore(q, rank, e) ==
  Min({i \in 1 .. Len(q) : rank[q[i]] >= rank[e]} \cup {Len(q) + 1})

\* It divides the sequence into what is before e and the rest.
LEMMA FirstDivides ==
  ASSUME NEW S, NEW rank, Ranks(S, rank), NEW q \in Seq(S), NEW e \in S, NEW k,
         k = FirstNotBefore(q, rank, e)
  PROVE  /\ k \in 1 .. Len(q) + 1
         /\ \A i \in 1 .. k - 1 : rank[q[i]] < rank[e]
         /\ k <= Len(q) => rank[q[k]] >= rank[e]
<1> DEFINE T == {i \in 1 .. Len(q) : rank[q[i]] >= rank[e]} \cup {Len(q) + 1}
<1>1. T \in SUBSET Nat /\ T # {} /\ Len(q) + 1 \in T
  OBVIOUS
<1>2. Min(T) \in T /\ \A y \in T : Min(T) <= y
  BY <1>1, LeastElement
<1>3. k = Min(T)
  BY DEF FirstNotBefore
<1>4. \A i \in 1 .. Len(q) : rank[q[i]] \in Nat /\ rank[e] \in Nat
  BY DEF Ranks
<1>5. Min(T) \in 1 .. Len(q) + 1
  BY <1>2
<1>6. ASSUME NEW i \in 1 .. Min(T) - 1 PROVE rank[q[i]] < rank[e]
  <2>1. i \in 1 .. Len(q) /\ i \notin T
    BY <1>2, <1>5
  <2> QED
    BY <2>1, <1>4
<1>7. Min(T) <= Len(q) => rank[q[Min(T)]] >= rank[e]
  BY <1>2
<1> QED
  BY <1>3, <1>5, <1>6, <1>7

\* A scan that stops there misses nothing.
LEMMA FirstIsElement ==
  ASSUME NEW S, NEW rank, Ranks(S, rank), NEW q \in Seq(S), InOrder(q, rank), NEW e \in S,
         NEW k, k = FirstNotBefore(q, rank, e)
  PROVE  (k <= Len(q) /\ q[k] = e) <=> e \in ToSet(q)
<1>1. /\ k \in 1 .. Len(q) + 1
      /\ \A i \in 1 .. k - 1 : rank[q[i]] < rank[e]
      /\ k <= Len(q) => rank[q[k]] >= rank[e]
  BY FirstDivides
<1>2. \A i \in 1 .. Len(q) : rank[q[i]] \in Nat /\ rank[e] \in Nat
  BY DEF Ranks
<1>3. ASSUME NEW i \in 1 .. Len(q), q[i] = e PROVE i = k
  <2>1. k <= i
    BY <1>1, <1>2, <1>3
  <2>2. rank[q[k]] >= rank[e] /\ k \in 1 .. Len(q)
    BY <1>1, <2>1
  <2>3. ~(k < i)
    BY <1>2, <1>3, <2>2 DEF InOrder
  <2> QED
    BY <2>1, <2>2, <2>3
<1> QED
  BY <1>1, <1>3 DEF ToSet

\* Putting an element there that is not in the sequence.
LEMMA InsertInOrder ==
  ASSUME NEW S, NEW rank, Ranks(S, rank), NEW q \in Seq(S), InOrder(q, rank), NEW e \in S,
         e \notin ToSet(q), NEW k, k = FirstNotBefore(q, rank, e),
         NEW new, new = InsertAt(q, k, e)
  PROVE  /\ new \in Seq(S) /\ Len(new) = Len(q) + 1 /\ InOrder(new, rank)
         /\ ToSet(new) = ToSet(q) \cup {e}
         /\ \A i \in 1 .. Len(q) : rank[q[i]] < rank[e] => new[i] = q[i]
<1>1. /\ k \in 1 .. Len(q) + 1
      /\ \A i \in 1 .. k - 1 : rank[q[i]] < rank[e]
      /\ k <= Len(q) => rank[q[k]] >= rank[e]
  BY FirstDivides
<1>2. /\ new \in Seq(S) /\ Len(new) = Len(q) + 1
      /\ \A j \in 1 .. Len(q) + 1 :
           new[j] = IF j < k THEN q[j] ELSE IF j = k THEN e ELSE q[j - 1]
  <2>1. /\ InsertAt(q, k, e) \in Seq(S) /\ Len(InsertAt(q, k, e)) = Len(q) + 1
        /\ \A j \in 1 .. Len(q) + 1 :
             InsertAt(q, k, e)[j] = IF j < k THEN q[j] ELSE IF j = k THEN e ELSE q[j - 1]
    BY ONLY <1>1, q \in Seq(S), e \in S, InsertAtProperties
  <2> QED
    BY <2>1
<1>3. \A i \in 1 .. Len(q) : rank[q[i]] \in Nat /\ rank[e] \in Nat
  BY DEF Ranks
<1>4. ASSUME NEW i \in k .. Len(q) PROVE rank[e] < rank[q[i]]
  <2>1. k \in 1 .. Len(q) /\ rank[q[k]] >= rank[e] /\ q[k] # e
    BY <1>1, FirstIsElement
  <2>2. rank[e] < rank[q[k]]
    BY <2>1, <1>3 DEF Ranks
  <2>3. k < i => rank[q[k]] < rank[q[i]]
    BY <1>1 DEF InOrder
  <2> QED
    BY <1>1, <1>3, <2>1, <2>2, <2>3
<1> DEFINE old(i) == IF i < k THEN i ELSE i - 1
           moved(i) == IF i < k THEN i ELSE i + 1
<1>5. \A i \in 1 .. Len(new) : i # k => old(i) \in 1 .. Len(q) /\ new[i] = q[old(i)]
  BY <1>1, <1>2
<1>6. \A i \in 1 .. Len(q) : moved(i) \in 1 .. Len(new) /\ q[i] = new[moved(i)]
  BY <1>1, <1>2
<1>7. k \in 1 .. Len(new) /\ new[k] = e
  BY <1>1, <1>2
<1>8. InOrder(new, rank)
  <2> SUFFICES ASSUME NEW i \in 1 .. Len(new), NEW j \in 1 .. Len(new), j < i
               PROVE  rank[new[j]] < rank[new[i]]
    BY DEF InOrder
  <2>1. CASE i = k
    <3>1. j \in 1 .. k - 1 /\ new[j] = q[j]
      BY <2>1, <1>1, <1>5
    <3> QED
      BY <2>1, <3>1, <1>1, <1>7
  <2>2. CASE j = k
    <3>1. old(i) \in k .. Len(q) /\ new[i] = q[old(i)]
      BY <2>2, <1>1, <1>5
    <3> QED
      BY <2>2, <3>1, <1>4, <1>7
  <2>3. CASE i # k /\ j # k
    <3>1. old(j) < old(i)
      BY <2>3, <1>1
    <3> QED
      BY <2>3, <3>1, <1>5 DEF InOrder
  <2> QED
    BY <2>1, <2>2, <2>3
<1>9. \A i \in 1 .. Len(q) : rank[q[i]] < rank[e] => new[i] = q[i]
  <2> SUFFICES ASSUME NEW i \in 1 .. Len(q), rank[q[i]] < rank[e] PROVE new[i] = q[i]
    OBVIOUS
  <2>1. i < k
    BY <1>1, <1>3, <1>4
  <2> QED
    BY <2>1, <1>2
<1> HIDE DEF old, moved
<1>10. ToSet(new) = ToSet(q) \cup {e}
  <2>1. ToSet(q) = {q[i] : i \in 1 .. Len(q)} /\ ToSet(new) = {new[i] : i \in 1 .. Len(new)}
    BY <1>2, ToSetElements
  <2>2. \A i \in 1 .. Len(new) : new[i] \in {q[j] : j \in 1 .. Len(q)} \cup {e}
    BY <1>5, <1>7
  <2>3. \A i \in 1 .. Len(q) : q[i] \in {new[j] : j \in 1 .. Len(new)}
    BY <1>6
  <2>4. e \in {new[j] : j \in 1 .. Len(new)}
    BY <1>7
  <2>5. ToSet(new) \subseteq ToSet(q) \cup {e}
    BY <2>1, <2>2
  <2>6. ToSet(q) \subseteq ToSet(new) /\ e \in ToSet(new)
    BY <2>1, <2>3, <2>4
  <2> QED
    BY <2>5, <2>6
<1> QED
  BY <1>2, <1>8, <1>9, <1>10

\* Taking an element out.
LEMMA RemoveInOrder ==
  ASSUME NEW S, NEW rank, Ranks(S, rank), NEW q \in Seq(S), InOrder(q, rank), NEW e \in S,
         e \in ToSet(q), NEW k, k = FirstNotBefore(q, rank, e),
         NEW new, new = RemoveAt(q, k)
  PROVE  /\ new \in Seq(S) /\ Len(new) = Len(q) - 1 /\ InOrder(new, rank)
         /\ ToSet(new) = ToSet(q) \ {e}
         /\ \A i \in 1 .. Len(q) :
              rank[q[i]] < rank[e] => i \in 1 .. Len(new) /\ new[i] = q[i]
<1>1. k \in 1 .. Len(q) /\ q[k] = e
  BY FirstIsElement, FirstDivides
<1>2. /\ new \in Seq(S) /\ Len(new) = Len(q) - 1
      /\ \A j \in 1 .. Len(q) - 1 : new[j] = IF j < k THEN q[j] ELSE q[j + 1]
  BY <1>1, RemoveAtProperties
<1>3. \A i \in 1 .. Len(q) : rank[q[i]] \in Nat
  BY DEF Ranks
<1> DEFINE old(i) == IF i < k THEN i ELSE i + 1
           moved(i) == IF i < k THEN i ELSE i - 1
<1>4. \A i \in 1 .. Len(new) : old(i) \in 1 .. Len(q) /\ old(i) # k /\ new[i] = q[old(i)]
  BY <1>1, <1>2
<1>5. \A i \in 1 .. Len(q) : i # k => moved(i) \in 1 .. Len(new) /\ q[i] = new[moved(i)]
  BY <1>1, <1>2
<1>6. InOrder(new, rank)
  <2> SUFFICES ASSUME NEW i \in 1 .. Len(new), NEW j \in 1 .. Len(new), j < i
               PROVE  rank[new[j]] < rank[new[i]]
    BY DEF InOrder
  <2>1. old(j) < old(i)
    BY <1>1, <1>2
  <2> QED
    BY <2>1, <1>4 DEF InOrder
<1>7. \A i \in 1 .. Len(q) : rank[q[i]] < rank[e] => i \in 1 .. Len(new) /\ new[i] = q[i]
  <2> SUFFICES ASSUME NEW i \in 1 .. Len(q), rank[q[i]] < rank[e]
               PROVE  i \in 1 .. Len(new) /\ new[i] = q[i]
    OBVIOUS
  <2>1. i < k
    BY <1>1, <1>3 DEF InOrder
  <2> QED
    BY <2>1, <1>1, <1>2
<1> HIDE DEF old, moved
<1>8. \A i \in 1 .. Len(q) : i # k => q[i] # e
  BY <1>1, <1>3 DEF InOrder
<1>9. ToSet(new) = ToSet(q) \ {e}
  <2>1. ToSet(q) = {q[i] : i \in 1 .. Len(q)} /\ ToSet(new) = {new[i] : i \in 1 .. Len(new)}
    BY <1>2, ToSetElements
  <2>2. \A i \in 1 .. Len(new) : new[i] \in {q[j] : j \in 1 .. Len(q)} \ {e}
    BY <1>4, <1>8
  <2>3. \A i \in 1 .. Len(q) : q[i] \in {new[j] : j \in 1 .. Len(new)} \cup {e}
    BY <1>1, <1>5
  <2> QED
    BY <2>1, <2>2, <2>3
<1> QED
  BY <1>2, <1>6, <1>7, <1>9

\* A recursive function on a beginning of the numbers is there.
LEMMA StepsExist ==
  ASSUME NEW T, NEW base \in T, NEW step \in [Nat -> [T -> T]], NEW last \in Nat
  PROVE  \E run \in [0 .. last -> T] :
           run[0] = base /\ \A i \in 1 .. last : run[i] = step[i][run[i - 1]]
<1> DEFINE Ok(m, f) == f[0] = base /\ \A i \in 1 .. m : f[i] = step[i][f[i - 1]]
           bad == {m \in Nat : ~\E f \in [0 .. m -> T] : Ok(m, f)}
<1>1. ASSUME bad # {} PROVE FALSE
  <2>1. bad \in SUBSET Nat
    OBVIOUS
  <2>2. PICK m \in Nat : m \in bad /\ \A k \in bad : m <= k
    <3> HIDE DEF bad
    <3> QED
      BY <1>1, <2>1, LeastElement
  <2>3. CASE m = 0
    <3> DEFINE f == [i \in 0 .. 0 |-> base]
    <3>1. f \in [0 .. m -> T] /\ Ok(m, f)
      BY <2>3
    <3> QED
      BY <3>1, <2>2
  <2>4. CASE m # 0
    <3>1. m - 1 \in Nat /\ m - 1 \notin bad
      <4>1. m - 1 \in Nat /\ ~(m <= m - 1)
        BY <2>4
      <4> HIDE DEF bad
      <4> QED
        BY <4>1, <2>2
    <3>2. PICK f \in [0 .. m - 1 -> T] : Ok(m - 1, f)
      BY <3>1
    <3> DEFINE g == [i \in 0 .. m |-> IF i = m THEN step[m][f[m - 1]] ELSE f[i]]
    <3>3. f[m - 1] \in T
      BY <3>1
    <3>4. g \in [0 .. m -> T]
      BY <3>2, <3>3
    <3>5. g[0] = base
      BY <3>2, <2>4
    <3>6. ASSUME NEW i \in 1 .. m PROVE g[i] = step[i][g[i - 1]]
      <4>1. g[i - 1] = f[i - 1]
        OBVIOUS
      <4>2. i # m => i \in 1 .. m - 1 /\ g[i] = f[i]
        OBVIOUS
      <4> QED
        BY <4>1, <4>2, <3>2
    <3> HIDE DEF g
    <3>7. Ok(m, g)
      BY <3>5, <3>6
    <3> QED
      BY <3>4, <3>7, <2>2
  <2> QED
    BY <2>3, <2>4
<1> QED
  BY <1>1

\* What starts alike and steps alike is alike.
LEMMA StepsAgree ==
  ASSUME NEW last \in Nat, NEW one, NEW other, one[0] = other[0],
         \A i \in 1 .. last : one[i - 1] = other[i - 1] => one[i] = other[i]
  PROVE  \A i \in 0 .. last : one[i] = other[i]
<1> DEFINE bad == {i \in 0 .. last : one[i] # other[i]}
<1>1. ASSUME bad # {} PROVE FALSE
  <2>1. bad \in SUBSET Nat
    OBVIOUS
  <2>2. PICK m \in Nat : m \in bad /\ \A k \in bad : m <= k
    <3> HIDE DEF bad
    <3> QED
      BY <1>1, <2>1, LeastElement
  <2>3. m \in 1 .. last /\ m - 1 \in 0 .. last /\ m - 1 \notin bad
    BY <2>2
  <2> QED
    BY <2>2, <2>3
<1> QED
  BY <1>1
=============================================================================
