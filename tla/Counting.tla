------------------------------ MODULE Counting ------------------------------
(***************************************************************************)
(* How often the elements of a set occur in a sequence.  The reference     *)
(* counts of the library count pointers that lie in queues; the proofs     *)
(* about them need what adding, taking, inserting and erasing do to such a *)
(* count.  What sequences of closures carry is at the end.                 *)
(***************************************************************************)
EXTENDS Integers, Sequences, FiniteSets, FiniteSetTheorems, SequenceTheorems,
        WellFoundedInduction, TLAPS, Carrying

PlacesOf(s, T) == {k \in DOMAIN s : s[k] \in T}
Count(s, T)  == Cardinality(PlacesOf(s, T))

\* A set of natural numbers has a least element.
LEMMA LeastNatural ==
  ASSUME NEW K \in SUBSET Nat, K # {}
  PROVE  \E k \in K : \A j \in K : k <= j
<1>1. PICK k \in K : \A j \in K : ~(<<j, k>> \in OpToRel(<, Nat))
  BY NatLessThanWellFounded, WFMin
<1>2. \A j \in K : ~(j < k)
  BY <1>1 DEF OpToRel
<1> QED BY <1>2

\* Induction, for a set: what holds 0, and the next number up to n with each
\* of its own, holds the numbers up to n.
LEMMA Climb ==
  ASSUME NEW n \in Nat, NEW K, 0 \in K, \A k \in 0..n : k < n /\ k \in K => k + 1 \in K
  PROVE  \A k \in 0..n : k \in K
<1> DEFINE B == {k \in 0..n : k \notin K}
<1> SUFFICES ASSUME B # {} PROVE FALSE
  OBVIOUS
<1>1. B \in SUBSET Nat
  OBVIOUS
<1>2. PICK k \in B : \A j \in B : k <= j
  <2> HIDE DEF B
  <2> QED BY <1>1, LeastNatural
<1>3. k \in 0..n /\ k \notin K /\ k # 0
  BY <1>2
<1> DEFINE j == k - 1
<1>4. j \in 0..n /\ j < n /\ j + 1 = k /\ ~(k <= j)
  BY <1>3
<1>5. j \notin B
  BY <1>2, <1>4
<1>6. j \in K
  BY <1>4, <1>5
<1> HIDE DEF j
<1> QED BY <1>3, <1>4, <1>6

\* A count is a natural number, zero exactly if nothing counted occurs.
LEMMA CountType ==
  ASSUME NEW S, NEW s \in Seq(S), NEW T
  PROVE  /\ IsFiniteSet(PlacesOf(s, T)) /\ Count(s, T) \in Nat
         /\ Count(s, T) = 0 <=> \A k \in DOMAIN s : s[k] \notin T
<1>1. IsFiniteSet(1..Len(s))
  BY FS_Interval
<1>2. PlacesOf(s, T) \in SUBSET (1..Len(s))
  BY DEF PlacesOf
<1>3. IsFiniteSet(PlacesOf(s, T))
  BY <1>1, <1>2, FS_Subset
<1>4. Count(s, T) \in Nat
  BY <1>3, FS_CardinalityType DEF Count
<1>5. Count(s, T) = 0 <=> PlacesOf(s, T) = {}
  BY <1>3, FS_EmptySet DEF Count
<1> QED BY <1>3, <1>4, <1>5 DEF PlacesOf

\* The empty sequence and those of one element.
LEMMA CountSmall ==
  ASSUME NEW T
  PROVE  /\ Count(<<>>, T) = 0
         /\ \A x : Count(<<x>>, T) = IF x \in T THEN 1 ELSE 0
<1>1. PlacesOf(<<>>, T) = {}
  BY DEF PlacesOf
<1>2. ASSUME NEW x PROVE PlacesOf(<<x>>, T) = IF x \in T THEN {1} ELSE {}
  BY DEF PlacesOf
<1> QED BY <1>1, <1>2, FS_EmptySet, FS_Singleton DEF Count

\* The places of a concatenation are those of the first part and, moved by its
\* length, those of the second.
LEMMA CountConcat ==
  ASSUME NEW S, NEW s \in Seq(S), NEW t \in Seq(S), NEW T
  PROVE  Count(s \o t, T) = Count(s, T) + Count(t, T)
<1> DEFINE n == Len(s)
           A == PlacesOf(s, T)
           B == {k \in (n + 1)..(n + Len(t)) : t[k - n] \in T}
           f == [k \in PlacesOf(t, T) |-> k + n]
<1>1. n \in Nat /\ DOMAIN s = 1..n /\ DOMAIN t = 1..Len(t) /\ Len(t) \in Nat
  OBVIOUS
<1>2. PlacesOf(s \o t, T) = A \cup B
  BY <1>1 DEF PlacesOf
<1>3. A \cap B = {}
  BY <1>1 DEF PlacesOf
<1>4. IsFiniteSet(A) /\ IsFiniteSet(PlacesOf(t, T)) /\ Count(s, T) \in Nat /\ Count(t, T) \in Nat
  BY CountType
<1>5. f \in Bijection(PlacesOf(t, T), B)
  <2>1. PlacesOf(t, T) \subseteq 1..Len(t)
    BY <1>1 DEF PlacesOf
  <2>2. f \in [PlacesOf(t, T) -> B]
    BY <1>1 DEF PlacesOf
  <2>3. \A a, b \in PlacesOf(t, T) : f[a] = f[b] => a = b
    BY <1>1, <2>1
  <2>4. ASSUME NEW b \in B PROVE \E a \in PlacesOf(t, T) : f[a] = b
    <3>1. b - n \in PlacesOf(t, T)
      BY <1>1 DEF PlacesOf
    <3> QED BY <3>1, <1>1
  <2> QED BY <2>2, <2>3, <2>4 DEF Bijection, Injection, Surjection, IsInjective
<1>6. IsFiniteSet(B) /\ Cardinality(B) = Count(t, T)
  BY <1>4, <1>5, FS_Bijection DEF ExistsBijection, Count
<1>7. Cardinality(A \cup B) = Cardinality(A) + Cardinality(B) - Cardinality(A \cap B)
  BY <1>4, <1>6, FS_Union
<1>8. Cardinality(A \cap B) = 0
  BY <1>3, FS_EmptySet
<1> QED BY <1>2, <1>4, <1>6, <1>7, <1>8 DEF Count

\* push_back.
LEMMA CountAppend ==
  ASSUME NEW S, NEW s \in Seq(S), NEW e \in S, NEW T
  PROVE  /\ Append(s, e) \in Seq(S)
         /\ Count(Append(s, e), T) = Count(s, T) + IF e \in T THEN 1 ELSE 0
<1>1. Append(s, e) = s \o <<e>> /\ <<e>> \in Seq(S)
  OBVIOUS
<1>2. Count(s \o <<e>>, T) = Count(s, T) + Count(<<e>>, T)
  BY <1>1, CountConcat
<1>3. Count(<<e>>, T) = IF e \in T THEN 1 ELSE 0
  BY CountSmall
<1> QED BY <1>1, <1>2, <1>3

\* pop_front.
LEMMA CountTail ==
  ASSUME NEW S, NEW s \in Seq(S), s # <<>>, NEW T
  PROVE  /\ Head(s) \in S /\ Tail(s) \in Seq(S)
         /\ Count(s, T) = Count(Tail(s), T) + IF Head(s) \in T THEN 1 ELSE 0
<1> DEFINE h == <<Head(s)>>
           t == Tail(s)
<1>1. Head(s) \in S /\ t \in Seq(S) /\ h \in Seq(S) /\ s = h \o t
  OBVIOUS
<1>2. Count(h, T) = IF Head(s) \in T THEN 1 ELSE 0
  BY CountSmall
<1> HIDE DEF h, t
<1>3. Count(h \o t, T) = Count(h, T) + Count(t, T)
  BY <1>1, CountConcat
<1>4. Count(t, T) \in Nat
  BY <1>1, CountType
<1>5. Count(s, T) = Count(t, T) + IF Head(s) \in T THEN 1 ELSE 0
  BY <1>1, <1>2, <1>3, <1>4
<1> QED BY <1>1, <1>5 DEF t

\* Inserting behind the p-th element.
LEMMA CountInsert ==
  ASSUME NEW S, NEW s \in Seq(S), NEW e \in S, NEW p \in 0..Len(s), NEW T
  PROVE  LET t == SubSeq(s, 1, p) \o <<e>> \o SubSeq(s, p + 1, Len(s)) IN
         t \in Seq(S) /\ Count(t, T) = Count(s, T) + IF e \in T THEN 1 ELSE 0
<1> DEFINE a == SubSeq(s, 1, p)
           b == SubSeq(s, p + 1, Len(s))
<1>1. a \in Seq(S) /\ b \in Seq(S) /\ <<e>> \in Seq(S) /\ a \o <<e>> \in Seq(S)
  OBVIOUS
<1>2. s = a \o b
  <2>1. 1 \in 1..(Len(s) + 1) /\ p \in (1 - 1)..Len(s) /\ Len(s) \in p..Len(s)
    BY LenProperties
  <2>2. a \o b = SubSeq(s, 1, Len(s))
    BY <2>1, ConcatAdjacentSubSeq
  <2> QED BY <2>2, SubSeqFull
<1> HIDE DEF a, b
<1>3. Count(a \o b, T) = Count(a, T) + Count(b, T)
  BY <1>1, CountConcat
<1>4. Count(a \o <<e>>, T) = Count(a, T) + Count(<<e>>, T)
  BY <1>1, CountConcat
<1>5. Count((a \o <<e>>) \o b, T) = Count(a \o <<e>>, T) + Count(b, T)
  BY <1>1, CountConcat
<1>6. Count(a, T) \in Nat /\ Count(b, T) \in Nat
  BY <1>1, CountType
<1>7. Count(<<e>>, T) = IF e \in T THEN 1 ELSE 0
  BY CountSmall
<1>8. (a \o <<e>>) \o b \in Seq(S)
  BY <1>1
<1>9. Count((a \o <<e>>) \o b, T) = Count(s, T) + IF e \in T THEN 1 ELSE 0
  BY <1>2, <1>3, <1>4, <1>5, <1>6, <1>7
<1> QED BY <1>8, <1>9 DEF a, b

\* Erasing the p-th element.
LEMMA CountErase ==
  ASSUME NEW S, NEW s \in Seq(S), NEW p \in 1..Len(s), NEW T
  PROVE  LET t == SubSeq(s, 1, p - 1) \o SubSeq(s, p + 1, Len(s)) IN
         t \in Seq(S) /\ Count(s, T) = Count(t, T) + IF s[p] \in T THEN 1 ELSE 0
<1> DEFINE a == SubSeq(s, 1, p - 1)
           b == SubSeq(s, p + 1, Len(s))
           e == s[p]
<1>1. a \in Seq(S) /\ b \in Seq(S) /\ <<e>> \in Seq(S) /\ a \o <<e>> \in Seq(S)
  OBVIOUS
<1>2. s = (a \o <<e>>) \o b
  <2>1. Len(s) \in Nat /\ p \in Nat
    BY LenProperties
  <2>2. SubSeq(s, 1, p) = a \o <<e>>
    BY <2>1, SubSeqRecursiveSecond
  <2>3. SubSeq(s, 1, p) \o b = SubSeq(s, 1, Len(s))
    BY <2>1, ConcatAdjacentSubSeq
  <2> QED BY <2>2, <2>3, SubSeqFull
<1> HIDE DEF a, b, e
<1>3. Count((a \o <<e>>) \o b, T) = Count(a \o <<e>>, T) + Count(b, T)
  BY <1>1, CountConcat
<1>4. Count(a \o <<e>>, T) = Count(a, T) + Count(<<e>>, T)
  BY <1>1, CountConcat
<1>5. Count(a \o b, T) = Count(a, T) + Count(b, T)
  BY <1>1, CountConcat
<1>6. Count(a, T) \in Nat /\ Count(b, T) \in Nat
  BY <1>1, CountType
<1>7. Count(<<e>>, T) = IF e \in T THEN 1 ELSE 0
  BY CountSmall
<1>8. a \o b \in Seq(S)
  BY <1>1
<1>9. Count(s, T) = Count(a \o b, T) + IF e \in T THEN 1 ELSE 0
  BY <1>2, <1>3, <1>4, <1>5, <1>6, <1>7
<1> QED BY <1>8, <1>9 DEF a, b, e

-----------------------------------------------------------------------------
(* The same for functions: for how many elements of its domain the value   *)
(* of a function lies in a set.                                            *)

Tally(f, T) == Cardinality({x \in DOMAIN f : f[x] \in T})

\* It is a natural number, zero exactly if no value does.
LEMMA TallyType ==
  ASSUME NEW D, IsFiniteSet(D), NEW S, NEW f \in [D -> S], NEW T
  PROVE  /\ Tally(f, T) \in Nat
         /\ Tally(f, T) = 0 <=> \A x \in D : f[x] \notin T
<1> DEFINE A == {x \in D : f[x] \in T}
<1>1. IsFiniteSet(A)
  BY FS_Subset
<1>2. Tally(f, T) = Cardinality(A)
  BY DEF Tally
<1>3. Cardinality(A) \in Nat /\ (Cardinality(A) = 0 <=> A = {})
  BY <1>1, FS_CardinalityType, FS_EmptySet
<1> QED BY <1>2, <1>3

\* One value of the function changes.
LEMMA TallyChange ==
  ASSUME NEW D, IsFiniteSet(D), NEW S, NEW f \in [D -> S], NEW g \in [D -> S], NEW T, NEW x \in D,
         \A y \in D : y # x => g[y] = f[y]
  PROVE  /\ (f[x] \in T <=> g[x] \in T) => Tally(g, T) = Tally(f, T)
         /\ f[x] \notin T /\ g[x] \in T => Tally(g, T) = Tally(f, T) + 1
         /\ f[x] \in T /\ g[x] \notin T => Tally(f, T) = Tally(g, T) + 1
<1> DEFINE A == {y \in D : f[y] \in T}
           B == {y \in D : g[y] \in T}
<1>1. IsFiniteSet(A) /\ IsFiniteSet(B)
  BY FS_Subset
<1>2. Tally(f, T) = Cardinality(A) /\ Tally(g, T) = Cardinality(B)
  BY DEF Tally
<1>3. (f[x] \in T <=> g[x] \in T) => A = B
  OBVIOUS
<1>4. f[x] \notin T /\ g[x] \in T => B = A \cup {x} /\ x \notin A
  OBVIOUS
<1>5. f[x] \in T /\ g[x] \notin T => A = B \cup {x} /\ x \notin B
  OBVIOUS
<1> HIDE DEF A, B
<1>6. x \notin A => Cardinality(A \cup {x}) = Cardinality(A) + 1
  BY <1>1, FS_AddElement
<1>7. x \notin B => Cardinality(B \cup {x}) = Cardinality(B) + 1
  BY <1>1, FS_AddElement
<1> QED BY <1>2, <1>3, <1>4, <1>5, <1>6, <1>7

-----------------------------------------------------------------------------
(* What the closures of a sequence carry. *)

\* CarriedTo(w, k, O) collects the operations of w from the front.
LEMMA CarriedToIs ==
  ASSUME NEW C, NEW w \in Seq(C), NEW k, NEW O
  PROVE  /\ Len(w) \in Nat /\ CarriedTo(w, k, O)[0] = <<>>
         /\ \A n \in 1..Len(w) :
              CarriedTo(w, k, O)[n] = IF w[n].k = k /\ w[n].op \in O
                                      THEN Append(CarriedTo(w, k, O)[n - 1], w[n].op) ELSE CarriedTo(w, k, O)[n - 1]
         /\ \A n \in 0..Len(w) : CarriedTo(w, k, O)[n] \in Seq(O)
<1> DEFINE l == Len(w)
           Hit(n) == w[n].k = k /\ w[n].op \in O
           P(g) == g = [n \in 0..l |-> IF n = 0 THEN <<>>
                                       ELSE IF w[n].k = k /\ w[n].op \in O THEN Append(g[n - 1], w[n].op)
                                       ELSE g[n - 1]]
           Good(g, m) == /\ g[0] = <<>>
                         /\ \A n \in 1..m : g[n] = IF Hit(n) THEN Append(g[n - 1], w[n].op) ELSE g[n - 1]
           K == {m \in 0..l : \E g \in [0..m -> Seq(O)] : Good(g, m)}
<1>1. l \in Nat
  OBVIOUS
<1>2. 0 \in K
  <2> DEFINE g == [n \in 0..0 |-> <<>>]
  <2>1. g \in [0..0 -> Seq(O)] /\ g[0] = <<>>
    OBVIOUS
  <2>2. Good(g, 0)
    BY <2>1
  <2>3. 0 \in 0..l
    BY <1>1
  <2> HIDE DEF g, Good, l
  <2>4. \E x \in [0..0 -> Seq(O)] : Good(x, 0)
    BY <2>1, <2>2
  <2> QED BY <2>3, <2>4
<1>3. ASSUME NEW m \in 0..l, m < l, m \in K PROVE m + 1 \in K
  <2>1. PICK g \in [0..m -> Seq(O)] : Good(g, m)
    BY <1>3
  <2> DEFINE x == IF Hit(m + 1) THEN Append(g[m], w[m + 1].op) ELSE g[m]
  <2>2. m \in Nat /\ m + 1 \in 1..l /\ g[m] \in Seq(O)
    BY <1>1, <1>3
  <2>a. x \in Seq(O)
    BY <2>2
  <2> HIDE DEF Hit
  <2> DEFINE h == [n \in 0..(m + 1) |-> IF n = m + 1 THEN x ELSE g[n]]
  <2>3. \A n \in 0..(m + 1) : n # m + 1 => n \in 0..m
    BY <2>2
  <2>4. h \in [0..(m + 1) -> Seq(O)]
    <3> HIDE DEF x
    <3> QED BY <2>2, <2>3, <2>a
  <2>5. h[0] = <<>>
    BY <2>1, <2>2
  <2>6. ASSUME NEW n \in 1..(m + 1) PROVE h[n] = IF Hit(n) THEN Append(h[n - 1], w[n].op) ELSE h[n - 1]
    <3>1. CASE n = m + 1
      <4>1. n - 1 = m /\ m \in 0..(m + 1) /\ m # m + 1
        BY <2>2, <3>1
      <4>2. h[m] = g[m] /\ h[m + 1] = x
        BY <2>2, <4>1
      <4> HIDE DEF h
      <4> QED BY <3>1, <4>1, <4>2
    <3>2. CASE n # m + 1
      <4>1. n \in 1..m /\ n - 1 \in 0..m /\ n - 1 # m + 1 /\ n \in 0..(m + 1) /\ n - 1 \in 0..(m + 1)
        BY <2>2, <3>2
      <4>2. h[n] = g[n] /\ h[n - 1] = g[n - 1]
        BY <3>2, <4>1
      <4> HIDE DEF h
      <4> QED BY <2>1, <4>1, <4>2
    <3> QED BY <3>1, <3>2
  <2> HIDE DEF h
  <2>7. Good(h, m + 1)
    BY <2>5, <2>6
  <2>8. m + 1 \in 0..l
    BY <2>2
  <2> QED BY <2>4, <2>7, <2>8
<1>4. l \in K
  <2>1. l \in 0..l
    BY <1>1
  <2> HIDE DEF K, l
  <2> QED BY <1>1, <1>2, <1>3, <2>1, Climb
<1>5. PICK g \in [0..l -> Seq(O)] : Good(g, l)
  BY <1>4
<1>6. P(g)
  <2>1. \A n \in 0..l : n # 0 => n \in 1..l
    BY <1>1
  <2> QED BY <1>5, <2>1
<1>7. CarriedTo(w, k, O) = CHOOSE f : P(f)
  BY DEF CarriedTo
<1> DEFINE u == CarriedTo(w, k, O)
<1>8. P(u)
  <2> HIDE DEF P
  <2> QED BY <1>6, <1>7
<1> HIDE DEF u
<1>9. u[0] = <<>> /\ \A n \in 1..l : u[n] = IF Hit(n) THEN Append(u[n - 1], w[n].op) ELSE u[n - 1]
  <2>1. 0 \in 0..l /\ \A n \in 1..l : n \in 0..l /\ n # 0
    BY <1>1
  <2> QED BY <1>8, <2>1
<1>10. \A n \in 0..l : u[n] \in Seq(O)
  <2> DEFINE J == {n \in 0..l : u[n] \in Seq(O)}
  <2>1. 0 \in J
    <3>1. <<>> \in Seq(O)
      OBVIOUS
    <3>2. u[0] \in Seq(O)
      BY ONLY <3>1, <1>9
    <3> QED BY <1>1, <3>2
  <2>2. ASSUME NEW n \in 0..l, n < l, n \in J PROVE n + 1 \in J
    <3>1. n + 1 \in 1..l /\ (n + 1) - 1 = n /\ u[n] \in Seq(O)
      BY <1>1, <2>2
    <3>2. u[n + 1] = IF Hit(n + 1) THEN Append(u[n], w[n + 1].op) ELSE u[n]
      BY <1>9, <3>1
    <3>3. u[n + 1] \in Seq(O)
      BY <3>1, <3>2
    <3> QED BY <3>1, <3>3
  <2> HIDE DEF J, l
  <2>3. \A n \in 0..l : n \in J
    BY <1>1, <2>1, <2>2, Climb
  <2> QED BY <2>3 DEF J
<1> QED BY <1>1, <1>9, <1>10 DEF u

\* Nothing carries nothing.
LEMMA CarriedNone == \A k, O : Carried(<<>>, k, O) = <<>>
<1> SUFFICES ASSUME NEW k, NEW O PROVE Carried(<<>>, k, O) = <<>>
  OBVIOUS
<1>1. \A C, w : w \in Seq(C) => CarriedTo(w, k, O)[0] = <<>>
  <2> SUFFICES ASSUME NEW C, NEW w \in Seq(C) PROVE CarriedTo(w, k, O)[0] = <<>>
    OBVIOUS
  <2> QED BY CarriedToIs
<1>2. <<>> \in Seq({}) /\ Len(<<>>) = 0
  OBVIOUS
<1> QED BY <1>1, <1>2 DEF Carried

\* A prefix carries what the whole carries up to there, if the two sets agree
\* on what it carries.
LEMMA CarriedPrefix ==
  ASSUME NEW C, NEW w \in Seq(C), NEW v \in Seq(C), NEW k, NEW O, NEW U,
         Len(w) <= Len(v), \A i \in 1..Len(w) : w[i] = v[i],
         \A i \in 1..Len(w) : w[i].k = k => (w[i].op \in O <=> w[i].op \in U)
  PROVE  \A n \in 0..Len(w) : CarriedTo(v, k, U)[n] = CarriedTo(w, k, O)[n]
<1> DEFINE l == Len(w)
           a == CarriedTo(w, k, O)
           b == CarriedTo(v, k, U)
           K == {n \in 0..l : b[n] = a[n]}
<1>1. /\ l \in Nat /\ a[0] = <<>>
      /\ \A n \in 1..l : a[n] = IF w[n].k = k /\ w[n].op \in O THEN Append(a[n - 1], w[n].op) ELSE a[n - 1]
  BY CarriedToIs
<1>2. /\ Len(v) \in Nat /\ b[0] = <<>>
      /\ \A n \in 1..Len(v) : b[n] = IF v[n].k = k /\ v[n].op \in U THEN Append(b[n - 1], v[n].op) ELSE b[n - 1]
  BY CarriedToIs
<1>3. \A n \in 1..l : n \in 1..Len(v) /\ w[n] = v[n] /\ (w[n].k = k => (w[n].op \in O <=> w[n].op \in U))
  BY <1>1, <1>2
<1> HIDE DEF l, a, b
<1>4. 0 \in K
  BY <1>1, <1>2
<1>5. ASSUME NEW n \in 0..l, n < l, n \in K PROVE n + 1 \in K
  <2>1. n + 1 \in 1..l /\ (n + 1) - 1 = n /\ b[n] = a[n] /\ n + 1 \in 0..l
    BY <1>1, <1>5
  <2> DEFINE c == w[n + 1]
  <2>2. /\ a[n + 1] = IF c.k = k /\ c.op \in O THEN Append(a[n], c.op) ELSE a[n]
        /\ b[n + 1] = IF c.k = k /\ c.op \in U THEN Append(b[n], c.op) ELSE b[n]
        /\ c.k = k => (c.op \in O <=> c.op \in U)
    BY <1>1, <1>2, <1>3, <2>1
  <2> HIDE DEF c
  <2> QED BY <2>1, <2>2
<1> HIDE DEF K
<1>6. \A n \in 0..l : n \in K
  BY <1>1, <1>4, <1>5, Climb
<1> QED BY <1>6 DEF K, l, a, b

\* It does not matter which operations nobody carries.
LEMMA CarriedSame ==
  ASSUME NEW C, NEW w \in Seq(C), NEW k, NEW O, NEW U,
         \A i \in 1..Len(w) : w[i].k = k => (w[i].op \in O <=> w[i].op \in U)
  PROVE  Carried(w, k, U) = Carried(w, k, O)
<1>1. Len(w) \in Nat /\ Len(w) \in 0..Len(w) /\ Len(w) <= Len(w) /\ \A i \in 1..Len(w) : w[i] = w[i]
  OBVIOUS
<1>2. \A n \in 0..Len(w) : CarriedTo(w, k, U)[n] = CarriedTo(w, k, O)[n]
  BY <1>1, CarriedPrefix
<1> QED BY <1>1, <1>2 DEF Carried

\* What is carried are operations of the set.
LEMMA CarriedType ==
  ASSUME NEW C, NEW w \in Seq(C), NEW k, NEW O
  PROVE  Carried(w, k, O) \in Seq(O)
<1>1. Len(w) \in Nat /\ Len(w) \in 0..Len(w) /\ \A n \in 0..Len(w) : CarriedTo(w, k, O)[n] \in Seq(O)
  BY CarriedToIs
<1> QED BY <1>1 DEF Carried

\* A set of operations none of which is carried.
LEMMA CarriedEmpty ==
  ASSUME NEW C, NEW w \in Seq(C), NEW k, NEW O, \A i \in 1..Len(w) : w[i].k = k => w[i].op \notin O
  PROVE  Carried(w, k, O) = <<>>
<1>1. Carried(w, k, O) = Carried(w, k, {})
  BY CarriedSame
<1>2. Carried(w, k, {}) \in Seq({})
  BY CarriedType
<1>3. \A s \in Seq({}) : s = <<>>
  <2> SUFFICES ASSUME NEW s \in Seq({}) PROVE s = <<>>
    OBVIOUS
  <2>1. Len(s) \in Nat /\ \A i \in 1..Len(s) : s[i] \in {}
    OBVIOUS
  <2>2. Len(s) = 0
    BY <2>1
  <2> QED BY <2>2
<1> QED BY <1>1, <1>2, <1>3

\* Two sequences, one behind the other.
LEMMA CarriedConcat ==
  ASSUME NEW C, NEW w \in Seq(C), NEW v \in Seq(C), NEW k, NEW O
  PROVE  Carried(w \o v, k, O) = Carried(w, k, O) \o Carried(v, k, O)
<1> DEFINE u == w \o v
           l == Len(w)
           m == Len(v)
           a == CarriedTo(w, k, O)
           b == CarriedTo(v, k, O)
           c == CarriedTo(u, k, O)
           K == {n \in 0..m : c[l + n] = a[l] \o b[n]}
<1>1. /\ l \in Nat /\ m \in Nat /\ u \in Seq(C) /\ Len(u) = l + m
      /\ (\A i \in 1..l : w[i] = u[i]) /\ \A i \in 1..m : u[l + i] = v[i]
  OBVIOUS
<1> HIDE DEF u
<1>2. /\ b[0] = <<>> /\ (\A n \in 0..m : b[n] \in Seq(O))
      /\ \A n \in 1..m : b[n] = IF v[n].k = k /\ v[n].op \in O THEN Append(b[n - 1], v[n].op) ELSE b[n - 1]
  BY CarriedToIs
<1>3. \A n \in 1..Len(u) : c[n] = IF u[n].k = k /\ u[n].op \in O THEN Append(c[n - 1], u[n].op) ELSE c[n - 1]
  BY <1>1, CarriedToIs
<1>4. a[l] \in Seq(O) /\ c[l] = a[l]
  <2>1. l \in 0..l /\ l <= Len(u)
    BY <1>1
  <2>2. \A n \in 0..l : a[n] \in Seq(O)
    BY CarriedToIs
  <2>3. \A n \in 0..l : c[n] = a[n]
    <3>1. Len(w) <= Len(u) /\ \A i \in 1..Len(w) : w[i] = u[i]
      BY <1>1, <2>1
    <3>2. u \in Seq(C)
      BY <1>1
    <3> QED BY ONLY <3>1, <3>2, w \in Seq(C), CarriedPrefix
  <2> QED BY <2>1, <2>2, <2>3
<1> HIDE DEF l, m, a, b, c
<1>5. 0 \in K
  <2>1. l + 0 = l /\ 0 \in 0..m
    BY <1>1
  <2>2. a[l] \o b[0] = a[l]
    BY <1>2, <1>4
  <2> QED BY <1>4, <2>1, <2>2
<1>6. ASSUME NEW n \in 0..m, n < m, n \in K PROVE n + 1 \in K
  <2>1. /\ n + 1 \in 1..m /\ (n + 1) - 1 = n /\ n + 1 \in 0..m /\ c[l + n] = a[l] \o b[n] /\ b[n] \in Seq(O)
        /\ l + (n + 1) \in 1..(l + m) /\ (l + (n + 1)) - 1 = l + n
    <3>1. n \in Nat /\ c[l + n] = a[l] \o b[n]
      <4>1. n \in Nat
        BY <1>1
      <4>2. c[l + n] = a[l] \o b[n]
        BY <1>6, Zenon
      <4> QED BY <4>1, <4>2
    <3>2. /\ n + 1 \in 1..m /\ (n + 1) - 1 = n /\ n + 1 \in 0..m
          /\ l + (n + 1) \in 1..(l + m) /\ (l + (n + 1)) - 1 = l + n
      BY <1>1, <1>6, <3>1
    <3> QED BY <1>2, <3>1, <3>2
  <2> DEFINE x == v[n + 1]
  <2>2. /\ b[n + 1] = IF x.k = k /\ x.op \in O THEN Append(b[n], x.op) ELSE b[n]
        /\ c[l + (n + 1)] = IF x.k = k /\ x.op \in O THEN Append(c[l + n], x.op) ELSE c[l + n]
    BY <1>1, <1>2, <1>3, <2>1
  <2> HIDE DEF x
  <2>3. CASE x.k = k /\ x.op \in O
    <3>1. Append(a[l] \o b[n], x.op) = a[l] \o Append(b[n], x.op)
      <4>1. a[l] \in Seq(O) /\ b[n] \in Seq(O) /\ x.op \in O
        BY <1>4, <2>1, <2>3
      <4>2. \A p, q \in Seq(O), y \in O : Append(p \o q, y) = p \o Append(q, y)
        <5> SUFFICES ASSUME NEW p \in Seq(O), NEW q \in Seq(O), NEW y \in O
                     PROVE  Append(p \o q, y) = p \o Append(q, y)
          OBVIOUS
        <5>1. Append(p \o q, y) = (p \o q) \o <<y>> /\ Append(q, y) = q \o <<y>> /\ <<y>> \in Seq(O)
          BY ONLY p \in Seq(O), q \in Seq(O), y \in O
        <5>2. (p \o q) \o <<y>> = p \o (q \o <<y>>)
          BY ONLY p \in Seq(O), q \in Seq(O), <5>1, ConcatAssociative
        <5> QED BY ONLY <5>1, <5>2
      <4> QED BY ONLY <4>1, <4>2
    <3> QED BY <2>1, <2>2, <2>3, <3>1
  <2>4. CASE ~(x.k = k /\ x.op \in O)
    BY <2>1, <2>2, <2>4
  <2> QED BY <2>3, <2>4
<1> HIDE DEF K
<1>7. \A n \in 0..m : n \in K
  BY <1>1, <1>5, <1>6, Climb
<1>8. m \in 0..m /\ Len(u) = l + m
  BY <1>1
<1>9. c[l + m] = a[l] \o b[m]
  BY <1>7, <1>8 DEF K
<1> QED BY <1>8, <1>9 DEF Carried, u, l, m, a, b, c

\* One closure.
LEMMA CarriedOne ==
  ASSUME NEW C, NEW c \in C, NEW k, NEW O
  PROVE  Carried(<<c>>, k, O) = IF c.k = k /\ c.op \in O THEN <<c.op>> ELSE <<>>
<1> DEFINE w == <<c>>
<1>1. w \in Seq(C) /\ Len(w) = 1 /\ w[1] = c /\ 1 \in 1..1 /\ 1 - 1 = 0
  OBVIOUS
<1> HIDE DEF w
<1>2. /\ CarriedTo(w, k, O)[0] = <<>>
      /\ CarriedTo(w, k, O)[1] = IF c.k = k /\ c.op \in O THEN Append(CarriedTo(w, k, O)[0], c.op) ELSE CarriedTo(w, k, O)[0]
  <2>1. /\ CarriedTo(w, k, O)[0] = <<>>
        /\ \A n \in 1..Len(w) : CarriedTo(w, k, O)[n] = IF w[n].k = k /\ w[n].op \in O
                                THEN Append(CarriedTo(w, k, O)[n - 1], w[n].op) ELSE CarriedTo(w, k, O)[n - 1]
    BY <1>1, CarriedToIs
  <2> QED BY <1>1, <2>1
<1>3. Append(<<>>, c.op) = <<c.op>>
  OBVIOUS
<1> QED BY <1>1, <1>2, <1>3 DEF Carried, w

\* A closure is posted.
LEMMA CarriedAppend ==
  ASSUME NEW C, NEW w \in Seq(C), NEW c \in C, NEW k, NEW O
  PROVE  Carried(Append(w, c), k, O) = IF c.k = k /\ c.op \in O THEN Append(Carried(w, k, O), c.op) ELSE Carried(w, k, O)
<1> DEFINE a == Carried(w, k, O)
           v == <<c>>
<1>1. Append(w, c) = w \o v /\ v \in Seq(C)
  OBVIOUS
<1>2. a \in Seq(O)
  BY CarriedType
<1>3. Carried(v, k, O) = IF c.k = k /\ c.op \in O THEN <<c.op>> ELSE <<>>
  BY CarriedOne
<1> HIDE DEF v
<1>4. Carried(w \o v, k, O) = a \o Carried(v, k, O)
  BY <1>1, CarriedConcat
<1> HIDE DEF a
<1>5. a \o <<>> = a /\ (c.op \in O => a \o <<c.op>> = Append(a, c.op))
  BY <1>2
<1> QED BY <1>1, <1>3, <1>4, <1>5 DEF a

\* The oldest closure is taken.
LEMMA CarriedTail ==
  ASSUME NEW C, NEW w \in Seq(C), w # <<>>, NEW k, NEW O
  PROVE  Carried(w, k, O) = (IF Head(w).k = k /\ Head(w).op \in O THEN <<Head(w).op>> ELSE <<>>) \o Carried(Tail(w), k, O)
<1> DEFINE c == Head(w)
           v == <<c>>
           t == Tail(w)
<1>1. c \in C /\ v \in Seq(C) /\ t \in Seq(C) /\ w = v \o t
  OBVIOUS
<1>2. Carried(v, k, O) = IF c.k = k /\ c.op \in O THEN <<c.op>> ELSE <<>>
  BY <1>1, CarriedOne
<1> HIDE DEF v, t, c
<1>3. Carried(v \o t, k, O) = Carried(v, k, O) \o Carried(t, k, O)
  BY <1>1, CarriedConcat
<1> QED BY <1>1, <1>2, <1>3 DEF c, t

\* Closures of one kind, one for each of a sequence of operations.
LEMMA CarriedAll ==
  ASSUME NEW C, NEW w \in Seq(C), NEW k, NEW O, NEW s \in Seq(O), Len(w) = Len(s),
         \A i \in 1..Len(w) : w[i].k = k /\ w[i].op = s[i]
  PROVE  Carried(w, k, O) = s
<1> DEFINE l == Len(w)
           a == CarriedTo(w, k, O)
           K == {n \in 0..l : Len(a[n]) = n /\ \A j \in 1..n : a[n][j] = s[j]}
<1>1. /\ l \in Nat /\ a[0] = <<>> /\ (\A n \in 0..l : a[n] \in Seq(O))
      /\ \A n \in 1..l : a[n] = IF w[n].k = k /\ w[n].op \in O THEN Append(a[n - 1], w[n].op) ELSE a[n - 1]
  BY CarriedToIs
<1>2. \A n \in 1..l : w[n].k = k /\ w[n].op = s[n] /\ s[n] \in O
  OBVIOUS
<1>3. l = Len(s)
  OBVIOUS
<1> HIDE DEF l, a
<1>4. 0 \in K
  BY <1>1
<1>5. ASSUME NEW n \in 0..l, n < l, n \in K PROVE n + 1 \in K
  <2>1. n \in Nat /\ n + 1 \in 1..l /\ (n + 1) - 1 = n /\ n + 1 \in 0..l
    BY <1>1, <1>5
  <2>2. Len(a[n]) = n /\ (\A j \in 1..n : a[n][j] = s[j]) /\ a[n] \in Seq(O)
    BY <1>1, <1>5
  <2>3. a[n + 1] = Append(a[n], s[n + 1]) /\ s[n + 1] \in O
    BY <1>1, <1>2, <2>1
  <2> DEFINE x == a[n]
             e == s[n + 1]
  <2>4. Len(Append(x, e)) = n + 1 /\ \A j \in 1..(n + 1) : Append(x, e)[j] = IF j = n + 1 THEN e ELSE x[j]
    BY <2>1, <2>2
  <2> HIDE DEF x, e
  <2>5. Len(a[n + 1]) = n + 1 /\ \A j \in 1..(n + 1) : a[n + 1][j] = IF j = n + 1 THEN e ELSE x[j]
    BY <2>3, <2>4 DEF x, e
  <2>6. \A j \in 1..(n + 1) : a[n + 1][j] = s[j]
    <3>1. \A j \in 1..(n + 1) : j # n + 1 => j \in 1..n
      BY <2>1
    <3> QED BY <2>2, <2>5, <3>1 DEF x, e
  <2> QED BY <2>1, <2>5, <2>6
<1> HIDE DEF K
<1>6. \A n \in 0..l : n \in K
  BY <1>1, <1>4, <1>5, Climb
<1>7. l \in 0..l
  BY <1>1
<1>8. a[l] \in Seq(O) /\ Len(a[l]) = Len(s) /\ \A j \in 1..Len(s) : a[l][j] = s[j]
  BY <1>1, <1>3, <1>6, <1>7 DEF K
<1> DEFINE x == a[l]
<1> HIDE DEF x
<1>9. x = s
  BY <1>8 DEF x
<1> QED BY <1>9 DEF Carried, x, l, a
=============================================================================
