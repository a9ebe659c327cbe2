---------------------------- MODULE BufferProofs ----------------------------
(***************************************************************************)
(* What the proofs about files and sorted arrays share: induction and      *)
(* recursion over data, made from the well-foundedness of < because the    *)
(* library's theorems take operators.                                      *)
(***************************************************************************)
EXTENDS Buffer, SequencesExt, SequenceTheorems, NaturalsInduction, WellFoundedInduction, TLAPS

\* A set of numbers has a least one.
LEMMA LeastNumber ==
  ASSUME NEW T, T \subseteq Nat, T # {}
  PROVE  \E x \in T : \A y \in T : x <= y
<1>1. IsWellFoundedOn(OpToRel(<, Nat), Nat)
  BY NatLessThanWellFounded
<1>2. PICK x \in T : \A y \in T : <<y, x>> \notin OpToRel(<, Nat)
  BY <1>1, WFMin
<1>3. \A y \in T : ~(y < x)
  BY <1>2 DEF OpToRel
<1> QED
  BY <1>3

\* Induction, for a set of numbers.
LEMMA SetInduction ==
  ASSUME NEW T, 0 \in T, \A n \in T : n \in Nat => n + 1 \in T
  PROVE  \A n \in Nat : n \in T
<1> SUFFICES ASSUME NEW m \in Nat, m \notin T PROVE FALSE
  OBVIOUS
<1> DEFINE U == {n \in Nat : n \notin T}
<1>1. PICK x \in U : \A y \in U : x <= y
  <2>1. U \subseteq Nat /\ m \in U
    OBVIOUS
  <2> HIDE DEF U
  <2> QED
    BY <2>1, LeastNumber
<1>2. x # 0 /\ x \in Nat
  OBVIOUS
<1>3. x - 1 \in Nat /\ (x - 1) + 1 = x
  BY <1>2
<1>4. x - 1 \in T
  BY <1>1, <1>3
<1> QED
  BY <1>3, <1>4

\* A definition in which the value at p is computed from the values at places
\* of a smaller measure has a solution.
Recurses(D, S, m, F) ==
  /\ F \in [D -> [[D -> S] -> S]]
  /\ \A p \in D : \A g, h \in [D -> S] :
       (\A q \in D : m[q] < m[p] => g[q] = h[q]) => F[p][g] = F[p][h]

HasSolution(D, S, F) == \E g \in [D -> S] : \A p \in D : g[p] = F[p][g]

LEMMA Recursion ==
  ASSUME NEW D, NEW S, NEW k \in Nat, NEW m \in [D -> 0..k], NEW F, Recurses(D, S, m, F),
         S # {}
  PROVE  HasSolution(D, S, F)
<1> DEFINE T == {n \in Nat : \E g \in [D -> S] : \A p \in D : m[p] < n => g[p] = F[p][g]}
<1>1. 0 \in T
  <2>1. PICK s \in S : TRUE
    OBVIOUS
  <2>2. [p \in D |-> s] \in [D -> S] /\ \A p \in D : ~(m[p] < 0)
    OBVIOUS
  <2> QED
    BY <2>2
<1>2. ASSUME NEW n \in Nat, n \in T PROVE n + 1 \in T
  <2>1. PICK g \in [D -> S] : \A p \in D : m[p] < n => g[p] = F[p][g]
    BY <1>2
  <2> DEFINE h == [p \in D |-> IF m[p] < n THEN g[p] ELSE F[p][g]]
  <2>2. \A p \in D : F[p][g] \in S
    BY DEF Recurses
  <2>3. h \in [D -> S]
    BY <2>2
  <2>4. ASSUME NEW p \in D, m[p] < n + 1 PROVE h[p] = F[p][h]
    <3>1. m[p] \in Nat /\ n \in Nat
      OBVIOUS
    <3>2. \A q \in D : m[q] < m[p] => h[q] = g[q]
      <4>1. \A q \in D : m[q] \in Nat
        OBVIOUS
      <4> QED
        BY <2>4, <3>1, <4>1
    <3>3. F[p][h] = F[p][g]
      BY <2>3, <3>2 DEF Recurses
    <3>4. h[p] = F[p][g]
      BY <2>1
    <3> QED
      BY <3>3, <3>4
  <2>5. n + 1 \in Nat
    OBVIOUS
  <2> HIDE DEF h
  <2> QED
    BY <2>3, <2>4, <2>5
<1>3. k + 1 \in T
  <2> HIDE DEF T
  <2> QED
    BY <1>1, <1>2, SetInduction
<1>4. PICK g \in [D -> S] : \A p \in D : m[p] < k + 1 => g[p] = F[p][g]
  BY <1>3
<1>5. \A p \in D : m[p] < k + 1
  OBVIOUS
<1>6. \A p \in D : g[p] = F[p][g]
  BY <1>4, <1>5
<1> QED
  BY <1>6 DEF HasSolution

LEMMA MinOf ==
  ASSUME NEW T, T \subseteq Nat, T # {}
  PROVE  Min(T) \in T /\ \A y \in T : Min(T) <= y
BY LeastNumber DEF Min

LEMMA MaxOf ==
  ASSUME NEW n \in Nat, NEW T, T \subseteq 0..n, T # {}
  PROVE  Max(T) \in T /\ \A y \in T : Max(T) >= y
<1> DEFINE U == {n - x : x \in T}
<1>1. U \subseteq Nat /\ U # {}
  OBVIOUS
<1>2. PICK u \in U : \A y \in U : u <= y
  <2> HIDE DEF U
  <2> QED
    BY <1>1, LeastNumber
<1>3. PICK x \in T : u = n - x
  OBVIOUS
<1>4. ASSUME NEW y \in T PROVE x >= y
  <2>1. n - y \in U /\ x \in 0..n /\ y \in 0..n
    OBVIOUS
  <2>2. n - x <= n - y
    BY <1>2, <1>3, <2>1
  <2> QED
    BY <2>1, <2>2
<1>5. \E z \in T : \A y \in T : z >= y
  BY <1>4
<1> QED
  BY <1>5 DEF Max

\* The places of a sequence up to the i-th, as a fold over it takes them away.
LEMMA FirstPlaces ==
  ASSUME NEW n \in Nat
  PROVE  /\ 1..0 = {} /\ \A i \in 0..n : 1..i \in SUBSET (1..n)
         /\ \A i \in 1..n : /\ 1..i # {} /\ Max(1..i) = i /\ (1..i) \ {i} = 1..i - 1
<1>1. ASSUME NEW i \in 1..n PROVE 1..i # {} /\ Max(1..i) = i /\ (1..i) \ {i} = 1..i - 1
  <2>1. 1..i \subseteq 0..n /\ 1..i # {} /\ i \in 1..i
    OBVIOUS
  <2>2. Max(1..i) \in 1..i /\ \A y \in 1..i : Max(1..i) >= y
    BY <2>1, MaxOf
  <2>3. Max(1..i) = i
    BY <2>1, <2>2
  <2>4. (1..i) \ {i} = 1..i - 1
    OBVIOUS
  <2> QED
    BY <2>1, <2>3, <2>4
<1>2. 1..0 = {} /\ \A i \in 0..n : 1..i \in SUBSET (1..n)
  OBVIOUS
<1> QED
  BY <1>1, <1>2

\* The function that a fold over a sequence of length n is defined by exists.
FoldIn(n, A, b, step) ==
  \E it \in [SUBSET (1..n) -> A] :
    \A T \in SUBSET (1..n) : it[T] = IF T = {} THEN b ELSE step[Max(T)][it[T \ {Max(T)}]]

LEMMA FoldExists ==
  ASSUME NEW n \in Nat, NEW A, NEW b \in A, NEW step \in [1..n -> [A -> A]]
  PROVE  FoldIn(n, A, b, step)
<1> DEFINE D == SUBSET (1..n)
           m == [T \in D |-> IF T = {} THEN 0 ELSE Max(T)]
           F == [T \in D |-> [g \in [D -> A] |->
                   IF T = {} THEN b ELSE step[Max(T)][g[T \ {Max(T)}]]]]
<1>1. ASSUME NEW T \in D, T # {}
      PROVE  /\ Max(T) \in 1..n /\ T \ {Max(T)} \in D /\ m[T] = Max(T)
             /\ m[T \ {Max(T)}] < m[T]
  <2>1. T \subseteq 0..n /\ T \subseteq 1..n
    OBVIOUS
  <2>2. Max(T) \in T /\ \A y \in T : Max(T) >= y
    BY <1>1, <2>1, MaxOf
  <2>3. Max(T) \in 1..n /\ T \ {Max(T)} \in D /\ m[T] = Max(T)
    BY <1>1, <2>1, <2>2
  <2> DEFINE U == T \ {Max(T)}
  <2>4. CASE U = {}
    BY <2>3, <2>4
  <2>5. CASE U # {}
    <3>1. U \subseteq 0..n /\ m[U] = Max(U)
      BY <2>1, <2>3, <2>5
    <3>2. Max(U) \in U
      <4> HIDE DEF U
      <4> QED
        BY <2>5, <3>1, MaxOf
    <3>3. Max(U) # Max(T) /\ Max(T) >= Max(U) /\ Max(U) \in 1..n
      BY <2>1, <2>2, <3>2
    <3> QED
      BY <2>3, <3>1, <3>3
  <2> QED
    BY <2>3, <2>4, <2>5
<1>2. m \in [D -> 0..n]
  <2>1. \A T \in D : (IF T = {} THEN 0 ELSE Max(T)) \in 0..n
    <3>1. \A T \in D : T # {} => Max(T) \in 1..n
      BY <1>1
    <3> HIDE DEF D
    <3> QED
      BY <3>1
  <2> QED
    BY <2>1
<1>3. F \in [D -> [[D -> A] -> A]]
  <2>1. ASSUME NEW T \in D, NEW g \in [D -> A]
        PROVE  (IF T = {} THEN b ELSE step[Max(T)][g[T \ {Max(T)}]]) \in A
    <3>1. CASE T # {}
      <4>1. Max(T) \in 1..n /\ T \ {Max(T)} \in D
        BY <1>1, <3>1
      <4> HIDE DEF D
      <4>2. g[T \ {Max(T)}] \in A
        BY <4>1
      <4> QED
        BY <3>1, <4>1, <4>2
    <3> QED
      BY <3>1
  <2> HIDE DEF D
  <2> QED
    BY <2>1
<1>4. ASSUME NEW T \in D, NEW g \in [D -> A]
      PROVE  F[T][g] = IF T = {} THEN b ELSE step[Max(T)][g[T \ {Max(T)}]]
  OBVIOUS
<1> HIDE DEF D, m, F
<1>5. Recurses(D, A, m, F)
  <2>1. ASSUME NEW T \in D, NEW g \in [D -> A], NEW h \in [D -> A],
               \A q \in D : m[q] < m[T] => g[q] = h[q]
        PROVE  F[T][g] = F[T][h]
    <3>1. CASE T = {}
      BY <1>4, <3>1
    <3>2. CASE T # {}
      <4>1. g[T \ {Max(T)}] = h[T \ {Max(T)}]
        BY <1>1, <2>1, <3>2
      <4> QED
        BY <1>4, <3>2, <4>1
    <3> QED
      BY <3>1, <3>2
  <2> QED
    BY <1>3, <2>1 DEF Recurses
<1>6. PICK g \in [D -> A] : \A T \in D : g[T] = F[T][g]
  <2>1. A # {}
    OBVIOUS
  <2>2. HasSolution(D, A, F)
    BY <1>2, <1>5, <2>1, Recursion
  <2> QED
    BY <2>2 DEF HasSolution
<1>7. \A T \in D : g[T] = IF T = {} THEN b ELSE step[Max(T)][g[T \ {Max(T)}]]
  BY <1>4, <1>6
<1> QED
  BY <1>7 DEF D, FoldIn

-----------------------------------------------------------------------------
(* The order of the items. *)

\* Byte i of a key, with the 0 that ends the string.
At0(key, i) == IF i <= Len(key) THEN key[i] ELSE 0

\* k comes before l: the bytes are the same up to the first that is less.
Less(k, l) ==
  \E p \in Nat \ {0} :
    /\ At0(k, p) < At0(l, p)
    /\ \A i \in 1..p - 1 : At0(k, i) = At0(l, i)

LEMMA KeyBytes ==
  ASSUME NEW k \in Keys
  PROVE  /\ k \in Seq(Byte) /\ Len(k) \in Nat
         /\ \A i \in 1..Len(k) : At0(k, i) = k[i] /\ k[i] \in Nat /\ k[i] > 0
         /\ \A i \in Nat : i > Len(k) => At0(k, i) = 0
         /\ \A i \in Nat \ {0} : At0(k, i) \in Nat
<1>1. k \in Seq(Byte \ {0})
  BY StringAssumption
<1>2. k \in Seq(Byte) /\ Len(k) \in Nat /\ DOMAIN k = 1..Len(k)
      /\ \A i \in 1..Len(k) : k[i] \in Byte \ {0}
  BY <1>1
<1>3. ASSUME NEW i \in 1..Len(k) PROVE At0(k, i) = k[i] /\ k[i] \in Nat /\ k[i] > 0
  <2>1. k[i] \in Byte \ {0} /\ i <= Len(k)
    BY <1>2
  <2>2. At0(k, i) = k[i]
    BY <2>1 DEF At0
  <2>3. \A x \in Byte \ {0} : x \in Nat /\ x > 0
    BY DEF Byte
  <2> QED
    BY <2>1, <2>2, <2>3
<1>4. \A i \in Nat : i > Len(k) => At0(k, i) = 0
  BY <1>2 DEF At0
<1>5. \A i \in Nat \ {0} : At0(k, i) \in Nat
  BY <1>2, <1>3 DEF At0
<1> QED
  BY <1>2, <1>3, <1>4, <1>5

\* memcmp and the lengths tell which of two keys comes first.
LEMMA CmpKeyIs ==
  ASSUME NEW k \in Keys, NEW l \in Keys
  PROVE  \/ CmpKey(k, l) = -1 /\ Less(k, l)
         \/ CmpKey(k, l) = 1 /\ Less(l, k)
         \/ CmpKey(k, l) = 0 /\ k = l
<1> DEFINE m == Min({Len(k), Len(l)})
           differ == {i \in 1..m : k[i] # l[i]}
           Order(x, y) == IF x < y THEN -1 ELSE IF x > y THEN 1 ELSE 0
<1>1. CmpKey(k, l) = IF differ = {} THEN Order(Len(k), Len(l))
                     ELSE Order(k[Min(differ)], l[Min(differ)])
  BY DEF CmpKey
<1>2. /\ Len(k) \in Nat /\ Len(l) \in Nat
      /\ k \in Seq(Byte) /\ l \in Seq(Byte)
      /\ \A i \in 1..Len(k) : At0(k, i) = k[i] /\ k[i] \in Nat /\ k[i] > 0
      /\ \A i \in 1..Len(l) : At0(l, i) = l[i] /\ l[i] \in Nat /\ l[i] > 0
      /\ \A i \in Nat : i > Len(k) => At0(k, i) = 0
      /\ \A i \in Nat : i > Len(l) => At0(l, i) = 0
  BY KeyBytes
<1>3. m \in Nat /\ m <= Len(k) /\ m <= Len(l) /\ (m = Len(k) \/ m = Len(l))
  <2>1. {Len(k), Len(l)} \subseteq Nat /\ {Len(k), Len(l)} # {}
    BY <1>2
  <2>2. m \in {Len(k), Len(l)} /\ \A y \in {Len(k), Len(l)} : m <= y
    BY <2>1, MinOf
  <2> QED
    BY <1>2, <2>2
<1> HIDE DEF m
<1>4. CASE differ = {}
  <2>1. \A i \in 1..m : At0(k, i) = At0(l, i)
    BY <1>2, <1>3, <1>4
  <2>2. CASE Len(k) < Len(l)
    <3>1. m = Len(k) /\ m + 1 \in Nat \ {0} /\ (m + 1) - 1 = m
      BY <1>2, <1>3, <2>2
    <3>2. At0(k, m + 1) < At0(l, m + 1)
      BY <1>2, <2>2, <3>1
    <3>3. Less(k, l)
      BY <2>1, <3>1, <3>2 DEF Less
    <3>4. CmpKey(k, l) = -1
      BY <1>1, <1>4, <2>2
    <3> QED
      BY <3>3, <3>4
  <2>3. CASE Len(l) < Len(k)
    <3>1. m = Len(l) /\ m + 1 \in Nat \ {0} /\ (m + 1) - 1 = m
      BY <1>2, <1>3, <2>3
    <3>2. At0(l, m + 1) < At0(k, m + 1)
      BY <1>2, <2>3, <3>1
    <3>3. Less(l, k)
      BY <2>1, <3>1, <3>2 DEF Less
    <3>4. CmpKey(k, l) = 1
      BY <1>1, <1>2, <1>4, <2>3
    <3> QED
      BY <3>3, <3>4
  <2>4. CASE Len(l) = Len(k)
    <3>1. m = Len(k) /\ \A i \in 1..Len(k) : k[i] = l[i]
      BY <1>2, <1>3, <1>4, <2>4
    <3>2. k = l
      BY <1>2, <2>4, <3>1
    <3>3. CmpKey(k, l) = 0
      BY <1>1, <1>2, <1>4, <2>4
    <3> QED
      BY <3>2, <3>3
  <2> QED
    BY <1>2, <2>2, <2>3, <2>4
<1>5. CASE differ # {}
  <2> DEFINE p == Min(differ)
  <2>1. p \in differ /\ \A i \in differ : p <= i
    <3>1. differ \subseteq Nat
      BY <1>3
    <3> HIDE DEF differ
    <3> QED
      BY <1>5, <3>1, MinOf
  <2> HIDE DEF p
  <2>2. p \in 1..m /\ k[p] # l[p] /\ p \in Nat \ {0}
    BY <1>3, <2>1
  <2>3. \A i \in 1..p - 1 : At0(k, i) = At0(l, i)
    <3>1. \A i \in 1..p - 1 : i \in 1..m /\ i \notin differ
      BY <1>3, <2>1, <2>2
    <3> QED
      BY <1>2, <1>3, <3>1
  <2>4. At0(k, p) = k[p] /\ At0(l, p) = l[p] /\ k[p] \in Nat /\ l[p] \in Nat
    BY <1>2, <1>3, <2>2
  <2>5. CmpKey(k, l) = Order(k[p], l[p])
    BY <1>1, <1>5 DEF p
  <2> HIDE DEF differ
  <2>6. CASE k[p] < l[p]
    BY <2>2, <2>3, <2>4, <2>5, <2>6 DEF Less
  <2>7. CASE k[p] > l[p]
    BY <2>2, <2>3, <2>4, <2>5, <2>7 DEF Less
  <2> QED
    BY <2>2, <2>4, <2>6, <2>7
<1> QED
  BY <1>4, <1>5

LEMMA LessOrder ==
  ASSUME NEW k \in Keys, NEW l \in Keys, Less(k, l)
  PROVE  /\ k # l /\ ~Less(l, k)
         /\ \A q \in Keys : Less(l, q) => Less(k, q)
<1>1. \A i \in Nat \ {0} : At0(k, i) \in Nat /\ At0(l, i) \in Nat
  BY KeyBytes
<1>2. PICK p \in Nat \ {0} : /\ At0(k, p) < At0(l, p)
                             /\ \A i \in 1..p - 1 : At0(k, i) = At0(l, i)
  BY DEF Less
<1>3. k # l
  BY <1>1, <1>2
<1>4. ASSUME Less(l, k) PROVE FALSE
  <2>1. PICK r \in Nat \ {0} : /\ At0(l, r) < At0(k, r)
                               /\ \A i \in 1..r - 1 : At0(l, i) = At0(k, i)
    BY <1>4 DEF Less
  <2>2. CASE p < r
    <3>1. p \in 1..r - 1
      BY <2>2
    <3> QED
      BY <1>1, <1>2, <2>1, <3>1
  <2>3. CASE r < p
    <3>1. r \in 1..p - 1
      BY <2>3
    <3> QED
      BY <1>1, <1>2, <2>1, <3>1
  <2>4. CASE r = p
    BY <1>1, <1>2, <2>1, <2>4
  <2> QED
    BY <2>2, <2>3, <2>4
<1>5. ASSUME NEW q \in Keys, Less(l, q) PROVE Less(k, q)
  <2>1. PICK r \in Nat \ {0} : /\ At0(l, r) < At0(q, r)
                               /\ \A i \in 1..r - 1 : At0(l, i) = At0(q, i)
    BY <1>5 DEF Less
  <2>2. \A i \in Nat \ {0} : At0(q, i) \in Nat
    BY KeyBytes
  <2>3. CASE p < r
    <3>1. p \in 1..r - 1 /\ \A i \in 1..p - 1 : i \in 1..r - 1
      BY <2>3
    <3>2. At0(k, p) < At0(q, p) /\ \A i \in 1..p - 1 : At0(k, i) = At0(q, i)
      BY <1>2, <2>1, <3>1
    <3> QED
      BY <3>2 DEF Less
  <2>4. CASE r < p
    <3>1. r \in 1..p - 1 /\ \A i \in 1..r - 1 : i \in 1..p - 1
      BY <2>4
    <3>2. At0(k, r) < At0(q, r) /\ \A i \in 1..r - 1 : At0(k, i) = At0(q, i)
      BY <1>2, <2>1, <3>1
    <3> QED
      BY <3>2 DEF Less
  <2>5. CASE r = p
    <3>1. At0(k, p) < At0(q, p) /\ \A i \in 1..p - 1 : At0(k, i) = At0(q, i)
      BY <1>1, <1>2, <2>1, <2>2, <2>5
    <3> QED
      BY <3>1 DEF Less
  <2> QED
    BY <2>3, <2>4, <2>5
<1> QED
  BY <1>3, <1>4, <1>5

\* One item comes before another: by the hash, then by the key.
Below(h1, k1, h2, k2) == h1 < h2 \/ (h1 = h2 /\ Less(k1, k2))

LEMMA ComparatorBIs ==
  ASSUME NEW h1 \in Nat, NEW h2 \in Nat, NEW k1 \in Keys, NEW k2 \in Keys
  PROVE  \/ ComparatorB(h1, k1, h2, k2) = -1 /\ Below(h1, k1, h2, k2)
         \/ ComparatorB(h1, k1, h2, k2) = 1 /\ Below(h2, k2, h1, k1)
         \/ ComparatorB(h1, k1, h2, k2) = 0 /\ h1 = h2 /\ k1 = k2
<1>1. CASE h1 = h2
  BY <1>1, CmpKeyIs DEF ComparatorB, Below
<1>2. CASE h1 < h2
  BY <1>2 DEF ComparatorB, Below
<1>3. CASE h1 > h2
  BY <1>3 DEF ComparatorB, Below
<1> QED
  BY <1>1, <1>2, <1>3

LEMMA BelowOrder ==
  ASSUME NEW h1 \in Nat, NEW h2 \in Nat, NEW k1 \in Keys, NEW k2 \in Keys,
         Below(h1, k1, h2, k2)
  PROVE  /\ ~(h1 = h2 /\ k1 = k2) /\ ~Below(h2, k2, h1, k1)
         /\ \A h3 \in Nat, k3 \in Keys : Below(h2, k2, h3, k3) => Below(h1, k1, h3, k3)
<1>1. CASE h1 < h2
  BY <1>1 DEF Below
<1>2. CASE h1 = h2 /\ Less(k1, k2)
  BY <1>2, LessOrder DEF Below
<1> QED
  BY <1>1, <1>2 DEF Below

\* ComparatorB orders the pairs of a hash and a key strictly.
LEMMA StrictOrder ==
  ASSUME NEW h1 \in Nat, NEW h2 \in Nat, NEW k1 \in Keys, NEW k2 \in Keys
  PROVE  /\ ComparatorB(h1, k1, h2, k2) \in {-1, 0, 1}
         /\ ComparatorB(h1, k1, h2, k2) = 1 <=> ComparatorB(h2, k2, h1, k1) = -1
         /\ ComparatorB(h1, k1, h2, k2) = 0 <=> h1 = h2 /\ k1 = k2
         /\ ComparatorB(h1, k1, h2, k2) = -1 => h1 <= h2
         /\ \A h3 \in Nat, k3 \in Keys :
              /\ ComparatorB(h1, k1, h2, k2) = -1 /\ ComparatorB(h2, k2, h3, k3) = -1
                   => ComparatorB(h1, k1, h3, k3) = -1
<1>1. \A ha, hb \in Nat : \A ka, kb \in Keys :
        \/ ComparatorB(ha, ka, hb, kb) = -1 /\ Below(ha, ka, hb, kb)
        \/ ComparatorB(ha, ka, hb, kb) = 1 /\ Below(hb, kb, ha, ka)
        \/ ComparatorB(ha, ka, hb, kb) = 0 /\ ha = hb /\ ka = kb
  BY ComparatorBIs
<1>2. \A ha, hb \in Nat : \A ka, kb \in Keys : Below(ha, ka, hb, kb) =>
        /\ ~(ha = hb /\ ka = kb) /\ ~Below(hb, kb, ha, ka)
        /\ \A hc \in Nat, kc \in Keys : Below(hb, kb, hc, kc) => Below(ha, ka, hc, kc)
  BY BelowOrder
<1>3. ComparatorB(h1, k1, h2, k2) \in {-1, 0, 1}
  BY <1>1
<1>4. ComparatorB(h1, k1, h2, k2) = 1 <=> ComparatorB(h2, k2, h1, k1) = -1
  BY <1>1, <1>2
<1>5. ComparatorB(h1, k1, h2, k2) = 0 <=> h1 = h2 /\ k1 = k2
  BY <1>1, <1>2
<1>6. ComparatorB(h1, k1, h2, k2) = -1 => h1 <= h2
  BY <1>1, <1>2 DEF Below
<1>7. ASSUME NEW h3 \in Nat, NEW k3 \in Keys,
             ComparatorB(h1, k1, h2, k2) = -1, ComparatorB(h2, k2, h3, k3) = -1
      PROVE  ComparatorB(h1, k1, h3, k3) = -1
  <2>1. Below(h1, k1, h3, k3)
    BY <1>1, <1>2, <1>7
  <2> QED
    BY <1>1, <1>2, <2>1
<1> QED
  BY <1>3, <1>4, <1>5, <1>6, <1>7

\* The items of a table, with the hash of their key.
Records == {d \in data_t : d.hash_value = Hash[d.key]}

LEMMA ItemOrder ==
  ASSUME NEW d \in data_t, NEW e \in data_t
  PROVE  /\ Comparator(d, e) \in {-1, 0, 1}
         /\ Comparator(d, e) = 1 <=> Comparator(e, d) = -1
         /\ Comparator(d, e) = 0 <=> d.hash_value = e.hash_value /\ d.key = e.key
         /\ Comparator(d, e) = -1 => d.hash_value <= e.hash_value
         /\ \A f \in data_t : Comparator(d, e) = -1 /\ Comparator(e, f) = -1 => Comparator(d, f) = -1
<1>1. \A f \in data_t : f.hash_value \in Nat /\ f.key \in Keys
  BY DEF data_t
<1> QED
  BY <1>1, StrictOrder DEF Comparator
NonDecreasing(s) == \A i, j \in 1..Len(s) : i < j => Comparator(s[i], s[j]) # 1

LEMMA NotGreater ==
  ASSUME NEW d \in data_t, NEW e \in data_t, NEW f \in data_t,
         Comparator(d, e) # 1, Comparator(e, f) # 1
  PROVE  Comparator(d, f) # 1
<1> SUFFICES ASSUME Comparator(d, f) = 1 PROVE FALSE
  OBVIOUS
<1>1. Comparator(f, d) = -1 /\ Comparator(f, e) # -1 /\ Comparator(e, d) # -1
  BY ItemOrder
<1>2. Comparator(d, e) \in {-1, 0, 1}
  BY ItemOrder
<1>3. CASE Comparator(d, e) = -1
  BY <1>1, <1>3, ItemOrder
<1>4. CASE Comparator(d, e) = 0
  <2>1. d.hash_value = e.hash_value /\ d.key = e.key
    BY <1>4, ItemOrder
  <2>2. Comparator(f, d) = Comparator(f, e)
    BY <2>1 DEF Comparator
  <2> QED
    BY <1>1, <2>2
<1> QED
  BY <1>2, <1>3, <1>4

-----------------------------------------------------------------------------
(* Bytes written and read. *)

\* A buffer that can be read; and one that holds what was written to it.
Readable(b) ==
  /\ {"buf", "SEEK"} \subseteq DOMAIN b
  /\ b.buf \in Seq(Byte) /\ b.SEEK \in Nat

IsBuffer(b) ==
  /\ Readable(b)
  /\ {"NUL", "buflen"} \subseteq DOMAIN b /\ b.NUL = Len(b.buf)

\* The buffer at another place.
At(b, i) == [b EXCEPT !.SEEK = i]

\* b2 holds what b holds, and perhaps more behind it.
Continues(b, b2) ==
  /\ Len(b.buf) <= Len(b2.buf)
  /\ \A i \in 1..Len(b.buf) : b2.buf[i] = b.buf[i]

LEMMA FunctionIsSeq ==
  ASSUME NEW D, NEW k \in Nat, NEW s \in [1..k -> D]
  PROVE  s \in Seq(D) /\ Len(s) = k
<1>1. s \in Seq(D)
  BY SeqDef
<1>2. Len(s) \in Nat /\ DOMAIN s = 1..Len(s) /\ DOMAIN s = 1..k
  BY <1>1, LenProperties
<1> QED
  BY <1>1, <1>2

LEMMA Slice ==
  ASSUME NEW D, NEW s \in Seq(D), NEW m \in Nat, NEW l \in Nat, m + l <= Len(s)
  PROVE  \A i \in 1..l : SubSeq(s, m + 1, m + l)[i] = s[m + i]
OBVIOUS

LEMMA SmallRemainder ==
  ASSUME NEW x \in Nat, x <= 127
  PROVE  x % 256 = x
OBVIOUS

\* The four bytes of an int, lowest first, and the int they give back.
LEMMA IntBytesAre ==
  ASSUME NEW val \in Nat, val <= INT_MAX
  PROVE  /\ IntBytes(val) \in Seq(Byte) /\ Len(IntBytes(val)) = 4
         /\ IntBytes(val)[1] = val % 256
         /\ IntBytes(val)[2] = (val \div 256) % 256
         /\ IntBytes(val)[3] = (val \div 65536) % 256
         /\ IntBytes(val)[4] = (val \div 16777216) % 256
<1>1. 256 ^ 0 = 1 /\ 256 ^ 1 = 256 /\ 256 ^ 2 = 65536 /\ 256 ^ 3 = 16777216
  BY SMT
<1>2. /\ IntBytes(val)[1] = val % 256
      /\ IntBytes(val)[2] = (val \div 256) % 256
      /\ IntBytes(val)[3] = (val \div 65536) % 256
      /\ IntBytes(val)[4] = (val \div 16777216) % 256
  <2>1. 1 - 1 = 0 /\ 2 - 1 = 1 /\ 3 - 1 = 2 /\ 4 - 1 = 3 /\ val \div 1 = val
    BY SMT DEF INT_MAX
  <2> QED
    BY <1>1, <2>1, SMT DEF IntBytes
<1>3. \A i \in 1..4 : IntBytes(val)[i] \in Byte
  <2>1. \A x \in Nat : x % 256 \in Byte
    BY DEF Byte
  <2>2. /\ val \in Nat /\ val \div 256 \in Nat
        /\ val \div 65536 \in Nat /\ val \div 16777216 \in Nat
    BY SMT DEF INT_MAX
  <2>3. TAKE i \in 1..4
  <2>4. i = 1 \/ i = 2 \/ i = 3 \/ i = 4
    OBVIOUS
  <2> QED
    BY <1>2, <2>1, <2>2, <2>4, SMT
<1>4. IntBytes(val) \in [1..4 -> Byte]
  BY <1>3 DEF IntBytes
<1>5. IntBytes(val) \in Seq(Byte) /\ Len(IntBytes(val)) = 4
  BY <1>4, FunctionIsSeq
<1> QED
  BY <1>2, <1>5

LEMMA IntBytesLength ==
  ASSUME NEW val \in Nat, val <= INT_MAX
  PROVE  IntBytes(val) \in Seq(Byte) /\ Len(IntBytes(val)) = 4
BY IntBytesAre

LEMMA SkipIsBuffer ==
  ASSUME NEW b, IsBuffer(b), NEW k \in Nat
  PROVE  /\ IsBuffer(Skip(b, k)) /\ Skip(b, k).buf = b.buf
         /\ Skip(b, k).SEEK = b.SEEK + k /\ Skip(b, k).NUL = b.NUL
BY DEF IsBuffer, Readable, Skip

LEMMA AtIsBuffer ==
  ASSUME NEW b, IsBuffer(b), NEW i \in Nat
  PROVE  IsBuffer(At(b, i)) /\ At(b, i).buf = b.buf /\ At(b, i).SEEK = i
BY DEF IsBuffer, Readable, At

\* The l bytes that are read from SEEK on.
LEMMA GetBytes ==
  ASSUME NEW b, Readable(b), NEW l \in Nat, b.SEEK + l <= Len(b.buf)
  PROVE  \A i \in 1..l : buffer_getnstr(b, l)[i] = b.buf[b.SEEK + i]
<1>1. b.buf \in Seq(Byte) /\ b.SEEK \in Nat
  BY DEF IsBuffer, Readable
<1>2. b.SEEK + l <= Len(b.buf)
  OBVIOUS
<1>3. \A i \in 1..l : SubSeq(b.buf, b.SEEK + 1, b.SEEK + l)[i] = b.buf[b.SEEK + i]
  BY <1>1, <1>2, Slice, Zenon
<1> QED
  BY <1>3, Zenon DEF buffer_getnstr

\* The int whose bytes lie behind place i.
IntOf(x1, x2, x3, x4) == x1 + x2 * 256 + x3 * 65536 + Signed(x4) * 16777216
IntAt(bytes, i) == IntOf(bytes[i + 1], bytes[i + 2], bytes[i + 3], bytes[i + 4])

LEMMA GetInt ==
  ASSUME NEW b, Readable(b), b.SEEK + 4 <= Len(b.buf)
  PROVE  buffer_getint(b) = IntAt(b.buf, b.SEEK)
<1> DEFINE v == buffer_getnstr(b, 4)
<1>1. \A i \in 1..4 : v[i] = b.buf[b.SEEK + i]
  BY 4 \in Nat, GetBytes, Zenon
<1>2. buffer_getint(b) = IntOf(v[1], v[2], v[3], v[4])
  BY SMT DEF buffer_getint, IntOf
<1> HIDE DEF v
<1>3. /\ v[1] = b.buf[b.SEEK + 1] /\ v[2] = b.buf[b.SEEK + 2]
      /\ v[3] = b.buf[b.SEEK + 3] /\ v[4] = b.buf[b.SEEK + 4]
  BY <1>1
<1> QED
  BY <1>2, <1>3, Zenon DEF IntAt

LEMMA FourDigits ==
  ASSUME NEW val \in Nat
  PROVE  val = (val % 256) + ((val \div 256) % 256) * 256
                 + ((val \div 65536) % 256) * 65536 + (val \div 16777216) * 16777216
OBVIOUS

LEMMA IntReadBack ==
  ASSUME NEW b, Readable(b), NEW val \in Nat, val <= INT_MAX, b.SEEK + 4 <= Len(b.buf),
         \A i \in 1..4 : b.buf[b.SEEK + i] = IntBytes(val)[i]
  PROVE  buffer_getint(b) = val
<1> DEFINE r1 == val % 256
           r2 == (val \div 256) % 256
           r3 == (val \div 65536) % 256
           r4 == (val \div 16777216) % 256
<1>1. /\ IntBytes(val)[1] = r1 /\ IntBytes(val)[2] = r2
      /\ IntBytes(val)[3] = r3 /\ IntBytes(val)[4] = r4
  BY IntBytesAre, SMT
<1>2. IntOf(r1, r2, r3, r4) = val
  <2>1. val \div 16777216 \in Nat /\ val \div 16777216 <= 127
    BY SMT DEF INT_MAX
  <2>2. r4 = val \div 16777216
    BY <2>1, SmallRemainder
  <2>3. Signed(r4) = val \div 16777216
    BY <2>1, <2>2, SMT DEF Signed
  <2> DEFINE q4 == val \div 16777216
  <2>4. val = r1 + r2 * 256 + r3 * 65536 + q4 * 16777216
    BY ONLY val \in Nat, FourDigits
  <2>5. Signed(r4) = q4
    BY <2>3, SMT
  <2> HIDE DEF r1, r2, r3, r4, q4
  <2> QED
    BY <2>4, <2>5, SMT DEF IntOf
<1> HIDE DEF r1, r2, r3, r4
<1>3. /\ b.buf[b.SEEK + 1] = IntBytes(val)[1] /\ b.buf[b.SEEK + 2] = IntBytes(val)[2]
      /\ b.buf[b.SEEK + 3] = IntBytes(val)[3] /\ b.buf[b.SEEK + 4] = IntBytes(val)[4]
  OBVIOUS
<1>4. buffer_getint(b) = IntAt(b.buf, b.SEEK)
  BY GetInt, Zenon
<1> QED
  BY <1>1, <1>2, <1>3, <1>4, Zenon DEF IntAt

\* Room is made without touching what the buffer holds.
LEMMA ExtendKeeps ==
  ASSUME NEW b, IsBuffer(b), NEW l
  PROVE  /\ IsBuffer(buffer_extendby(b, l)) /\ buffer_extendby(b, l).buf = b.buf
         /\ buffer_extendby(b, l).SEEK = b.SEEK
BY DEF IsBuffer, Readable, buffer_extendby

LEMMA AppendedBytes ==
  ASSUME NEW b, IsBuffer(b), NEW bytes \in Seq(Byte)
  PROVE  /\ IsBuffer(Appended(b, bytes)) /\ Appended(b, bytes).buf = b.buf \o bytes
         /\ Appended(b, bytes).SEEK = b.SEEK
BY DEF IsBuffer, Readable, Appended

LEMMA ExtendedBytes ==
  ASSUME NEW b, IsBuffer(b), NEW bytes \in Seq(Byte), NEW l
  PROVE  LET b2 == Appended(buffer_extendby(b, l), bytes)
         IN IsBuffer(b2) /\ b2.buf = b.buf \o bytes /\ b2.SEEK = b.SEEK
<1> DEFINE e == buffer_extendby(b, l)
<1>1. IsBuffer(e) /\ e.buf = b.buf /\ e.SEEK = b.SEEK
  BY ExtendKeeps
<1> HIDE DEF e
<1> QED
  BY <1>1, AppendedBytes DEF e

=============================================================================
