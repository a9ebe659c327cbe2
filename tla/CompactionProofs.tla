---------------------------- MODULE CompactionProofs ----------------------------
(* Proofs about Compaction for any contents of the tables, any number of     *)
(* tables and buckets, any hash function and any capacity: hashtable_sort    *)
(* gives a sorted array, findsmallest the smallest head in its latest        *)
(* version, and the merge loses no visited key and keeps the order.          *)
EXTENDS Compaction, BufferProofs, FiniteSetTheorems

\* The values of a loop of n rounds.
Rounds(n, A, b, step) ==
  \E g \in [0..n -> A] : g[0] = b /\ \A i \in 1..n : g[i] = step[i][g[i - 1]]

\* A loop of n rounds has values, whatever it starts from.
LEMMA RoundsExist ==
  ASSUME NEW n \in Nat, NEW A, NEW b \in A, NEW step \in [1..n -> [A -> A]]
  PROVE  Rounds(n, A, b, step)
<1> DEFINE D == 0..n
           m == [i \in D |-> i]
           F == [i \in D |-> [g \in [D -> A] |-> IF i = 0 THEN b ELSE step[i][g[i - 1]]]]
<1>1. \A i \in D : i # 0 => i \in 1..n /\ i - 1 \in D /\ i - 1 < i
  OBVIOUS
<1>2. m \in [D -> 0..n] /\ \A i \in D : m[i] = i
  OBVIOUS
<1>3. \A i \in D : \A g \in [D -> A] : (IF i = 0 THEN b ELSE step[i][g[i - 1]]) \in A
  <2> SUFFICES ASSUME NEW i \in D, NEW g \in [D -> A], i # 0 PROVE step[i][g[i - 1]] \in A
    OBVIOUS
  <2>1. i \in 1..n /\ i - 1 \in D
    BY <1>1
  <2> HIDE DEF D
  <2>2. g[i - 1] \in A /\ step[i] \in [A -> A]
    BY <2>1
  <2> QED
    BY <2>2
<1>4. /\ F \in [D -> [[D -> A] -> A]]
      /\ \A i \in D : \A g \in [D -> A] : F[i][g] = IF i = 0 THEN b ELSE step[i][g[i - 1]]
  <2> HIDE DEF D
  <2> QED
    BY <1>3
<1> HIDE DEF D, m, F
<1>5. Recurses(D, A, m, F)
  <2>1. ASSUME NEW i \in D, NEW g \in [D -> A], NEW h \in [D -> A],
               \A q \in D : m[q] < m[i] => g[q] = h[q]
        PROVE  F[i][g] = F[i][h]
    <3>1. i # 0 => g[i - 1] = h[i - 1]
      BY <1>1, <1>2, <2>1
    <3> QED
      BY <1>4, <3>1
  <2> QED
    BY <1>4, <2>1 DEF Recurses
<1>6. HasSolution(D, A, F)
  BY <1>2, <1>5, Recursion
<1>7. PICK g \in [D -> A] : \A i \in D : g[i] = F[i][g]
  BY <1>6 DEF HasSolution
<1>8. 0 \in D /\ \A i \in 1..n : i \in D /\ i # 0
  BY DEF D
<1>9. g[0] = b /\ \A i \in 1..n : g[i] = step[i][g[i - 1]]
  BY <1>4, <1>7, <1>8
<1> QED
  BY <1>9 DEF Rounds, D

-----------------------------------------------------------------------------
(* Sequences of sequences. *)

\* g has the concatenations of the first sequences of s.
Flat(D, n, s, g) ==
  /\ g \in [0..n -> Seq(D)] /\ g[0] = <<>>
  /\ \A i \in 1..n : g[i] = g[i - 1] \o s[i]

\* FlattenSeq of n sequences is reached by appending them one after the other.
LEMMA FlatIs ==
  ASSUME NEW D, NEW n \in Nat, NEW s \in [1..n -> Seq(D)]
  PROVE  \E g : Flat(D, n, s, g) /\ FlattenSeq(s) = g[n]
<1> DEFINE A == Seq(D)
           step == [i \in 1..n |-> [x \in A |-> x \o s[i]]]
<1>1. s \in Seq(A) /\ Len(s) = n /\ DOMAIN s = 1..n
  BY FunctionIsSeq
<1>2. <<>> \in A
  BY EmptySeq
<1>3. \A i \in 1..n : \A x \in A : x \o s[i] \in A
  BY ConcatProperties
<1>4. step \in [1..n -> [A -> A]] /\ \A i \in 1..n : \A x \in A : step[i][x] = x \o s[i]
  <2> HIDE DEF A
  <2> QED
    BY <1>3
<1>5. PICK g \in [0..n -> A] : g[0] = <<>> /\ \A i \in 1..n : g[i] = step[i][g[i - 1]]
  <2> HIDE DEF A, step
  <2>1. Rounds(n, A, <<>>, step)
    BY <1>2, <1>4, RoundsExist
  <2> QED
    BY <2>1 DEF Rounds
<1>6. \A i \in 1..n : g[i - 1] \in A /\ g[i] = g[i - 1] \o s[i]
  <2>1. \A i \in 1..n : i - 1 \in 0..n
    OBVIOUS
  <2> HIDE DEF A, step
  <2> QED
    BY <1>4, <1>5, <2>1
<1>7. Flat(D, n, s, g)
  BY <1>5, <1>6 DEF Flat
<1>8. CASE n = 0
  <2>1. s = <<>>
    <3>1. <<>> \in Seq(A) /\ Len(<<>>) = 0
      BY EmptySeq
    <3> QED
      BY <1>1, <1>8, <3>1, SeqEqual
  <2>2. FlattenSeq(s) = s
    BY <1>1, <1>8 DEF FlattenSeq
  <2> QED
    BY <1>5, <1>7, <1>8, <2>1, <2>2
<1>9. CASE n # 0
  <2> DEFINE Is(f) == f = [i \in 1..n |-> IF i = 1 THEN s[i] ELSE f[i - 1] \o s[i]]
             h == [i \in 1..n |-> g[i]]
             f == CHOOSE f : Is(f)
  <2>1. \A i \in 1..n : h[i] = IF i = 1 THEN s[i] ELSE h[i - 1] \o s[i]
    <3>1. \A i \in 1..n : h[i] = g[i] /\ (i # 1 => h[i - 1] = g[i - 1])
      OBVIOUS
    <3>2. 1 \in 1..n => g[1] = <<>> \o s[1]
      <4>1. 1 - 1 = 0
        OBVIOUS
      <4> QED
        BY <1>5, <1>6, <4>1
    <3>3. 1 \in 1..n => <<>> \o s[1] = s[1]
      BY ConcatEmptySeq
    <3> HIDE DEF h
    <3> QED
      BY <1>6, <3>1, <3>2, <3>3
  <2>2. Is(h)
    <3>1. h = [i \in 1..n |-> h[i]]
      OBVIOUS
    <3> HIDE DEF h
    <3> QED
      BY <2>1, <3>1, Zenon
  <2>3. Is(f)
    BY <2>2
  <2>4. FlattenSeq(s) = f[n]
    BY <1>1, <1>9 DEF FlattenSeq
  <2> HIDE DEF f
  <2>5. \A i \in 1..n : f[i] = IF i = 1 THEN s[i] ELSE f[i - 1] \o s[i]
    BY <2>3
  <2> HIDE DEF Is
  <2> DEFINE T == {k \in Nat : k \in 1..n => f[k] = h[k]}
  <2>6. 0 \in T
    OBVIOUS
  <2> HIDE DEF h
  <2>7. ASSUME NEW k \in T, k \in Nat PROVE k + 1 \in T
    <3> SUFFICES ASSUME k + 1 \in 1..n PROVE f[k + 1] = h[k + 1]
      BY <2>7
    <3>1. (k + 1) - 1 = k /\ (k + 1 = 1 \/ (k + 1 # 1 /\ k \in 1..n))
      BY <2>7
    <3>2. k \in 1..n => f[k] = h[k]
      BY <2>7
    <3> HIDE DEF T
    <3> DEFINE j == k + 1
    <3>3. j \in 1..n /\ j - 1 = k
      BY <3>1
    <3> HIDE DEF j
    <3>4. f[j] = (IF j = 1 THEN s[j] ELSE f[k] \o s[j]) /\ h[j] = IF j = 1 THEN s[j] ELSE h[k] \o s[j]
      BY <2>1, <2>5, <3>3
    <3> QED
      BY <3>1, <3>2, <3>4 DEF j
  <2>8. n \in T
    <3> HIDE DEF T
    <3> QED
      BY <2>6, <2>7, SetInduction
  <2>9. f[n] = h[n] /\ h[n] = g[n]
    BY <1>9, <2>8 DEF h
  <2> QED
    BY <1>7, <2>4, <2>9
<1> QED
  BY <1>8, <1>9

\* The flattened sequence holds elements of the same set.
LEMMA FlatSeq ==
  ASSUME NEW D, NEW n \in Nat, NEW s \in [1..n -> Seq(D)]
  PROVE  FlattenSeq(s) \in Seq(D)
<1>1. PICK g : Flat(D, n, s, g) /\ FlattenSeq(s) = g[n]
  BY FlatIs
<1>2. n \in 0..n
  OBVIOUS
<1> QED
  BY <1>1, <1>2 DEF Flat

\* No sequences flatten to the empty one.
LEMMA FlatNone ==
  ASSUME NEW D, NEW s \in [1..0 -> Seq(D)]
  PROVE  FlattenSeq(s) = <<>>
<1>1. 0 \in Nat
  OBVIOUS
<1>2. PICK g : Flat(D, 0, s, g) /\ FlattenSeq(s) = g[0]
  BY <1>1, FlatIs
<1> QED
  BY <1>2 DEF Flat

\* One more sequence at the end.
LEMMA FlatMore ==
  ASSUME NEW D, NEW n \in Nat, NEW s \in [1..n -> Seq(D)], NEW t \in [1..n + 1 -> Seq(D)],
         \A i \in 1..n : s[i] = t[i]
  PROVE  FlattenSeq(t) = FlattenSeq(s) \o t[n + 1]
<1>1. PICK g : Flat(D, n, s, g) /\ FlattenSeq(s) = g[n]
  BY FlatIs
<1>2. PICK h : Flat(D, n + 1, t, h) /\ FlattenSeq(t) = h[n + 1]
  BY FlatIs, n + 1 \in Nat
<1> DEFINE T == {k \in Nat : k <= n => g[k] = h[k]}
<1>3. 0 \in T
  BY <1>1, <1>2 DEF Flat
<1>4. ASSUME NEW k \in T, k \in Nat PROVE k + 1 \in T
  <2> SUFFICES ASSUME k + 1 <= n PROVE g[k + 1] = h[k + 1]
    BY <1>4
  <2>1. k + 1 \in 1..n /\ k + 1 \in 1..n + 1 /\ (k + 1) - 1 = k /\ k <= n
    BY <1>4
  <2>2. g[k] = h[k]
    BY <2>1
  <2>3. g[k + 1] = g[k] \o s[k + 1]
    BY <1>1, <2>1 DEF Flat
  <2>4. h[k + 1] = h[k] \o t[k + 1]
    BY <1>2, <2>1 DEF Flat
  <2> QED
    BY <2>1, <2>2, <2>3, <2>4
<1>5. n \in T
  <2> HIDE DEF T
  <2> QED
    BY <1>3, <1>4, SetInduction
<1>6. g[n] = h[n]
  BY <1>5
<1>7. n + 1 \in 1..n + 1 /\ (n + 1) - 1 = n
  OBVIOUS
<1>8. h[n + 1] = h[n] \o t[n + 1]
  BY <1>2, <1>7 DEF Flat
<1> QED
  BY <1>1, <1>2, <1>6, <1>8

\* One more item at the end of the last sequence.
LEMMA FlatLonger ==
  ASSUME NEW D, NEW n \in Nat, n > 0, NEW s \in [1..n -> Seq(D)], NEW t \in [1..n -> Seq(D)],
         \A i \in 1..n - 1 : s[i] = t[i], NEW x \in D, t[n] = Append(s[n], x)
  PROVE  FlattenSeq(t) = Append(FlattenSeq(s), x)
<1> DEFINE m == n - 1
           r == [i \in 1..m |-> s[i]]
<1>1. m \in Nat /\ m + 1 = n /\ n \in 1..n
  OBVIOUS
<1>2. r \in [1..m -> Seq(D)] /\ \A i \in 1..m : r[i] = s[i] /\ r[i] = t[i]
  OBVIOUS
<1>a. s \in [1..m + 1 -> Seq(D)] /\ t \in [1..m + 1 -> Seq(D)]
  BY <1>1, Zenon
<1> HIDE DEF r, m
<1>3. FlattenSeq(s) = FlattenSeq(r) \o s[n] /\ FlattenSeq(t) = FlattenSeq(r) \o t[n]
  <2>1. FlattenSeq(s) = FlattenSeq(r) \o s[m + 1]
    <3>1. m \in Nat /\ r \in [1..m -> Seq(D)] /\ s \in [1..m + 1 -> Seq(D)] /\ \A i \in 1..m : r[i] = s[i]
      BY <1>1, <1>2, <1>a
    <3> QED
      BY ONLY <3>1, FlatMore, Zenon
  <2>2. FlattenSeq(t) = FlattenSeq(r) \o t[m + 1]
    BY <1>1, <1>2, <1>a, FlatMore
  <2> QED
    BY <1>1, <2>1, <2>2, Zenon
<1>4. FlattenSeq(r) \in Seq(D) /\ s[n] \in Seq(D)
  BY <1>1, <1>2, FlatSeq
<1> DEFINE q == FlattenSeq(r)
<1>5. q \o Append(s[n], x) = Append(q \o s[n], x)
  <2>1. \A u, v \in Seq(D) : u \o Append(v, x) = Append(u \o v, x)
    OBVIOUS
  <2> QED
    BY <1>4, <2>1
<1> QED
  BY <1>3, <1>5

\* The elements of a sequence.
LEMMA ToSetIs ==
  ASSUME NEW D, NEW s \in Seq(D)
  PROVE  ToSet(s) = {s[i] : i \in 1..Len(s)} /\ ToSet(s) \subseteq D
BY LenProperties, ElementOfSeq DEF ToSet

\* The elements of two sequences, one behind the other.
LEMMA ToSetConcat ==
  ASSUME NEW D, NEW s \in Seq(D), NEW t \in Seq(D)
  PROVE  s \o t \in Seq(D) /\ Len(s \o t) = Len(s) + Len(t) /\ ToSet(s \o t) = ToSet(s) \cup ToSet(t)
<1> DEFINE u == s \o t
           n == Len(s)
           m == Len(t)
<1>1. /\ u \in Seq(D) /\ Len(u) = n + m /\ n \in Nat /\ m \in Nat
      /\ \A i \in 1..n + m : u[i] = IF i <= n THEN s[i] ELSE t[i - n]
  BY ConcatProperties, LenProperties
<1>2. ToSet(u) = {u[i] : i \in 1..n + m} /\ ToSet(s) = {s[i] : i \in 1..n} /\ ToSet(t) = {t[i] : i \in 1..m}
  BY <1>1, ToSetIs
<1> HIDE DEF u, n, m
<1>3. ASSUME NEW x \in ToSet(u) PROVE x \in ToSet(s) \cup ToSet(t)
  <2>1. PICK i \in 1..n + m : x = u[i]
    BY <1>2, <1>3
  <2>2. i <= n => i \in 1..n
    BY <1>1
  <2>3. ~(i <= n) => i - n \in 1..m
    BY <1>1
  <2> QED
    BY <1>1, <1>2, <2>1, <2>2, <2>3
<1>4. ASSUME NEW x \in ToSet(s) PROVE x \in ToSet(u)
  <2>1. PICK i \in 1..n : x = s[i]
    BY <1>2, <1>4
  <2>2. i \in 1..n + m /\ i <= n
    BY <1>1
  <2> QED
    BY <1>1, <1>2, <2>1, <2>2
<1>5. ASSUME NEW x \in ToSet(t) PROVE x \in ToSet(u)
  <2>1. PICK i \in 1..m : x = t[i]
    BY <1>2, <1>5
  <2>2. i + n \in 1..n + m /\ ~(i + n <= n) /\ (i + n) - n = i
    BY <1>1
  <2> QED
    BY <1>1, <1>2, <2>1, <2>2
<1> QED
  BY <1>1, <1>3, <1>4, <1>5 DEF u, n, m

\* A flat sequence has the items of all the sequences.
LEMMA FlatItems ==
  ASSUME NEW D, NEW n \in Nat, NEW s \in [1..n -> Seq(D)]
  PROVE  ToSet(FlattenSeq(s)) = UNION {ToSet(s[i]) : i \in 1..n}
<1>1. PICK g : Flat(D, n, s, g) /\ FlattenSeq(s) = g[n]
  BY FlatIs
<1> DEFINE Some(k) == UNION {ToSet(s[i]) : i \in 1..k}
           T == {k \in Nat : k <= n => ToSet(g[k]) = Some(k)}
<1>2. 0 \in T
  <2>1. g[0] = <<>> /\ ToSet(<<>>) = {}
    BY <1>1 DEF Flat, ToSet
  <2>2. Some(0) = {}
    OBVIOUS
  <2> HIDE DEF Some
  <2> QED
    BY <2>1, <2>2
<1>3. ASSUME NEW k \in T, k \in Nat PROVE k + 1 \in T
  <2> SUFFICES ASSUME k + 1 <= n PROVE ToSet(g[k + 1]) = Some(k + 1)
    <3> HIDE DEF Some
    <3> QED
      BY <1>3
  <2>1. k + 1 \in 1..n /\ (k + 1) - 1 = k /\ k <= n /\ k \in 0..n /\ 1..k + 1 = (1..k) \cup {k + 1}
    BY <1>3
  <2>2. ToSet(g[k]) = Some(k)
    <3> HIDE DEF Some
    <3> QED
      BY <1>3, <2>1
  <2>3. g[k + 1] = g[k] \o s[k + 1] /\ g[k] \in Seq(D)
    BY <1>1, <2>1 DEF Flat
  <2>4. ToSet(g[k + 1]) = ToSet(g[k]) \cup ToSet(s[k + 1])
    BY <2>1, <2>3, ToSetConcat
  <2>5. Some(k + 1) = Some(k) \cup ToSet(s[k + 1])
    BY <2>1
  <2> QED
    BY <2>2, <2>4, <2>5
<1>4. n \in T
  <2> HIDE DEF T
  <2> QED
    BY <1>2, <1>3, SetInduction
<1> QED
  BY <1>1, <1>4

-----------------------------------------------------------------------------
(* Chains. *)

\* The items a table holds: their hash is that of their key.
Items == {d \in data_t : d.hash_value = Hash[d.key]}

\* An item as a reader of its file gets it.
Reread(d) == [d EXCEPT !.version = GetLong(@)]

\* The items in the chains of a hash table.
Elements(chains) == UNION {ToSet(chains[b]) : b \in 1..NBuckets}

\* The fields of an item; reading its version again leaves its key.
LEMMA ItemFacts ==
  ASSUME NEW d \in Items
  PROVE  /\ d \in data_t /\ d.key \in Keys /\ d.hash_value \in Nat /\ d.hash_value = Hash[d.key]
         /\ d.version \in [1..8 -> Byte]
         /\ Reread(d) \in Items /\ Reread(d).key = d.key
         /\ d # NULL
<1>1. /\ d \in data_t /\ d.key \in Keys /\ d.hash_value \in Nat /\ d.hash_value = Hash[d.key]
      /\ d.version \in [1..8 -> Byte]
  BY DEF Items, data_t
<1>2. GetLong(d.version) \in [1..8 -> Byte]
  BY <1>1 DEF GetLong, Byte
<1>3. Reread(d) \in data_t /\ Reread(d).key = d.key /\ Reread(d).hash_value = d.hash_value
  BY <1>1, <1>2 DEF data_t, Reread
<1>4. Reread(d) \in Items
  BY <1>1, <1>3 DEF Items
<1> QED
  BY <1>1, <1>3, <1>4, PointerAssumption

\* A finite set as a sequence.
LEMMA SetToSeqIs ==
  ASSUME NEW S, IsFiniteSet(S)
  PROVE  SetToSeq(S) \in Seq(S) /\ ToSet(SetToSeq(S)) = S
<1> DEFINE n == Cardinality(S)
<1>1. n \in Nat /\ ExistsBijection(1..n, S)
  BY FS_CardinalityType
<1>2. PICK f : f \in Bijection(1..n, S)
  BY <1>1 DEF ExistsBijection
<1>3. f \in [1..n -> S] /\ IsInjective(f)
  BY <1>2 DEF Bijection, Injection
<1> DEFINE q == CHOOSE q \in [1..n -> S] : IsInjective(q)
<1>4. q \in [1..n -> S] /\ IsInjective(q)
  BY <1>3
<1>5. SetToSeq(S) = q
  BY DEF SetToSeq
<1> HIDE DEF q
<1>6. q \in Seq(S) /\ Len(q) = n
  BY <1>1, <1>4, FunctionIsSeq
<1>7. q \in Surjection(1..n, S)
  <2>1. q \in Injection(1..n, S)
    BY <1>4 DEF Injection
  <2>2. Cardinality(1..n) = n
    <3>1. 1 \in Int /\ n \in Int
      BY <1>1
    <3>2. Cardinality(1..n) = IF 1 > n THEN 0 ELSE n - 1 + 1
      BY <3>1, FS_Interval
    <3> HIDE DEF n
    <3> QED
      BY <1>1, <3>2
  <2>3. Cardinality(1..n) = Cardinality(S)
    BY <2>2
  <2> QED
    BY <2>1, <2>3, FS_Injection
<1>8. \A x \in S : \E i \in 1..n : q[i] = x
  BY <1>7 DEF Surjection
<1>9. ToSet(q) = {q[i] : i \in 1..n}
  BY <1>6, ToSetIs
<1>10. ToSet(q) = S
  <2> HIDE DEF n
  <2> QED
    BY <1>4, <1>8, <1>9
<1> QED
  BY <1>5, <1>6, <1>10

\* Every item has a bucket.
LEMMA BucketIs ==
  ASSUME NEW d \in Items
  PROVE  Bucket(d) \in 1..NBuckets
BY ItemFacts, SizesAssumption DEF Bucket

\* What is in a chain is in the hash table, and is an item.
LEMMA ElementIs ==
  ASSUME NEW c \in [1..NBuckets -> Seq(Items)], NEW x
  PROVE  /\ x \in Elements(c) <=> \E b \in 1..NBuckets : x \in ToSet(c[b])
         /\ x \in Elements(c) => x \in Items
<1>1. \A b \in 1..NBuckets : ToSet(c[b]) \subseteq Items
  BY ToSetIs
<1> QED
  BY <1>1 DEF Elements

\* hashtable_put in front of a chain adds the item.
LEMMA ChainMore ==
  ASSUME NEW c \in [1..NBuckets -> Seq(Items)], NEW d \in Items
  PROVE  LET e == [c EXCEPT ![Bucket(d)] = <<d>> \o @]
         IN e \in [1..NBuckets -> Seq(Items)] /\ Elements(e) = Elements(c) \cup {d}
<1> DEFINE p == Bucket(d)
           q == <<d>> \o c[p]
           e == [c EXCEPT ![p] = <<d>> \o @]
<1>1. p \in 1..NBuckets
  BY BucketIs
<1>2. <<d>> \in Seq(Items) /\ ToSet(<<d>>) = {d}
  <2>1. <<d>> \in Seq(Items) /\ DOMAIN <<d>> = 1..1 /\ <<d>>[1] = d
    OBVIOUS
  <2>2. \A i \in 1..1 : i = 1
    OBVIOUS
  <2> DEFINE q1 == <<d>>
  <2>3. q1 \in Seq(Items) /\ DOMAIN q1 = 1..1 /\ q1[1] = d /\ 1 \in 1..1
    BY <2>1
  <2> HIDE DEF q1
  <2>4. ToSet(q1) = {d}
    BY <2>2, <2>3 DEF ToSet
  <2> QED
    BY <2>3, <2>4 DEF q1
<1>3. q \in Seq(Items) /\ ToSet(q) = {d} \cup ToSet(c[p])
  <2>1. c[p] \in Seq(Items)
    BY <1>1
  <2> HIDE DEF p
  <2> QED
    BY <1>2, <2>1, ToSetConcat
<1>4. e[p] = q /\ \A b \in 1..NBuckets : b # p => e[b] = c[b]
  BY <1>1
<1>5. e \in [1..NBuckets -> Seq(Items)]
  <2> HIDE DEF p, q
  <2>1. e = [c EXCEPT ![p] = q]
    BY DEF q
  <2> QED
    BY <1>1, <1>3, <2>1
<1> HIDE DEF p, q, e
<1>6. \A b \in 1..NBuckets : ToSet(e[b]) = IF b = p THEN {d} \cup ToSet(c[p]) ELSE ToSet(c[b])
  BY <1>3, <1>4
<1>7. Elements(e) = Elements(c) \cup {d}
  BY <1>1, <1>6 DEF Elements
<1> QED
  BY <1>5, <1>7 DEF e, p

\* The chains of a sequence of items hold just these items.
LEMMA ChainsAre ==
  ASSUME NEW s \in Seq(Items)
  PROVE  Chains(s) \in [1..NBuckets -> Seq(Items)] /\ Elements(Chains(s)) = ToSet(s)
<1> DEFINE n == Len(s)
           A == [1..NBuckets -> Seq(Items)]
           b == [i \in 1..NBuckets |-> <<>>]
           Put(c, d) == [c EXCEPT ![Bucket(d)] = <<d>> \o @]
           step == [k \in 1..n |-> [c \in A |-> Put(c, s[k])]]
<1>1. n \in Nat /\ DOMAIN s = 1..n /\ \A k \in 1..n : s[k] \in Items
  BY LenProperties, ElementOfSeq
<1>2. b \in A
  <2>1. <<>> \in Seq(Items)
    BY EmptySeq
  <2> QED
    BY <2>1
<1>3. \A k \in 1..n : \A c \in A : Put(c, s[k]) \in A /\ Elements(Put(c, s[k])) = Elements(c) \cup {s[k]}
  BY <1>1, ChainMore
<1>4. step \in [1..n -> [A -> A]]
  <2> HIDE DEF Put, A
  <2> QED
    BY <1>3
<1>5. \A k \in 1..n : \A c \in A : step[k][c] = Put(c, s[k])
  <2> HIDE DEF Put, A
  <2> QED
    OBVIOUS
<1> HIDE DEF A, step, n, Put, b
<1>6. PICK it \in [SUBSET (1..n) -> A] :
        \A T \in SUBSET (1..n) : it[T] = IF T = {} THEN b ELSE step[Max(T)][it[T \ {Max(T)}]]
  <2>1. FoldIn(n, A, b, step)
    BY <1>1, <1>2, <1>4, FoldExists
  <2> QED
    BY <2>1 DEF FoldIn
<1>7. \A T \in SUBSET (1..n) : T # {} => Max(T) \in 1..n /\ T \ {Max(T)} \in SUBSET (1..n)
  <2>1. ASSUME NEW T \in SUBSET (1..n), T # {} PROVE Max(T) \in T
    <3>1. T \subseteq 0..n
      BY <1>1
    <3> QED
      BY <1>1, <2>1, <3>1, MaxOf
  <2> QED
    BY <2>1
<1> DEFINE Is(f) == f = [T \in SUBSET (1..n) |->
                           IF T = {} THEN b ELSE Put(f[T \ {Max(T)}], s[Max(T)])]
<1>8. Is(it)
  <2>1. \A T \in SUBSET (1..n) :
          it[T] = IF T = {} THEN b ELSE Put(it[T \ {Max(T)}], s[Max(T)])
    <3> SUFFICES ASSUME NEW T \in SUBSET (1..n)
                 PROVE  it[T] = IF T = {} THEN b ELSE Put(it[T \ {Max(T)}], s[Max(T)])
      OBVIOUS
    <3>1. CASE T = {}
      BY <1>6, <3>1
    <3>2. CASE T # {}
      <4>1. Max(T) \in 1..n /\ it[T \ {Max(T)}] \in A
        BY <1>6, <1>7, <3>2
      <4> QED
        BY <1>5, <1>6, <3>2, <4>1
    <3> QED
      BY <3>1, <3>2
  <2>2. it = [T \in SUBSET (1..n) |-> it[T]]
    OBVIOUS
  <2> QED
    BY <2>1, <2>2, Zenon
<1> DEFINE f == CHOOSE f : Is(f)
<1>9. Is(f)
  BY <1>8
<1>10. Chains(s) = f[1..n]
  BY <1>1 DEF Chains, FoldLeft, MapThenFoldSet, Put, b
<1>11. \A T \in SUBSET (1..n) : f[T] = IF T = {} THEN b ELSE Put(f[T \ {Max(T)}], s[Max(T)])
  <2> HIDE DEF f
  <2> QED
    BY <1>9
<1> HIDE DEF Is, f
<1>12. f[1..0] = b /\ \A i \in 1..n : f[1..i] = Put(f[1..i - 1], s[i])
  <2>1. /\ 1..0 = {} /\ \A i \in 0..n : 1..i \in SUBSET (1..n)
        /\ \A i \in 1..n : /\ 1..i # {} /\ Max(1..i) = i /\ (1..i) \ {i} = 1..i - 1
    BY <1>1, FirstPlaces
  <2>2. 1..0 \in SUBSET (1..n) /\ \A i \in 1..n : 1..i \in SUBSET (1..n)
    BY <1>1
  <2> QED
    BY <1>11, <2>1, <2>2, Zenon
<1> DEFINE First(i) == {s[k] : k \in 1..i}
           Good(i) == f[1..i] \in A /\ Elements(f[1..i]) = First(i)
           T == {i \in Nat : i <= n => Good(i)}
<1>13. 0 \in T
  <2>1. First(0) = {}
    OBVIOUS
  <2>2. Elements(b) = {}
    <3>1. \A i \in 1..NBuckets : b[i] = <<>>
      BY DEF b
    <3>2. ToSet(<<>>) = {}
      BY DEF ToSet
    <3> QED
      BY <3>1, <3>2 DEF Elements
  <2> HIDE DEF First
  <2>3. Good(0)
    BY <1>2, <1>12, <2>1, <2>2
  <2> HIDE DEF Good
  <2> QED
    BY <2>3
<1>14. ASSUME NEW i \in T, i \in Nat PROVE i + 1 \in T
  <2> SUFFICES ASSUME i + 1 <= n PROVE Good(i + 1)
    <3> HIDE DEF Good
    <3> QED
      BY <1>14
  <2>1. i <= n /\ i + 1 \in 1..n /\ (i + 1) - 1 = i /\ 1..i + 1 = (1..i) \cup {i + 1}
    BY <1>1, <1>14
  <2>2. Good(i)
    <3> HIDE DEF Good
    <3> QED
      BY <1>14, <2>1
  <2>3. First(i + 1) = First(i) \cup {s[i + 1]}
    BY <2>1
  <2> HIDE DEF First
  <2>4. f[1..i + 1] = Put(f[1..i], s[i + 1])
    BY <1>12, <2>1
  <2>5. f[1..i] \in A /\ Elements(f[1..i]) = First(i)
    BY <2>2
  <2>6. /\ Put(f[1..i], s[i + 1]) \in A
        /\ Elements(Put(f[1..i], s[i + 1])) = Elements(f[1..i]) \cup {s[i + 1]}
    BY <1>3, <2>1, <2>5
  <2>7. Elements(f[1..i + 1]) = First(i + 1)
    BY <2>3, <2>4, <2>5, <2>6, Zenon
  <2> QED
    BY <2>4, <2>6, <2>7, Zenon
<1>15. n \in T
  <2> HIDE DEF T
  <2> QED
    BY <1>1, <1>13, <1>14, SetInduction
<1>16. Good(n)
  <2> HIDE DEF Good
  <2> QED
    BY <1>1, <1>15
<1>17. First(n) = ToSet(s)
  BY ToSetIs DEF n
<1> QED
  BY <1>10, <1>16, <1>17 DEF A

\* What a table holds, in memory and flattened.
LEMMA HeldChains ==
  ASSUME NEW S, IsFiniteSet(S), S \subseteq Items
  PROVE  /\ Chains(SetToSeq(S)) \in [1..NBuckets -> Seq(Items)]
         /\ Elements(Chains(SetToSeq(S))) = S
<1>1. SetToSeq(S) \in Seq(S) /\ ToSet(SetToSeq(S)) = S
  BY SetToSeqIs
<1>2. SetToSeq(S) \in Seq(Items)
  BY <1>1, SeqMonotonic
<1> QED
  BY <1>1, <1>2, ChainsAre

\* The chains one behind the other hold the items of the hash table.
LEMMA FlatChains ==
  ASSUME NEW c \in [1..NBuckets -> Seq(Items)]
  PROVE  /\ FlattenSeq(c) \in Seq(Items) /\ Len(FlattenSeq(c)) \in Nat
         /\ ToSet(FlattenSeq(c)) = Elements(c)
<1>1. NBuckets \in Nat
  BY SizesAssumption
<1>2. FlattenSeq(c) \in Seq(Items) /\ ToSet(FlattenSeq(c)) = Elements(c)
  BY <1>1, FlatSeq, FlatItems DEF Elements
<1> QED
  BY <1>2, LenProperties

\* hashtable_open of the file of a whole table.
LEMMA LoadedIs ==
  ASSUME NEW file, file.items \in Seq(Items), file.key_num = Len(file.items)
  PROVE  /\ Loaded(file) \in [1..NBuckets -> Seq(Items)]
         /\ Elements(Loaded(file)) = {Reread(d) : d \in ToSet(file.items)}
<1> DEFINE s == file.items
           n == Len(s)
           r == [i \in 1..n |-> Reread(s[i])]
<1>1. n \in Nat /\ (\A i \in 1..n : s[i] \in Items) /\ ToSet(s) = {s[i] : i \in 1..n}
  BY LenProperties, ElementOfSeq, ToSetIs
<1>2. Loaded(file) = Chains(r)
  BY DEF Loaded, Reread
<1> HIDE DEF s, n
<1>3. r \in [1..n -> Items]
  BY <1>1, ItemFacts
<1>4. r \in Seq(Items) /\ Len(r) = n
  BY <1>1, <1>3, FunctionIsSeq
<1>6. \A i \in 1..n : r[i] = Reread(s[i])
  OBVIOUS
<1> HIDE DEF r
<1>5. ToSet(r) = {r[i] : i \in 1..n}
  BY <1>4, ToSetIs
<1>7. ToSet(r) = {Reread(d) : d \in ToSet(s)}
  BY <1>1, <1>5, <1>6
<1> QED
  BY <1>2, <1>4, <1>7, ChainsAre DEF s

-----------------------------------------------------------------------------
(* hashtable_nextdata and hashtable_sort. *)

\* The state of the walk over chains with the items E.
Walk(E) ==
  [index : 1..NBuckets, nextdata : Seq(E), data : E \cup {NULL}, next_num : Nat, key_num : Nat]

\* The chains hold elements of the hash table only.
LEMMA ChainElements ==
  ASSUME NEW c \in [1..NBuckets -> Seq(Items)]
  PROVE  c \in [1..NBuckets -> Seq(Elements(c))]
<1>1. \A b \in 1..NBuckets : c[b] \in Seq(Elements(c))
  <2> SUFFICES ASSUME NEW b \in 1..NBuckets PROVE c[b] \in Seq(Elements(c))
    OBVIOUS
  <2>1. c[b] \in Seq(Items) /\ Len(c[b]) \in Nat /\ c[b] \in [1..Len(c[b]) -> Items]
    BY LenProperties
  <2>2. ToSet(c[b]) = {c[b][i] : i \in 1..Len(c[b])} /\ ToSet(c[b]) \subseteq Elements(c)
    BY <2>1, ToSetIs DEF Elements
  <2>3. c[b] \in [1..Len(c[b]) -> Elements(c)]
    BY <2>1, <2>2
  <2> QED
    BY <2>1, <2>3, FunctionIsSeq
<1> QED
  BY <1>1

\* The fields of the walk, and what assigning them keeps.
LEMMA WalkFields ==
  ASSUME NEW E, NEW w \in Walk(E)
  PROVE  /\ w.index \in 1..NBuckets /\ w.nextdata \in Seq(E) /\ w.data \in E \cup {NULL}
         /\ w.next_num \in Nat /\ w.key_num \in Nat
BY DEF Walk

LEMMA WalkSet ==
  ASSUME NEW E, NEW w \in Walk(E), NEW i \in 1..NBuckets, NEW q \in Seq(E), NEW d \in E \cup {NULL}
  PROVE  /\ [w EXCEPT !.index = i, !.nextdata = q, !.data = d] \in Walk(E)
         /\ [w EXCEPT !.nextdata = q, !.index = i] \in Walk(E)
<1> DEFINE X == E \cup {NULL}
           Q == Seq(E)
<1>1. w \in [index : 1..NBuckets, nextdata : Q, data : X, next_num : Nat, key_num : Nat] /\ d \in X /\ q \in Q
  BY DEF Walk
<1> HIDE DEF X, Q
<1>2. /\ [w EXCEPT !.index = i, !.nextdata = q, !.data = d]
           \in [index : 1..NBuckets, nextdata : Q, data : X, next_num : Nat, key_num : Nat]
      /\ [w EXCEPT !.nextdata = q, !.index = i]
           \in [index : 1..NBuckets, nextdata : Q, data : X, next_num : Nat, key_num : Nat]
  BY <1>1
<1> QED
  BY <1>2 DEF Walk, X, Q

LEMMA WalkData ==
  ASSUME NEW E, NEW w \in Walk(E), NEW d \in E \cup {NULL}
  PROVE  [w EXCEPT !.data = d] \in Walk(E)
BY DEF Walk

LEMMA WalkRest ==
  ASSUME NEW E, NEW w \in Walk(E), NEW q \in Seq(E)
  PROVE  [w EXCEPT !.nextdata = q] \in Walk(E)
BY DEF Walk

LEMMA WalkCount ==
  ASSUME NEW E, NEW w \in Walk(E)
  PROVE  [w EXCEPT !.next_num = @ + 1] \in Walk(E)
BY DEF Walk

\* The walk to the first chain stays a walk over the same items.
LEMMA FirstChainIs ==
  ASSUME NEW E, NEW c \in [1..NBuckets -> Seq(E)], NEW w \in Walk(E)
  PROVE  FirstChain(c, w) \in Walk(E)
<1> DEFINE n == NBuckets
           D == 1..n
           A == Walk(E)
           Here(i) == [w EXCEPT !.index = i, !.nextdata = c[i], !.data = NULL]
           Found(i) == [w EXCEPT !.index = i + 1, !.nextdata = c[i], !.data = Head(c[i])]
           step(i, g) == IF i = n THEN Here(i) ELSE IF c[i] = <<>> THEN g[i + 1] ELSE Found(i)
           m == [i \in D |-> n - i]
           F == [i \in D |-> [g \in [D -> A] |-> step(i, g)]]
<1>1. n \in Nat /\ n > 0 /\ n \in D
  BY SizesAssumption
<1>2. \A i \in D : i # n => i + 1 \in D /\ m[i + 1] < m[i]
  BY <1>1
<1>3. m \in [D -> 0..n]
  BY <1>1
<1>4. \A i \in D : Here(i) \in A /\ (i # n /\ c[i] # <<>> => Found(i) \in A)
  <2> SUFFICES ASSUME NEW i \in D
               PROVE  Here(i) \in A /\ (i # n /\ c[i] # <<>> => Found(i) \in A)
    OBVIOUS
  <2>1. c[i] \in Seq(E) /\ NULL \in E \cup {NULL}
    OBVIOUS
  <2>2. Here(i) \in A
    BY <2>1, WalkSet
  <2>3. ASSUME i # n, c[i] # <<>> PROVE Found(i) \in A
    <3>1. Head(c[i]) \in E \cup {NULL}
      BY <2>1, <2>3, HeadTailProperties
    <3>2. i + 1 \in 1..NBuckets
      BY <1>2, <2>3
    <3> QED
      BY <2>1, <3>1, <3>2, WalkSet
  <2> QED
    BY <2>2, <2>3
<1> HIDE DEF A, Here, Found, m
<1>5. \A i \in D : \A g \in [D -> A] : step(i, g) \in A
  <2> SUFFICES ASSUME NEW i \in D, NEW g \in [D -> A] PROVE step(i, g) \in A
    OBVIOUS
  <2>1. i # n => g[i + 1] \in A
    BY <1>2
  <2> HIDE DEF n
  <2> QED
    BY <1>4, <2>1
<1>6. /\ F \in [D -> [[D -> A] -> A]]
      /\ \A i \in D : \A g \in [D -> A] : F[i][g] = step(i, g)
  <2> HIDE DEF D, step
  <2> QED
    BY <1>5
<1> DEFINE Is(f) == f = [i \in D |-> step(i, f)]
<1>7. \E g : Is(g)
  <2>1. \A i \in D : \A g, h \in [D -> A] :
          (\A q \in D : m[q] < m[i] => g[q] = h[q]) => F[i][g] = F[i][h]
    <3> SUFFICES ASSUME NEW i \in D, NEW g \in [D -> A], NEW h \in [D -> A],
                        \A q \in D : m[q] < m[i] => g[q] = h[q]
                 PROVE  F[i][g] = F[i][h]
      BY Zenon
    <3>1. i # n => g[i + 1] = h[i + 1]
      BY <1>2
    <3>2. step(i, g) = step(i, h)
      <4> HIDE DEF n
      <4> QED
        BY <3>1
    <3> HIDE DEF step, F, D
    <3> QED
      BY <1>6, <3>2
  <2> HIDE DEF D, F, step
  <2>2. Recurses(D, A, m, F)
    BY <1>6, <2>1 DEF Recurses
  <2>3. A # {}
    BY <1>1, <1>4
  <2>4. HasSolution(D, A, F)
    BY <1>1, <1>3, <2>2, <2>3, Recursion
  <2>5. PICK g \in [D -> A] : \A i \in D : g[i] = F[i][g]
    BY <2>4 DEF HasSolution
  <2>6. g = [i \in D |-> g[i]] /\ \A i \in D : g[i] = step(i, g)
    BY <1>6, <2>5
  <2>7. Is(g)
    BY <2>6, Zenon
  <2> QED
    BY <2>7
<1> DEFINE f == CHOOSE f : Is(f)
<1>8. Is(f)
  BY <1>7
<1>9. FirstChain(c, w) = IF w.nextdata = <<>> THEN f[w.index] ELSE [w EXCEPT !.data = Head(w.nextdata)]
  BY DEF FirstChain, Here, Found
<1> HIDE DEF f
<1>10. \A i \in D : f[i] = step(i, f)
  <2> HIDE DEF step, D
  <2> QED
    BY <1>8
<1> HIDE DEF Is
<1> DEFINE T == {k \in Nat : k < n => f[n - k] \in A}
<1> HIDE DEF n
<1>11. 0 \in T
  <2>1. f[n] \in A /\ n - 0 = n
    BY <1>1, <1>4, <1>10
  <2> QED
    BY <2>1
<1>12. ASSUME NEW k \in T, k \in Nat PROVE k + 1 \in T
  <2> SUFFICES ASSUME k + 1 < n PROVE f[n - (k + 1)] \in A
    BY <1>12
  <2> DEFINE i == n - (k + 1)
  <2>1. i \in D /\ i # n /\ i + 1 = n - k /\ k < n
    BY <1>1, <1>12
  <2>2. f[i + 1] \in A
    BY <1>12, <2>1
  <2> HIDE DEF T, i
  <2> QED
    BY <1>4, <1>10, <2>1, <2>2 DEF i
<1>13. \A k \in Nat : k \in T
  <2> HIDE DEF T
  <2> QED
    BY <1>11, <1>12, SetInduction
<1>14. f[w.index] \in A
  <2>1. w.index \in D
    BY WalkFields DEF n
  <2>2. n - w.index \in Nat /\ n - w.index < n /\ n - (n - w.index) = w.index
    BY <1>1, <2>1
  <2> QED
    BY <1>13, <2>2
<1>15. CASE w.nextdata # <<>>
  <2>1. Head(w.nextdata) \in E \cup {NULL}
    BY <1>15, WalkFields, HeadTailProperties
  <2>2. [w EXCEPT !.data = Head(w.nextdata)] \in Walk(E)
    BY <2>1, WalkData
  <2> QED
    BY <1>9, <1>15, <2>2
<1> QED
  BY <1>9, <1>14, <1>15 DEF A

\* So does the walk to the chain behind it.
LEMMA SecondChainIs ==
  ASSUME NEW E, NEW c \in [1..NBuckets -> Seq(E)], NEW w \in Walk(E)
  PROVE  SecondChain(c, w) \in Walk(E)
<1> DEFINE later == {i \in w.index + 1..NBuckets : c[i] # <<>>}
           to == IF later = {} THEN NBuckets ELSE Min(later)
<1>1. w.index \in 1..NBuckets /\ w.nextdata \in Seq(E) /\ NBuckets \in Nat \ {0}
  BY WalkFields, SizesAssumption
<1>2. later \subseteq Nat /\ later \subseteq 1..NBuckets
  BY <1>1
<1>3. later # {} => Min(later) \in later
  <2> HIDE DEF later
  <2> QED
    BY <1>2, MinOf
<1>4. to \in 1..NBuckets
  BY <1>1, <1>2, <1>3
<1>5. SecondChain(c, w) = IF Len(w.nextdata) > 1 THEN [w EXCEPT !.nextdata = Tail(@)]
                          ELSE IF later = {} THEN [w EXCEPT !.nextdata = <<>>, !.index = to]
                          ELSE [w EXCEPT !.nextdata = c[to], !.index = to]
  BY DEF SecondChain
<1> HIDE DEF later, to
<1>6. CASE Len(w.nextdata) > 1
  <2>1. w.nextdata # <<>>
    BY <1>6
  <2>2. Tail(w.nextdata) \in Seq(E)
    BY <1>1, <2>1, HeadTailProperties
  <2>3. [w EXCEPT !.nextdata = Tail(w.nextdata)] \in Walk(E)
    BY <2>2, WalkRest
  <2> QED
    BY <1>5, <1>6, <2>3
<1>7. <<>> \in Seq(E) /\ c[to] \in Seq(E)
  BY <1>4, EmptySeq
<1>8. NULL \in E \cup {NULL}
  OBVIOUS
<1>9. [w EXCEPT !.nextdata = <<>>, !.index = to] \in Walk(E) /\ [w EXCEPT !.nextdata = c[to], !.index = to] \in Walk(E)
  BY <1>4, <1>7, <1>8, WalkSet
<1> QED
  BY <1>5, <1>6, <1>9

\* So does a call of hashtable_nextdata.
LEMMA NextDataIs ==
  ASSUME NEW E, NEW c \in [1..NBuckets -> Seq(E)], NEW w \in Walk(E)
  PROVE  hashtable_nextdata(c, w) \in Walk(E)
<1>1. FirstChain(c, w) \in Walk(E)
  BY FirstChainIs
<1>2. SecondChain(c, FirstChain(c, w)) \in Walk(E)
  BY <1>1, SecondChainIs
<1>3. [SecondChain(c, FirstChain(c, w)) EXCEPT !.next_num = @ + 1] \in Walk(E)
  BY <1>2, WalkCount
<1>4. [w EXCEPT !.data = NULL] \in Walk(E)
  <2>1. NULL \in E \cup {NULL}
    OBVIOUS
  <2> QED
    BY <2>1, WalkData
<1> QED
  BY <1>1, <1>3, <1>4, Zenon DEF hashtable_nextdata

\* nextdata gives items of the chains, at most as many as it is asked for.
LEMMA CollectedIs ==
  ASSUME NEW E, NULL \notin E, NEW c \in [1..NBuckets -> Seq(E)], NEW k \in Nat
  PROVE  Collected(c, k) \in Seq(E) /\ Len(Collected(c, k)) <= k
<1> DEFINE A == [items : Seq(E), w : Walk(E)]
           b == [items |-> <<>>, w |-> [index |-> 1, nextdata |-> <<>>, data |-> NULL,
                                        next_num |-> 0, key_num |-> k]]
           Next1(x) == LET w == hashtable_nextdata(c, x.w)
                       IN [items |-> IF w.data = NULL THEN x.items ELSE Append(x.items, w.data),
                           w |-> w]
           step == [i \in 1..k |-> [x \in A |-> Next1(x)]]
<1>1. b \in A
  <2>1. <<>> \in Seq(E) /\ 1 \in 1..NBuckets
    BY EmptySeq, SizesAssumption
  <2> QED
    BY <2>1 DEF Walk
<1>2. \A x \in A : Next1(x) \in A /\ Len(Next1(x).items) <= Len(x.items) + 1
  <2> SUFFICES ASSUME NEW x \in A PROVE Next1(x) \in A /\ Len(Next1(x).items) <= Len(x.items) + 1
    OBVIOUS
  <2>1. x.items \in Seq(E) /\ x.w \in Walk(E) /\ Len(x.items) \in Nat
    BY LenProperties
  <2> DEFINE w == hashtable_nextdata(c, x.w)
  <2>2. w \in Walk(E) /\ w.data \in E \cup {NULL}
    BY <2>1, NextDataIs, WalkFields
  <2> HIDE DEF w, A
  <2>3. Next1(x) = [items |-> IF w.data = NULL THEN x.items ELSE Append(x.items, w.data), w |-> w]
    BY DEF w
  <2>4. CASE w.data = NULL
    <3>1. Next1(x) = [items |-> x.items, w |-> w]
      BY <2>3, <2>4
    <3> QED
      BY <2>1, <2>2, <3>1 DEF A
  <2>5. CASE w.data # NULL
    <3>1. Next1(x) = [items |-> Append(x.items, w.data), w |-> w]
      BY <2>3, <2>5
    <3>2. Append(x.items, w.data) \in Seq(E) /\ Len(Append(x.items, w.data)) = Len(x.items) + 1
      BY <2>1, <2>2, <2>5, AppendProperties
    <3> HIDE DEF Next1
    <3> QED
      BY <2>1, <2>2, <3>1, <3>2 DEF A
  <2> QED
    BY <2>4, <2>5
<1>3. step \in [1..k -> [A -> A]] /\ \A i \in 1..k : \A x \in A : step[i][x] = Next1(x)
  <2> HIDE DEF A, Next1
  <2> QED
    BY <1>2
<1> HIDE DEF A, step, Next1
<1> DEFINE Is(f) == f = [i \in 0..k |-> IF i = 0 THEN b ELSE Next1(f[i - 1])]
<1> HIDE DEF b
<1>4. \E g : Is(g)
  <2>1. Rounds(k, A, b, step)
    BY <1>1, <1>3, RoundsExist
  <2>2. PICK g \in [0..k -> A] : g[0] = b /\ \A i \in 1..k : g[i] = step[i][g[i - 1]]
    BY <2>1 DEF Rounds
  <2>3. \A i \in 0..k : g[i] = IF i = 0 THEN b ELSE Next1(g[i - 1])
    <3> SUFFICES ASSUME NEW i \in 0..k, i # 0 PROVE g[i] = Next1(g[i - 1])
      BY <2>2
    <3>1. i \in 1..k /\ i - 1 \in 0..k
      OBVIOUS
    <3> QED
      BY <1>3, <2>2, <3>1
  <2>4. g = [i \in 0..k |-> g[i]]
    BY <2>2
  <2>5. Is(g)
    BY <2>3, <2>4, Zenon
  <2> QED
    BY <2>5
<1> DEFINE f == CHOOSE f : Is(f)
<1>5. Is(f)
  BY <1>4
<1>6. Collected(c, k) = f[k].items
  BY DEF Collected, b, Next1
<1> HIDE DEF f
<1>7. \A i \in 0..k : f[i] = IF i = 0 THEN b ELSE Next1(f[i - 1])
  BY <1>5
<1> HIDE DEF Is
<1> DEFINE Good(i) == f[i] \in A /\ Len(f[i].items) <= i
           T == {i \in Nat : i <= k => Good(i)}
<1>8. 0 \in T
  <2>1. f[0] = b /\ Len(b.items) = 0
    BY <1>7, EmptySeq DEF b
  <2> QED
    BY <1>1, <2>1
<1>9. ASSUME NEW i \in T, i \in Nat PROVE i + 1 \in T
  <2> SUFFICES ASSUME i + 1 <= k PROVE Good(i + 1)
    <3> HIDE DEF Good
    <3> QED
      BY <1>9
  <2>1. i + 1 \in 0..k /\ i + 1 # 0 /\ (i + 1) - 1 = i /\ i <= k
    BY <1>9
  <2>2. f[i] \in A /\ Len(f[i].items) <= i
    BY <1>9, <2>1
  <2>3. f[i + 1] = Next1(f[i])
    BY <1>7, <2>1
  <2>4. f[i + 1] \in A /\ Len(f[i + 1].items) <= Len(f[i].items) + 1
    BY <1>2, <2>2, <2>3
  <2>5. Len(f[i].items) \in Nat /\ Len(f[i + 1].items) \in Nat
    <3>1. f[i].items \in Seq(E) /\ f[i + 1].items \in Seq(E)
      BY <2>2, <2>4 DEF A
    <3> QED
      BY <3>1, LenProperties
  <2> HIDE DEF T
  <2> QED
    BY <1>9, <2>2, <2>4, <2>5
<1>10. k \in T
  <2> HIDE DEF T
  <2> QED
    BY <1>8, <1>9, SetInduction
<1>11. f[k] \in A /\ Len(f[k].items) <= k
  BY <1>10
<1> QED
  BY <1>6, <1>11 DEF A

-----------------------------------------------------------------------------
(* Merging and sorting. *)

\* The items of s behind the i-th.
Rest(s, i) == {s[k] : k \in i + 1..Len(s)}

\* What is behind the i-th item of a sorted sequence is sorted.
LEMMA Suffix ==
  ASSUME NEW s \in Seq(Items), NEW i \in 0..Len(s), NonDecreasing(s)
  PROVE  /\ SubSeq(s, i + 1, Len(s)) \in Seq(Items)
         /\ Len(SubSeq(s, i + 1, Len(s))) = Len(s) - i
         /\ ToSet(SubSeq(s, i + 1, Len(s))) = Rest(s, i)
         /\ NonDecreasing(SubSeq(s, i + 1, Len(s)))
<1> DEFINE n == Len(s)
           t == SubSeq(s, i + 1, n)
<1>1. n \in Nat /\ \A k \in 1..n : s[k] \in Items
  BY LenProperties, ElementOfSeq
<1>2. \A k, l \in 1..n : k < l => Comparator(s[k], s[l]) # 1
  BY DEF NonDecreasing
<1> HIDE DEF n
<1>3. i + 1 \in Int /\ n \in Int /\ i \in 0..n /\ \A k \in i + 1..n : s[k] \in Items
  BY <1>1 DEF n
<1>4. /\ t \in Seq(Items) /\ Len(t) = (IF i + 1 <= n THEN n - (i + 1) + 1 ELSE 0)
      /\ \A k \in 1..n - (i + 1) + 1 : t[k] = s[i + 1 + k - 1]
  BY <1>3, SubSeqProperties
<1> HIDE DEF t
<1>5. Len(t) = n - i /\ \A k \in 1..n - i : t[k] = s[i + k]
  <2>1. Len(t) = n - i
    BY <1>1, <1>3, <1>4
  <2>2. ASSUME NEW k \in 1..n - i PROVE t[k] = s[i + k]
    <3>1. k \in 1..n - (i + 1) + 1 /\ i + 1 + k - 1 = i + k
      BY <1>1, <1>3
    <3> QED
      BY <1>4, <3>1
  <2> QED
    BY <2>1, <2>2
<1>6. ToSet(t) = {t[k] : k \in 1..n - i}
  BY <1>4, <1>5, ToSetIs
<1>7. ToSet(t) = Rest(s, i)
  <2>1. \A k \in 1..n - i : i + k \in i + 1..n
    BY <1>1, <1>3
  <2>2. \A k \in i + 1..n : k - i \in 1..n - i /\ i + (k - i) = k
    BY <1>1, <1>3
  <2>3. Rest(s, i) = {s[k] : k \in i + 1..n}
    BY DEF Rest, n
  <2>4. \A x \in ToSet(t) : x \in Rest(s, i)
    BY <1>5, <1>6, <2>1, <2>3
  <2>5. \A x \in Rest(s, i) : x \in ToSet(t)
    <3> SUFFICES ASSUME NEW k \in i + 1..n PROVE s[k] \in ToSet(t)
      BY <2>3
    <3>1. s[k] = t[k - i]
      BY <1>5, <2>2
    <3> QED
      BY <1>6, <2>2, <3>1
  <2> QED
    BY <2>4, <2>5
<1>8. NonDecreasing(t)
  <2>1. ASSUME NEW k \in 1..Len(t), NEW l \in 1..Len(t), k < l PROVE Comparator(t[k], t[l]) # 1
    <3>1. /\ k \in 1..n - i /\ l \in 1..n - i /\ i + k \in 1..n /\ i + l \in 1..n /\ i + k < i + l
      BY <1>1, <1>3, <1>5, <2>1
    <3> QED
      BY <1>2, <1>5, <3>1
  <2> QED
    BY <2>1 DEF NonDecreasing
<1> QED
  BY <1>4, <1>5, <1>7, <1>8 DEF t, n

\* An item that is not greater may be put in front.
LEMMA OneBefore ==
  ASSUME NEW x \in Items, NEW s \in Seq(Items), NonDecreasing(s),
         \A y \in ToSet(s) : Comparator(x, y) # 1
  PROVE  /\ <<x>> \o s \in Seq(Items) /\ Len(<<x>> \o s) = Len(s) + 1
         /\ ToSet(<<x>> \o s) = {x} \cup ToSet(s)
         /\ NonDecreasing(<<x>> \o s)
<1> DEFINE q == <<x>>
           n == Len(s)
           t == q \o s
<1>1. q \in Seq(Items) /\ Len(q) = 1 /\ q[1] = x
  OBVIOUS
<1> HIDE DEF q
<1>2. n \in Nat /\ ToSet(s) = {s[k] : k \in 1..n} /\ ToSet(q) = {q[k] : k \in 1..1}
  BY <1>1, LenProperties, ToSetIs
<1>3. /\ t \in Seq(Items) /\ Len(t) = Len(q) + n
      /\ \A i \in 1..Len(q) + n : t[i] = IF i <= Len(q) THEN q[i] ELSE s[i - Len(q)]
  BY <1>1, ConcatProperties
<1>4. ToSet(t) = ToSet(q) \cup ToSet(s)
  BY <1>1, ToSetConcat
<1>5. \A i, j \in 1..n : i < j => Comparator(s[i], s[j]) # 1
  BY DEF NonDecreasing
<1> HIDE DEF t, n
<1>6. t[1] = x /\ \A i \in 2..n + 1 : t[i] = s[i - 1] /\ i - 1 \in 1..n
  BY <1>1, <1>2, <1>3
<1>7. Len(t) = n + 1
  BY <1>1, <1>2, <1>3
<1>8. ToSet(q) = {x}
  BY <1>1, <1>2
<1>9. NonDecreasing(t)
  <2>1. ASSUME NEW i \in 1..n + 1, NEW j \in 1..n + 1, i < j PROVE Comparator(t[i], t[j]) # 1
    <3>1. j \in 2..n + 1 /\ (i = 1 \/ i \in 2..n + 1)
      BY <1>2, <2>1
    <3>2. CASE i = 1
      BY <1>2, <1>6, <3>1, <3>2
    <3>3. CASE i \in 2..n + 1
      <4>1. i - 1 < j - 1
        BY <1>2, <2>1
      <4> QED
        BY <1>5, <1>6, <3>1, <3>3, <4>1
    <3> QED
      BY <3>1, <3>2, <3>3
  <2> QED
    BY <1>7, <2>1 DEF NonDecreasing
<1> QED
  BY <1>3, <1>4, <1>7, <1>8, <1>9 DEF q, t, n

\* x comes before everything from its own place on.
LEMMA LeastOfRest ==
  ASSUME NEW s \in Seq(Items), NonDecreasing(s), NEW i \in 0..Len(s) - 1
  PROVE  /\ s[i + 1] \in Items
         /\ Rest(s, i) = {s[i + 1]} \cup Rest(s, i + 1)
         /\ \A x \in Items : Comparator(x, s[i + 1]) # 1 =>
              \A y \in Rest(s, i) : Comparator(x, y) # 1
         /\ \A y \in Rest(s, i + 1) : Comparator(s[i + 1], y) # 1
<1> DEFINE n == Len(s)
<1>1. n \in Nat /\ \A k \in 1..n : s[k] \in Items
  BY LenProperties, ElementOfSeq
<1>2. \A k, l \in 1..n : k < l => Comparator(s[k], s[l]) # 1
  BY DEF NonDecreasing
<1>3. Rest(s, i) = {s[k] : k \in i + 1..n} /\ Rest(s, i + 1) = {s[k] : k \in i + 2..n}
  BY DEF Rest
<1>0. i \in 0..n - 1
  OBVIOUS
<1> HIDE DEF n
<1>4. i + 1..n = {i + 1} \cup (i + 2..n) /\ i + 1 \in 1..n /\ \A k \in i + 2..n : k \in 1..n /\ i + 1 < k
  BY <1>0, <1>1
<1>5. \A y \in Rest(s, i + 1) : Comparator(s[i + 1], y) # 1 /\ y \in Items
  BY <1>1, <1>2, <1>3, <1>4
<1>6. Rest(s, i) = {s[i + 1]} \cup Rest(s, i + 1)
  BY <1>3, <1>4
<1>7. \A d \in Items : d \in data_t
  BY DEF Items
<1>8. ASSUME NEW x \in Items, Comparator(x, s[i + 1]) # 1, NEW y \in Rest(s, i)
      PROVE  Comparator(x, y) # 1
  <2>1. CASE y = s[i + 1]
    BY <1>8, <2>1
  <2>2. CASE y \in Rest(s, i + 1)
    <3>1. x \in data_t /\ y \in data_t /\ s[i + 1] \in data_t /\ Comparator(s[i + 1], y) # 1
      BY <1>1, <1>4, <1>5, <1>7, <2>2
    <3> QED
      BY <1>8, <3>1, NotGreater
  <2> QED
    BY <1>6, <2>1, <2>2
<1> QED
  BY <1>1, <1>4, <1>5, <1>6, <1>8

\* One step of merge_no_sentinel.
MergeStep(left, right, from, g) ==
  LET i == from[1]  j == from[2]
  IN IF i = Len(left) THEN SubSeq(right, j + 1, Len(right))
     ELSE IF j = Len(right) THEN SubSeq(left, i + 1, Len(left))
     ELSE IF Comparator(left[i + 1], right[j + 1]) < 1 THEN <<left[i + 1]>> \o g[<<i + 1, j>>]
     ELSE <<right[j + 1]>> \o g[<<i, j + 1>>]

\* The merge is the recursive function it is written as.
LEMMA MergeExists ==
  ASSUME NEW left \in Seq(Items), NEW right \in Seq(Items), NonDecreasing(left), NonDecreasing(right)
  PROVE  \E f : /\ \A from \in (0..Len(left)) \X (0..Len(right)) : f[from] = MergeStep(left, right, from, f)
                /\ merge_no_sentinel(left, right) = f[<<0, 0>>]
<1> DEFINE p == Len(left)
           q == Len(right)
           D == (0..p) \X (0..q)
           A == Seq(Items)
           m == [from \in D |-> (p - from[1]) + (q - from[2])]
           F == [from \in D |-> [g \in [D -> A] |-> MergeStep(left, right, from, g)]]
<1>1. p \in Nat /\ q \in Nat
  BY LenProperties
<1>2. /\ \A i \in 1..p : left[i] \in Items
      /\ \A j \in 1..q : right[j] \in Items
      /\ \A i \in 0..p : SubSeq(left, i + 1, p) \in A
      /\ \A j \in 0..q : SubSeq(right, j + 1, q) \in A
  BY ElementOfSeq, Suffix
<1>3. \A from \in D : from[1] \in 0..p /\ from[2] \in 0..q
  OBVIOUS
<1>4. \A i \in 0..p, j \in 0..q : <<i, j>> \in D /\ m[<<i, j>>] = (p - i) + (q - j)
  OBVIOUS
<1>5. m \in [D -> 0..p + q] /\ \A from \in D : m[from] = (p - from[1]) + (q - from[2])
  BY <1>1
<1>6. ASSUME NEW from \in D, from[1] # p, from[2] # q
      PROVE  /\ <<from[1] + 1, from[2]>> \in D /\ m[<<from[1] + 1, from[2]>>] < m[from]
             /\ <<from[1], from[2] + 1>> \in D /\ m[<<from[1], from[2] + 1>>] < m[from]
             /\ from[1] + 1 \in 1..p /\ from[2] + 1 \in 1..q
  <2> DEFINE i == from[1]
             j == from[2]
  <2>1. i \in 0..p /\ j \in 0..q /\ m[from] = (p - i) + (q - j)
    BY <1>3, <1>5
  <2>a. i # p /\ j # q
    BY <1>6
  <2> HIDE DEF i, j, D, m, p, q
  <2>2. i + 1 \in 0..p /\ j + 1 \in 0..q /\ i + 1 \in 1..p /\ j + 1 \in 1..q
    BY <1>1, <2>1, <2>a
  <2>3. /\ <<i + 1, j>> \in D /\ m[<<i + 1, j>>] = (p - (i + 1)) + (q - j)
        /\ <<i, j + 1>> \in D /\ m[<<i, j + 1>>] = (p - i) + (q - (j + 1))
    BY <1>4, <2>1, <2>2
  <2>4. m[<<i + 1, j>>] < m[from] /\ m[<<i, j + 1>>] < m[from]
    BY <1>1, <2>1, <2>2, <2>3
  <2> QED
    BY <2>2, <2>3, <2>4, Zenon DEF i, j
<1> HIDE DEF m
<1>7. \A from \in D : \A g \in [D -> A] : MergeStep(left, right, from, g) \in A
  <2> SUFFICES ASSUME NEW from \in D, NEW g \in [D -> A] PROVE MergeStep(left, right, from, g) \in A
    OBVIOUS
  <2>1. CASE from[1] = p \/ from[2] = q
    BY <1>2, <1>3, <2>1 DEF MergeStep
  <2>2. CASE from[1] # p /\ from[2] # q
    <3> DEFINE i == from[1]
               j == from[2]
    <3>1. /\ left[i + 1] \in Items /\ right[j + 1] \in Items
          /\ g[<<i + 1, j>>] \in A /\ g[<<i, j + 1>>] \in A
      BY <1>2, <1>6, <2>2
    <3>2. MergeStep(left, right, from, g) \in {<<left[i + 1]>> \o g[<<i + 1, j>>],
                                               <<right[j + 1]>> \o g[<<i, j + 1>>]}
      BY <2>2 DEF MergeStep
    <3> HIDE DEF i, j
    <3>3. <<left[i + 1]>> \in A /\ <<right[j + 1]>> \in A
      BY <3>1
    <3>4. <<left[i + 1]>> \o g[<<i + 1, j>>] \in A /\ <<right[j + 1]>> \o g[<<i, j + 1>>] \in A
      BY <3>1, <3>3, ConcatProperties
    <3> QED
      BY <3>2, <3>4
  <2> QED
    BY <2>1, <2>2
<1> HIDE DEF A
<1>8. /\ F \in [D -> [[D -> A] -> A]]
      /\ \A from \in D : \A g \in [D -> A] : F[from][g] = MergeStep(left, right, from, g)
  <2> HIDE DEF D
  <2> QED
    BY <1>7
<1> DEFINE Is(f) == f = [from \in D |-> MergeStep(left, right, from, f)]
<1>9. \E g : Is(g)
  <2>1. ASSUME NEW from \in D, NEW g \in [D -> A], NEW h \in [D -> A],
               \A x \in D : m[x] < m[from] => g[x] = h[x]
        PROVE  F[from][g] = F[from][h]
    <3>1. CASE from[1] = p \/ from[2] = q
      <4>1. MergeStep(left, right, from, g) = MergeStep(left, right, from, h)
        BY <3>1 DEF MergeStep
      <4> HIDE DEF F, D
      <4> QED
        BY <1>8, <4>1
    <3>2. CASE from[1] # p /\ from[2] # q
      <4>1. g[<<from[1] + 1, from[2]>>] = h[<<from[1] + 1, from[2]>>]
            /\ g[<<from[1], from[2] + 1>>] = h[<<from[1], from[2] + 1>>]
        <5> HIDE DEF D
        <5> QED
          BY <1>6, <2>1, <3>2
      <4>2. MergeStep(left, right, from, g) = MergeStep(left, right, from, h)
        BY <4>1 DEF MergeStep
      <4> HIDE DEF F, D
      <4> QED
        BY <1>8, <4>2
    <3> QED
      BY <3>1, <3>2
  <2> HIDE DEF D, F
  <2>2. Recurses(D, A, m, F)
    BY <1>8, <2>1 DEF Recurses
  <2>3. A # {}
    BY EmptySeq DEF A
  <2>4. HasSolution(D, A, F)
    <3>1. p + q \in Nat
      BY <1>1
    <3> QED
      BY <1>5, <2>2, <2>3, <3>1, Recursion
  <2>5. PICK g \in [D -> A] : \A from \in D : g[from] = F[from][g]
    BY <2>4 DEF HasSolution
  <2>6. g = [from \in D |-> g[from]] /\ \A from \in D : g[from] = MergeStep(left, right, from, g)
    BY <1>8, <2>5
  <2>7. Is(g)
    BY <2>6, Zenon
  <2> QED
    BY <2>7
<1> DEFINE f == CHOOSE f : Is(f)
<1>10. Is(f)
  BY <1>9
<1>11. merge_no_sentinel(left, right) = f[<<0, 0>>]
  BY DEF merge_no_sentinel, MergeStep
<1> HIDE DEF f
<1>12. \A from \in D : f[from] = MergeStep(left, right, from, f)
  <2> HIDE DEF D
  <2> QED
    BY <1>10
<1> QED
  BY <1>11, <1>12

\* s holds n items, those of S, in order.
Holds(s, n, S) == s \in Seq(Items) /\ Len(s) = n /\ ToSet(s) = S /\ NonDecreasing(s)

\* A step of the merge takes the least item of what is left of both.
LEMMA MergeStepIs ==
  ASSUME NEW left \in Seq(Items), NEW right \in Seq(Items), NonDecreasing(left), NonDecreasing(right),
         NEW f, NEW i \in 0..Len(left), NEW j \in 0..Len(right),
         i < Len(left) /\ j < Len(right) =>
           /\ Holds(f[<<i + 1, j>>], (Len(left) - (i + 1)) + (Len(right) - j), Rest(left, i + 1) \cup Rest(right, j))
           /\ Holds(f[<<i, j + 1>>], (Len(left) - i) + (Len(right) - (j + 1)), Rest(left, i) \cup Rest(right, j + 1))
  PROVE  Holds(MergeStep(left, right, <<i, j>>, f), (Len(left) - i) + (Len(right) - j),
               Rest(left, i) \cup Rest(right, j))
<1> DEFINE p == Len(left)
           q == Len(right)
           x == left[i + 1]
           y == right[j + 1]
           S == Rest(left, i) \cup Rest(right, j)
           s == MergeStep(left, right, <<i, j>>, f)
<1>1. p \in Nat /\ q \in Nat /\ i \in 0..p /\ j \in 0..q
  BY LenProperties
<1>2. s = IF i = p THEN SubSeq(right, j + 1, q)
          ELSE IF j = q THEN SubSeq(left, i + 1, p)
          ELSE IF Comparator(x, y) < 1 THEN <<x>> \o f[<<i + 1, j>>]
          ELSE <<y>> \o f[<<i, j + 1>>]
  BY DEF MergeStep
<1>3. CASE i = p
  <2>1. Rest(left, i) = {}
    <3>1. i + 1..Len(left) = {}
      BY <1>1, <1>3
    <3> QED
      BY <3>1 DEF Rest
  <2>2. Holds(SubSeq(right, j + 1, q), q - j, Rest(right, j))
    BY Suffix DEF Holds
  <2>3. S = Rest(right, j) /\ s = SubSeq(right, j + 1, q)
    BY <1>2, <1>3, <2>1
  <2>a. q - j = (p - i) + (q - j)
    <3> HIDE DEF p, q
    <3> QED
      BY <1>1, <1>3
  <2> HIDE DEF s, S
  <2>4. Holds(s, (p - i) + (q - j), S)
    BY <2>2, <2>3, <2>a
  <2> QED
    BY <2>4 DEF s, S
<1>4. CASE i # p /\ j = q
  <2>1. Rest(right, j) = {}
    <3>1. j + 1..Len(right) = {}
      BY <1>1, <1>4
    <3> QED
      BY <3>1 DEF Rest
  <2>2. Holds(SubSeq(left, i + 1, p), p - i, Rest(left, i))
    BY Suffix DEF Holds
  <2>3. S = Rest(left, i) /\ s = SubSeq(left, i + 1, p)
    BY <1>2, <1>4, <2>1
  <2>a. p - i = (p - i) + (q - j)
    <3> HIDE DEF p, q
    <3> QED
      BY <1>1, <1>4
  <2> HIDE DEF s, S
  <2>4. Holds(s, (p - i) + (q - j), S)
    BY <2>2, <2>3, <2>a
  <2> QED
    BY <2>4 DEF s, S
<1>5. CASE i # p /\ j # q
  <2>1. i \in 0..p - 1 /\ j \in 0..q - 1 /\ i < p /\ j < q
    BY <1>1, <1>5
  <2>2. /\ x \in Items /\ Rest(left, i) = {x} \cup Rest(left, i + 1)
        /\ \A d \in Items : Comparator(d, x) # 1 => \A e \in Rest(left, i) : Comparator(d, e) # 1
        /\ \A e \in Rest(left, i + 1) : Comparator(x, e) # 1
    BY <2>1, LeastOfRest
  <2>3. /\ y \in Items /\ Rest(right, j) = {y} \cup Rest(right, j + 1)
        /\ \A d \in Items : Comparator(d, y) # 1 => \A e \in Rest(right, j) : Comparator(d, e) # 1
        /\ \A e \in Rest(right, j + 1) : Comparator(y, e) # 1
    BY <2>1, LeastOfRest
  <2>4. x \in data_t /\ y \in data_t
    BY <2>2, <2>3 DEF Items
  <2>5. Comparator(x, y) \in {-1, 0, 1} /\ (Comparator(x, y) = 1 <=> Comparator(y, x) = -1)
    BY <2>4, ItemOrder
  <2>6. CASE Comparator(x, y) < 1
    <3> DEFINE g == f[<<i + 1, j>>]
    <3>1. /\ g \in Seq(Items) /\ Len(g) = (p - (i + 1)) + (q - j) /\ NonDecreasing(g)
          /\ ToSet(g) = Rest(left, i + 1) \cup Rest(right, j)
      BY <2>1 DEF Holds
    <3>2. s = <<x>> \o g
      BY <1>2, <1>5, <2>6
    <3> HIDE DEF g, s
    <3>3. Comparator(x, y) # 1
      BY <2>6
    <3>4. \A e \in ToSet(g) : Comparator(x, e) # 1
      BY <2>2, <2>3, <3>1, <3>3
    <3> HIDE DEF x, y
    <3>5. /\ <<x>> \o g \in Seq(Items) /\ Len(<<x>> \o g) = Len(g) + 1
          /\ ToSet(<<x>> \o g) = {x} \cup ToSet(g) /\ NonDecreasing(<<x>> \o g)
      BY <2>2, <3>1, <3>4, OneBefore
    <3>6. Len(g) + 1 = (p - i) + (q - j)
      BY <1>1, <3>1
    <3>7. {x} \cup ToSet(g) = S
      BY <2>2, <3>1
    <3> HIDE DEF S
    <3>8. Holds(s, (p - i) + (q - j), S)
      BY <3>2, <3>5, <3>6, <3>7 DEF Holds
    <3> QED
      BY <3>8 DEF s, S
  <2>7. CASE ~(Comparator(x, y) < 1)
    <3> DEFINE g == f[<<i, j + 1>>]
    <3>1. /\ g \in Seq(Items) /\ Len(g) = (p - i) + (q - (j + 1)) /\ NonDecreasing(g)
          /\ ToSet(g) = Rest(left, i) \cup Rest(right, j + 1)
      BY <2>1 DEF Holds
    <3>2. s = <<y>> \o g
      BY <1>2, <1>5, <2>7
    <3> HIDE DEF g, s
    <3>3. Comparator(y, x) # 1
      BY <2>5, <2>7
    <3>4. \A e \in ToSet(g) : Comparator(y, e) # 1
      BY <2>2, <2>3, <3>1, <3>3
    <3> HIDE DEF x, y
    <3>5. /\ <<y>> \o g \in Seq(Items) /\ Len(<<y>> \o g) = Len(g) + 1
          /\ ToSet(<<y>> \o g) = {y} \cup ToSet(g) /\ NonDecreasing(<<y>> \o g)
      BY <2>3, <3>1, <3>4, OneBefore
    <3>6. Len(g) + 1 = (p - i) + (q - j)
      BY <1>1, <3>1
    <3>7. {y} \cup ToSet(g) = S
      BY <2>3, <3>1
    <3> HIDE DEF S
    <3>8. Holds(s, (p - i) + (q - j), S)
      BY <3>2, <3>5, <3>6, <3>7 DEF Holds
    <3> QED
      BY <3>8 DEF s, S
  <2> QED
    BY <2>6, <2>7
<1> QED
  BY <1>3, <1>4, <1>5

\* Merging two sorted arrays gives the items of both, in order.
LEMMA MergeIs ==
  ASSUME NEW left \in Seq(Items), NEW right \in Seq(Items), NonDecreasing(left), NonDecreasing(right)
  PROVE  Holds(merge_no_sentinel(left, right), Len(left) + Len(right), ToSet(left) \cup ToSet(right))
<1> DEFINE p == Len(left)
           q == Len(right)
<1>1. p \in Nat /\ q \in Nat /\ ToSet(left) = {left[k] : k \in 1..p} /\ ToSet(right) = {right[k] : k \in 1..q}
  BY LenProperties, ToSetIs
<1>2. PICK f : /\ \A from \in (0..p) \X (0..q) : f[from] = MergeStep(left, right, from, f)
               /\ merge_no_sentinel(left, right) = f[<<0, 0>>]
  BY MergeExists
<1>3. \A i \in 0..p, j \in 0..q : f[<<i, j>>] = MergeStep(left, right, <<i, j>>, f)
  BY <1>2
<1> DEFINE Good(i, j) == Holds(f[<<i, j>>], (p - i) + (q - j), Rest(left, i) \cup Rest(right, j))
           T == {k \in Nat : \A i \in 0..p, j \in 0..q : (p - i) + (q - j) = k => Good(i, j)}
<1>4. ASSUME NEW i \in 0..p, NEW j \in 0..q, i < p /\ j < q => Good(i + 1, j) /\ Good(i, j + 1)
      PROVE  Good(i, j)
  <2>1. i < p /\ j < q =>
           /\ Holds(f[<<i + 1, j>>], (p - (i + 1)) + (q - j), Rest(left, i + 1) \cup Rest(right, j))
           /\ Holds(f[<<i, j + 1>>], (p - i) + (q - (j + 1)), Rest(left, i) \cup Rest(right, j + 1))
    BY <1>4
  <2>2. Holds(MergeStep(left, right, <<i, j>>, f), (p - i) + (q - j), Rest(left, i) \cup Rest(right, j))
    BY <2>1, MergeStepIs
  <2> QED
    BY <1>3, <2>2
<1> HIDE DEF p, q, Good
<1>5. 0 \in T
  <2> SUFFICES ASSUME NEW i \in 0..p, NEW j \in 0..q, (p - i) + (q - j) = 0 PROVE Good(i, j)
    OBVIOUS
  <2>1. ~(i < p)
    BY <1>1
  <2> QED
    BY <1>4, <2>1
<1>6. ASSUME NEW k \in T, k \in Nat PROVE k + 1 \in T
  <2> SUFFICES ASSUME NEW i \in 0..p, NEW j \in 0..q, (p - i) + (q - j) = k + 1 PROVE Good(i, j)
    BY <1>6
  <2>1. \A r \in 0..p, s \in 0..q : (p - r) + (q - s) = k => Good(r, s)
    BY <1>6
  <2>2. ASSUME i < p, j < q PROVE Good(i + 1, j) /\ Good(i, j + 1)
    <3> HIDE DEF T
    <3>1. /\ i + 1 \in 0..p /\ j + 1 \in 0..q /\ (p - (i + 1)) + (q - j) = k
          /\ (p - i) + (q - (j + 1)) = k
      BY <1>1, <1>6, <2>2
    <3> QED
      BY <2>1, <3>1
  <2> QED
    BY <1>4, <2>2
<1>7. \A k \in Nat : k \in T
  <2> HIDE DEF T
  <2> QED
    BY <1>5, <1>6, SetInduction
<1>8. Good(0, 0)
  <2>1. p + q \in T /\ 0 \in 0..p /\ 0 \in 0..q /\ (p - 0) + (q - 0) = p + q
    <3>1. \A a, b \in Nat : a + b \in Nat /\ 0 \in 0..a /\ 0 \in 0..b /\ (a - 0) + (b - 0) = a + b
      OBVIOUS
    <3> HIDE DEF T, p, q
    <3>2. p + q \in Nat
      BY ONLY <1>1, <3>1
    <3>3. 0 \in 0..p /\ 0 \in 0..q /\ (p - 0) + (q - 0) = p + q
      BY ONLY <1>1, <3>1
    <3> QED
      BY <1>7, <3>2, <3>3
  <2> QED
    BY <2>1
<1>9. Rest(left, 0) = ToSet(left) /\ Rest(right, 0) = ToSet(right)
  <2>1. Rest(left, 0) = {left[k] : k \in 0 + 1..p} /\ Rest(right, 0) = {right[k] : k \in 0 + 1..q}
    BY DEF Rest, p, q
  <2>2. 0 + 1 = 1
    OBVIOUS
  <2> QED
    BY <1>1, <2>1, <2>2
<1>10. Holds(f[<<0, 0>>], (p - 0) + (q - 0), ToSet(left) \cup ToSet(right))
  BY <1>8, <1>9 DEF Good
<1>11. (p - 0) + (q - 0) = p + q
  BY <1>1
<1> QED
  BY <1>2, <1>10, <1>11 DEF p, q

\* The sorted sequences, and the middle of a part from i to j.
InOrderSeqs == {s \in Seq(Items) : NonDecreasing(s)}

Half(i, j) == (i - 1 + j - 1) \div 2 + 1

\* The middle leaves something on both sides.
LEMMA HalfIs ==
  ASSUME NEW i \in Nat, NEW j \in Nat, i < j, i >= 1
  PROVE  Half(i, j) \in i..j - 1
BY DEF Half

\* A step of the merge sort: the two halves of a part, merged.
SortStep(items, part, g) ==
  IF part[1] >= part[2] THEN <<items[part[1]]>>
  ELSE merge_no_sentinel(g[<<part[1], Half(part[1], part[2])>>], g[<<Half(part[1], part[2]) + 1, part[2]>>])

\* A part of one item is sorted.
LEMMA OneItem ==
  ASSUME NEW x \in Items
  PROVE  Holds(<<x>>, 1, {x}) /\ <<x>> \in InOrderSeqs
<1>1. <<>> \in Seq(Items) /\ Len(<<>>) = 0
  BY EmptySeq
<1>2. NonDecreasing(<<>>) /\ ToSet(<<>>) = {}
  BY <1>1 DEF NonDecreasing, ToSet
<1>3. /\ <<x>> \o <<>> \in Seq(Items) /\ Len(<<x>> \o <<>>) = 0 + 1
      /\ ToSet(<<x>> \o <<>>) = {x} \cup {} /\ NonDecreasing(<<x>> \o <<>>)
  BY <1>1, <1>2, OneBefore
<1>4. <<x>> \o <<>> = <<x>>
  <2>1. <<x>> \in Seq(Items)
    OBVIOUS
  <2> QED
    BY <2>1, ConcatEmptySeq
<1> QED
  BY <1>3, <1>4 DEF Holds, InOrderSeqs

\* Merging sorted sequences gives a sorted one.
LEMMA MergeIn ==
  ASSUME NEW left \in InOrderSeqs, NEW right \in InOrderSeqs
  PROVE  merge_no_sentinel(left, right) \in InOrderSeqs
BY MergeIs DEF InOrderSeqs, Holds

\* The merge sort is the recursive function it is written as.
LEMMA SortExists ==
  ASSUME NEW items \in Seq(Items), Len(items) > 0
  PROVE  \E f : /\ \A i, j \in 1..Len(items) : f[<<i, j>>] = SortStep(items, <<i, j>>, f)
                /\ merge_sort(items) = f[<<1, Len(items)>>]
<1> DEFINE n == Len(items)
           D == (1..n) \X (1..n)
           A == InOrderSeqs
           m == [p \in D |-> IF p[1] >= p[2] THEN 0 ELSE p[2] - p[1]]
           F == [p \in D |-> [g \in [D -> A] |-> SortStep(items, p, g)]]
<1>1. n \in Nat /\ n > 0 /\ \A i \in 1..n : items[i] \in Items
  BY LenProperties, ElementOfSeq
<1>2. \A p \in D : p[1] \in 1..n /\ p[2] \in 1..n
  OBVIOUS
<1>3. \A i, j \in 1..n : <<i, j>> \in D /\ m[<<i, j>>] = IF i >= j THEN 0 ELSE j - i
  OBVIOUS
<1>4. m \in [D -> 0..n] /\ \A p \in D : m[p] = IF p[1] >= p[2] THEN 0 ELSE p[2] - p[1]
  BY <1>1
<1> HIDE DEF m
<1>5. ASSUME NEW p \in D, ~(p[1] >= p[2])
      PROVE  /\ <<p[1], Half(p[1], p[2])>> \in D /\ m[<<p[1], Half(p[1], p[2])>>] < m[p]
             /\ <<Half(p[1], p[2]) + 1, p[2]>> \in D /\ m[<<Half(p[1], p[2]) + 1, p[2]>>] < m[p]
  <2> DEFINE i == p[1]
             j == p[2]
             h == Half(i, j)
  <2>1. i \in 1..n /\ j \in 1..n /\ i < j /\ m[p] = j - i
    BY <1>2, <1>4, <1>5
  <2> HIDE DEF i, j, D, n
  <2>2. h \in i..j - 1
    BY <2>1, <1>1, HalfIs
  <2> HIDE DEF h
  <2>3. h \in 1..n /\ h + 1 \in 1..n /\ h \in Nat
    BY <1>1, <2>1, <2>2
  <2>4. /\ <<i, h>> \in D /\ m[<<i, h>>] = (IF i >= h THEN 0 ELSE h - i)
        /\ <<h + 1, j>> \in D /\ m[<<h + 1, j>>] = IF h + 1 >= j THEN 0 ELSE j - (h + 1)
    BY <1>3, <2>1, <2>3
  <2>5. m[<<i, h>>] < m[p] /\ m[<<h + 1, j>>] < m[p]
    BY <1>1, <2>1, <2>2, <2>3, <2>4
  <2> QED
    BY <2>4, <2>5, Zenon DEF i, j, h
<1>6. \A p \in D : \A g \in [D -> A] : SortStep(items, p, g) \in A
  <2> SUFFICES ASSUME NEW p \in D, NEW g \in [D -> A] PROVE SortStep(items, p, g) \in A
    OBVIOUS
  <2>1. CASE p[1] >= p[2]
    <3>1. items[p[1]] \in Items
      BY <1>1, <1>2
    <3> HIDE DEF A
    <3> QED
      BY <2>1, <3>1, OneItem DEF SortStep, A
  <2>2. CASE ~(p[1] >= p[2])
    <3>1. g[<<p[1], Half(p[1], p[2])>>] \in A /\ g[<<Half(p[1], p[2]) + 1, p[2]>>] \in A
      <4> HIDE DEF D, A
      <4> QED
        BY <1>5, <2>2
    <3> QED
      BY <2>2, <3>1, MergeIn DEF SortStep
  <2> QED
    BY <2>1, <2>2
<1>7. A # {}
  <2>1. items[1] \in Items
    BY <1>1
  <2>2. <<items[1]>> \in A
    BY <2>1, OneItem
  <2> QED
    BY <2>2
<1> HIDE DEF A
<1>8. /\ F \in [D -> [[D -> A] -> A]]
      /\ \A p \in D : \A g \in [D -> A] : F[p][g] = SortStep(items, p, g)
  <2> HIDE DEF D
  <2> QED
    BY <1>6
<1> DEFINE Is(f) == f = [p \in D |-> SortStep(items, p, f)]
<1>9. \E g : Is(g)
  <2>1. ASSUME NEW p \in D, NEW g \in [D -> A], NEW h \in [D -> A],
               \A x \in D : m[x] < m[p] => g[x] = h[x]
        PROVE  F[p][g] = F[p][h]
    <3>1. CASE p[1] >= p[2]
      <4>1. SortStep(items, p, g) = SortStep(items, p, h)
        BY <3>1 DEF SortStep
      <4> HIDE DEF F, D
      <4> QED
        BY <1>8, <4>1
    <3>2. CASE ~(p[1] >= p[2])
      <4>1. /\ g[<<p[1], Half(p[1], p[2])>>] = h[<<p[1], Half(p[1], p[2])>>]
            /\ g[<<Half(p[1], p[2]) + 1, p[2]>>] = h[<<Half(p[1], p[2]) + 1, p[2]>>]
        <5> HIDE DEF D
        <5> QED
          BY <1>5, <2>1, <3>2
      <4>2. SortStep(items, p, g) = SortStep(items, p, h)
        BY <4>1 DEF SortStep
      <4> HIDE DEF F, D
      <4> QED
        BY <1>8, <4>2
    <3> QED
      BY <3>1, <3>2
  <2> HIDE DEF D, F
  <2>2. Recurses(D, A, m, F)
    BY <1>8, <2>1 DEF Recurses
  <2>3. HasSolution(D, A, F)
    BY <1>1, <1>4, <1>7, <2>2, Recursion
  <2>4. PICK g \in [D -> A] : \A p \in D : g[p] = F[p][g]
    BY <2>3 DEF HasSolution
  <2>5. g = [p \in D |-> g[p]] /\ \A p \in D : g[p] = SortStep(items, p, g)
    BY <1>8, <2>4
  <2>6. Is(g)
    BY <2>5, Zenon
  <2> QED
    BY <2>6
<1> DEFINE f == CHOOSE f : Is(f)
<1>10. Is(f)
  BY <1>9
<1>11. merge_sort(items) = f[<<1, n>>]
  <2>1. items # <<>>
    BY EmptySeq
  <2> QED
    BY <2>1 DEF merge_sort, SortStep, Half
<1> HIDE DEF f
<1>12. \A p \in D : f[p] = SortStep(items, p, f)
  <2> HIDE DEF D
  <2> QED
    BY <1>10
<1>13. \A i, j \in 1..n : f[<<i, j>>] = SortStep(items, <<i, j>>, f)
  BY <1>12
<1> QED
  BY <1>11, <1>13

\* Sorting an array leaves its items, in order.
LEMMA SortIs ==
  ASSUME NEW items \in Seq(Items)
  PROVE  Holds(merge_sort(items), Len(items), ToSet(items))
<1> DEFINE n == Len(items)
<1>1. n \in Nat /\ (\A i \in 1..n : items[i] \in Items) /\ ToSet(items) = {items[i] : i \in 1..n}
  BY LenProperties, ElementOfSeq, ToSetIs
<1>2. CASE n = 0
  <2>1. <<>> \in Seq(Items) /\ Len(<<>>) = 0
    BY EmptySeq
  <2>2. items = <<>>
    BY <1>2, <2>1, EmptySeq
  <2>3. merge_sort(items) = <<>> /\ NonDecreasing(<<>>)
    BY <2>1, <2>2 DEF merge_sort, NonDecreasing
  <2> QED
    BY <2>1, <2>2, <2>3, Zenon DEF Holds
<1>3. CASE n > 0
  <2>1. PICK f : /\ \A i, j \in 1..n : f[<<i, j>>] = SortStep(items, <<i, j>>, f)
                 /\ merge_sort(items) = f[<<1, n>>]
    BY <1>3, SortExists
  <2> HIDE DEF n
  <2> DEFINE Some(i, j) == {items[k] : k \in i..j}
             Good(i, j) == Holds(f[<<i, j>>], j - i + 1, Some(i, j))
             T == {k \in Nat : \A i, j \in 1..n : i <= j /\ j - i <= k => Good(i, j)}
  <2>2. ASSUME NEW i \in 1..n PROVE Good(i, i)
    <3>1. f[<<i, i>>] = <<items[i]>>
      <4>1. f[<<i, i>>] = SortStep(items, <<i, i>>, f)
        BY <2>1
      <4>2. i >= i
        OBVIOUS
      <4> QED
        BY <4>1, <4>2 DEF SortStep
    <3>2. Some(i, i) = {items[i]} /\ i - i + 1 = 1
      OBVIOUS
    <3> HIDE DEF Some
    <3> QED
      BY <1>1, <3>1, <3>2, OneItem
  <2>3. ASSUME NEW i \in 1..n, NEW j \in 1..n, i < j, NEW h \in i..j - 1, h = Half(i, j),
               Good(i, h), Good(h + 1, j)
        PROVE  Good(i, j)
    <3>1. f[<<i, j>>] = merge_no_sentinel(f[<<i, h>>], f[<<h + 1, j>>])
      <4>1. ~(i >= j)
        BY <2>3
      <4>2. f[<<i, j>>] = SortStep(items, <<i, j>>, f)
        BY <2>1
      <4> QED
        BY <2>3, <4>1, <4>2 DEF SortStep
    <3>2. /\ f[<<i, h>>] \in Seq(Items) /\ NonDecreasing(f[<<i, h>>])
          /\ f[<<h + 1, j>>] \in Seq(Items) /\ NonDecreasing(f[<<h + 1, j>>])
          /\ Len(f[<<i, h>>]) = h - i + 1 /\ Len(f[<<h + 1, j>>]) = j - (h + 1) + 1
          /\ ToSet(f[<<i, h>>]) = Some(i, h) /\ ToSet(f[<<h + 1, j>>]) = Some(h + 1, j)
      <4> HIDE DEF Some
      <4> QED
        BY <2>3 DEF Holds
    <3>3. Some(i, j) = Some(i, h) \cup Some(h + 1, j)
      <4>1. i..j = (i..h) \cup (h + 1..j)
        BY <1>1, <2>3
      <4> QED
        BY <4>1
    <3> HIDE DEF Some
    <3>4. Holds(f[<<i, j>>], (h - i + 1) + (j - (h + 1) + 1), Some(i, h) \cup Some(h + 1, j))
      BY <3>1, <3>2, MergeIs
    <3>5. (h - i + 1) + (j - (h + 1) + 1) = j - i + 1
      BY <1>1, <2>3
    <3> QED
      BY <3>3, <3>4, <3>5
  <2> HIDE DEF Good
  <2>4. 0 \in T
    <3> SUFFICES ASSUME NEW i \in 1..n, NEW j \in 1..n, i <= j, j - i <= 0 PROVE Good(i, j)
      OBVIOUS
    <3>1. i = j
      BY <1>1
    <3> QED
      BY <2>2, <3>1
  <2>5. ASSUME NEW k \in T, k \in Nat PROVE k + 1 \in T
    <3> SUFFICES ASSUME NEW i \in 1..n, NEW j \in 1..n, i <= j, j - i <= k + 1 PROVE Good(i, j)
      BY <2>5
    <3>1. \A u, v \in 1..n : u <= v /\ v - u <= k => Good(u, v)
      BY <2>5
    <3>2. CASE i = j
      BY <2>2, <3>2
    <3>3. CASE i < j
      <4> DEFINE h == Half(i, j)
      <4>1. h \in i..j - 1
        BY <1>1, <3>3, HalfIs
      <4> HIDE DEF h, T
      <4>2. /\ h \in 1..n /\ h + 1 \in 1..n /\ i <= h /\ h + 1 <= j /\ h - i <= k /\ j - (h + 1) <= k
        BY <1>1, <2>5, <3>3, <4>1
      <4>3. Good(i, h) /\ Good(h + 1, j)
        BY <3>1, <4>2
      <4> QED
        BY <2>3, <3>3, <4>1, <4>3 DEF h
    <3> QED
      BY <1>1, <3>2, <3>3
  <2>6. \A k \in Nat : k \in T
    <3> HIDE DEF T
    <3> QED
      BY <2>4, <2>5, SetInduction
  <2>7. n - 1 \in T /\ 1 \in 1..n /\ n \in 1..n /\ 1 <= n
    BY <1>1, <1>3, <2>6
  <2>8. Good(1, n)
    BY <1>1, <2>7
  <2>9. Some(1, n) = ToSet(items) /\ n - 1 + 1 = n
    BY <1>1
  <2> HIDE DEF Some
  <2> QED
    BY <2>1, <2>8, <2>9 DEF Good, n
<1> QED
  BY <1>1, <1>2, <1>3

-----------------------------------------------------------------------------
(* The array of a table. *)

\* a is the sorted array of a table of which nextdata gave s.
Array(a, s) ==
  /\ a \in Seq(Items \cup {NULL}) /\ s \in Seq(Items) /\ Len(s) <= Len(a)
  /\ \A i \in 1..Len(a) : a[i] = NULL <=> i > Len(s)
  /\ \A i \in 1..Len(s) : a[i] \in ToSet(s)
  /\ \A x \in ToSet(s) : \E i \in 1..Len(s) : a[i] = x
  /\ \A i, j \in 1..Len(s) : i < j => Comparator(a[i], a[j]) # 1
  /\ ~(Cardinality(ToSet(s)) < Len(s)) =>
       \A i, j \in 1..Len(s) : i < j => Comparator(a[i], a[j]) = -1

\* hashtable_sort's array: sorted, with no equal neighbours when nothing comes twice.
LEMMA ArrayIs ==
  ASSUME NEW s \in Seq(Items), NEW k \in Nat, Len(s) <= k,
         \A x, y \in ToSet(s) : x.key = y.key => x = y
  PROVE  LET t == merge_sort(s)
             a == [i \in 1..k |-> IF i <= Len(t) THEN t[i] ELSE NULL]
         IN Array(a, s) /\ Len(a) = k
<1> DEFINE n == Len(s)
           t == merge_sort(s)
           a == [i \in 1..k |-> IF i <= Len(t) THEN t[i] ELSE NULL]
           S == ToSet(s)
<1>1. n \in Nat /\ S \subseteq Items /\ n <= k
  BY LenProperties, ToSetIs
<1>2. t \in Seq(Items) /\ Len(t) = n /\ ToSet(t) = S /\ NonDecreasing(t)
  BY SortIs DEF Holds
<1>3. ToSet(t) = {t[i] : i \in 1..n} /\ \A i \in 1..n : t[i] \in Items
  <2> HIDE DEF t, n
  <2> QED
    BY <1>2, ToSetIs, ElementOfSeq
<1>4. \A i, j \in 1..n : i < j => Comparator(t[i], t[j]) # 1
  BY <1>2 DEF NonDecreasing
<1> HIDE DEF n, t, S
<1>5. \A i \in 1..k : a[i] = IF i <= n THEN t[i] ELSE NULL
  BY <1>2
<1>6. a \in [1..k -> Items \cup {NULL}]
  <2>1. \A i \in 1..k : (IF i <= Len(t) THEN t[i] ELSE NULL) \in Items \cup {NULL}
    BY <1>1, <1>2, <1>3
  <2> QED
    BY <2>1
<1>7. a \in Seq(Items \cup {NULL}) /\ Len(a) = k
  BY <1>6, FunctionIsSeq
<1> HIDE DEF a
<1>8. \A i \in 1..n : a[i] = t[i] /\ a[i] \in Items
  BY <1>1, <1>3, <1>5
<1>9. \A i \in 1..k : a[i] = NULL <=> i > n
  <2> SUFFICES ASSUME NEW i \in 1..k PROVE a[i] = NULL <=> i > n
    OBVIOUS
  <2>1. CASE i <= n
    <3>1. i \in 1..n /\ ~(i > n)
      BY <1>1, <2>1
    <3>2. a[i] # NULL
      BY <1>8, <3>1, ItemFacts
    <3> QED
      BY <3>1, <3>2
  <2>2. CASE ~(i <= n)
    BY <1>1, <1>5, <2>2
  <2> QED
    BY <2>1, <2>2
<1>10. (\A i \in 1..n : a[i] \in S) /\ \A x \in S : \E i \in 1..n : a[i] = x
  BY <1>2, <1>3, <1>8
<1>11. \A i, j \in 1..n : i < j => Comparator(a[i], a[j]) # 1
  BY <1>4, <1>8
<1>12. ASSUME ~(Cardinality(S) < n), NEW i \in 1..n, NEW j \in 1..n, i < j
       PROVE  Comparator(a[i], a[j]) = -1
  <2> DEFINE f == [x \in 1..n |-> a[x]]
  <2>1. f \in Surjection(1..n, S)
    BY <1>10 DEF Surjection
  <2>2. IsFiniteSet(1..n) /\ Cardinality(1..n) = n
    <3>1. 1 \in Int /\ n \in Int
      BY <1>1
    <3>2. IsFiniteSet(1..n) /\ Cardinality(1..n) = IF 1 > n THEN 0 ELSE n - 1 + 1
      BY <3>1, FS_Interval
    <3> QED
      BY <1>1, <3>2
  <2>3. f[i] = a[i] /\ f[j] = a[j]
    OBVIOUS
  <2> HIDE DEF f
  <2>4. /\ IsFiniteSet(S) /\ Cardinality(S) <= Cardinality(1..n)
        /\ Cardinality(S) = Cardinality(1..n) <=> f \in Injection(1..n, S)
    BY <2>1, <2>2, FS_Surjection
  <2>5. Cardinality(S) \in Nat
    BY <2>4, FS_CardinalityType
  <2>6. f \in Injection(1..n, S)
    BY <1>1, <1>12, <2>2, <2>4, <2>5
  <2>7. a[i] # a[j]
    <3>1. i # j
      BY <1>12
    <3>2. DOMAIN f = 1..n /\ \A x, y \in DOMAIN f : f[x] = f[y] => x = y
      BY <2>6 DEF Injection, IsInjective
    <3> QED
      BY <2>3, <3>1, <3>2
  <2>8. a[i] \in data_t /\ a[j] \in data_t /\ a[i].key # a[j].key
    <3>1. a[i] \in S /\ a[j] \in S /\ a[i] \in Items /\ a[j] \in Items
      BY <1>8, <1>10
    <3> QED
      BY <2>7, <3>1 DEF S, Items
  <2>9. Comparator(a[i], a[j]) \in {-1, 0, 1} /\ Comparator(a[i], a[j]) # 0
    BY <2>8, ItemOrder
  <2> QED
    BY <1>11, <1>12, <2>9
<1>13. Array(a, s)
  BY <1>1, <1>7, <1>9, <1>10, <1>11, <1>12 DEF Array, n, S
<1> QED
  BY <1>7, <1>13 DEF a, t

-----------------------------------------------------------------------------
(* The choice of the smallest head. *)

\* Of two versions at most one is newer.
LEMMA NewerOnce ==
  ASSUME NEW v \in [1..8 -> Byte], NEW w \in [1..8 -> Byte], Newer(v, w)
  PROVE  ~Newer(w, v) /\ v # w
<1> DEFINE S == {i \in 1..8 : v[i] # w[i]}
<1>1. S # {} /\ v[Max(S)] > w[Max(S)]
  BY DEF Newer
<1>2. S = {i \in 1..8 : w[i] # v[i]}
  OBVIOUS
<1>3. S \subseteq 0..8 /\ S \subseteq 1..8 /\ 8 \in Nat
  OBVIOUS
<1>4. v # w
  BY <1>1
<1> HIDE DEF S
<1>5. Max(S) \in 1..8
  BY <1>1, <1>3, MaxOf
<1>6. \A m \in 1..8 : v[m] \in Byte /\ w[m] \in Byte
  OBVIOUS
<1>7. \A x, y \in Byte : x > y => ~(y > x)
  BY DEF Byte
<1>8. ~(w[Max(S)] > v[Max(S)])
  BY <1>1, <1>5, <1>6, <1>7, Zenon
<1> QED
  BY <1>2, <1>4, <1>8 DEF Newer, S

\* The head j is preferred to the head i of the same key.
Beats(h, j, i) ==
  /\ j # i /\ h[j] # NULL /\ h[j].key = h[i].key
  /\ \/ Newer(h[j].version, h[i].version)
     \/ ~Newer(h[i].version, h[j].version) /\ j > i

\* s is the state of the loop over the heads h when the first k are compared;
\* the points were p.
Chosen(h, n, p, k, s) ==
  /\ s \in [min : Items \cup {NULL}, index : -1..n - 1, point : [1..n -> Nat]]
  /\ \A i \in 0..n - 1 : s.point[i + 1] \in {p[i + 1], p[i + 1] + 1}
  /\ \A i \in k..n - 1 : s.point[i + 1] = p[i + 1]
  /\ s.min = NULL => s.index = -1 /\ s.point = p /\ \A i \in 0..k - 1 : h[i] = NULL
  /\ s.min # NULL => /\ s.index \in 0..k - 1 /\ h[s.index] = s.min
                     /\ s.point[s.index + 1] = p[s.index + 1]
  /\ \A i \in 0..k - 1 : h[i] # NULL =>
       /\ Comparator(s.min, h[i]) # 1
       /\ s.point[i + 1] = p[i + 1] /\ i # s.index => Comparator(s.min, h[i]) = -1
  /\ \A i \in 0..k - 1 : s.point[i + 1] # p[i + 1] =>
       /\ h[i] # NULL
       /\ \E j \in 0..k - 1 : h[j] # NULL /\ s.point[j + 1] = p[j + 1] /\ h[j].key = h[i].key
       /\ \E j \in 0..k - 1 : Beats(h, j, i)

\* The cases of findsmallest's loop body.
LEMMA CompareIs ==
  ASSUME NEW s, NEW k, s.min \in Items \cup {NULL}, Data(k) \in Items \cup {NULL}
  PROVE  /\ Data(k) = NULL => Compare(s, k) = s
         /\ Data(k) # NULL /\ s.min = NULL => Compare(s, k) = [s EXCEPT !.min = Data(k), !.index = k]
         /\ Data(k) # NULL /\ s.min # NULL =>
              /\ Data(k) \in Items /\ s.min \in Items
              /\ Comparator(Data(k), s.min) \in {-1, 0, 1}
              /\ Comparator(Data(k), s.min) = 1 => Compare(s, k) = s
              /\ Comparator(Data(k), s.min) = -1 => Compare(s, k) = [s EXCEPT !.min = Data(k), !.index = k]
              /\ Comparator(Data(k), s.min) = 0 =>
                   Compare(s, k) = IF Newer(s.min.version, Data(k).version)
                                   THEN [s EXCEPT !.point[k + 1] = @ + 1]
                                   ELSE [min |-> Data(k), index |-> k,
                                         point |-> [s.point EXCEPT ![s.index + 1] = @ + 1]]
<1> DEFINE d == Data(k)
           c == ComparatorC(d, s.min)
<1>1. Compare(s, k) = CASE c = 1 -> s
       [] c = 0 -> IF s.min = NULL THEN s
                   ELSE IF Newer(s.min.version, d.version) THEN [s EXCEPT !.point[k + 1] = @ + 1]
                   ELSE [min |-> d, index |-> k, point |-> [s.point EXCEPT ![s.index + 1] = @ + 1]]
       [] OTHER -> [s EXCEPT !.min = d, !.index = k]
  BY DEF Compare
<1>2. /\ d = NULL /\ s.min = NULL => c = 0
      /\ d = NULL /\ s.min # NULL => c = 1
      /\ d # NULL /\ s.min = NULL => c = -1
      /\ d # NULL /\ s.min # NULL => c = Comparator(d, s.min)
  BY DEF ComparatorC
<1>3. d # NULL /\ s.min # NULL => d \in Items /\ s.min \in Items /\ Comparator(d, s.min) \in {-1, 0, 1}
  <2> SUFFICES ASSUME d # NULL, s.min # NULL PROVE d \in Items /\ s.min \in Items /\ Comparator(d, s.min) \in {-1, 0, 1}
    OBVIOUS
  <2>1. d \in Items /\ s.min \in Items
    OBVIOUS
  <2>2. d \in data_t /\ s.min \in data_t
    BY <2>1 DEF Items
  <2> HIDE DEF d
  <2> QED
    BY <2>1, <2>2, ItemOrder
<1> HIDE DEF d, c
<1>4. CASE d = NULL
  BY <1>1, <1>2, <1>4 DEF d
<1>5. CASE d # NULL /\ s.min = NULL
  BY <1>1, <1>2, <1>5 DEF d
<1>6. CASE d # NULL /\ s.min # NULL
  <2>1. c = Comparator(d, s.min) /\ c \in {-1, 0, 1}
    BY <1>2, <1>3, <1>6
  <2>2. c = 1 => Compare(s, k) = s
    BY <1>1
  <2>3. c = -1 => Compare(s, k) = [s EXCEPT !.min = d, !.index = k]
    BY <1>1
  <2>4. c = 0 => Compare(s, k) = IF Newer(s.min.version, d.version)
                                   THEN [s EXCEPT !.point[k + 1] = @ + 1]
                                   ELSE [min |-> d, index |-> k,
                                         point |-> [s.point EXCEPT ![s.index + 1] = @ + 1]]
    BY <1>1, <1>6
  <2> QED
    BY <1>3, <1>6, <2>1, <2>2, <2>3, <2>4 DEF d
<1> QED
  BY <1>4, <1>5, <1>6 DEF d

\* Comparator orders the items: equal ones have one key, and it is transitive.
LEMMA SameOrder ==
  ASSUME NEW d \in Items, NEW e \in Items, Comparator(d, e) = 0
  PROVE  /\ d.key = e.key
         /\ \A f \in Items : Comparator(d, f) = Comparator(e, f) /\ Comparator(f, d) = Comparator(f, e)
<1>1. d \in data_t /\ e \in data_t
  BY DEF Items
<1>2. d.hash_value = e.hash_value /\ d.key = e.key
  BY <1>1, ItemOrder
<1> QED
  BY <1>2 DEF Comparator

LEMMA SelfOrder ==
  ASSUME NEW d \in Items
  PROVE  Comparator(d, d) = 0
<1>1. d \in data_t
  BY DEF Items
<1> QED
  BY <1>1, ItemOrder

LEMMA ItemsOrder ==
  ASSUME NEW d \in Items, NEW e \in Items
  PROVE  /\ Comparator(d, e) \in {-1, 0, 1}
         /\ Comparator(d, e) = 1 <=> Comparator(e, d) = -1
         /\ \A f \in Items : Comparator(d, e) = -1 /\ Comparator(e, f) # 1 => Comparator(d, f) = -1
<1>1. d \in data_t /\ e \in data_t /\ \A f \in Items : f \in data_t
  BY DEF Items
<1>2. Comparator(d, e) \in {-1, 0, 1} /\ (Comparator(d, e) = 1 <=> Comparator(e, d) = -1)
  BY <1>1, ItemOrder
<1>3. ASSUME NEW f \in Items, Comparator(d, e) = -1, Comparator(e, f) # 1
      PROVE  Comparator(d, f) = -1
  <2>1. Comparator(e, f) \in {-1, 0, 1} /\ f \in data_t
    BY <1>1, ItemOrder
  <2>2. CASE Comparator(e, f) = -1
    BY <1>1, <1>3, <2>1, <2>2, ItemOrder
  <2>3. CASE Comparator(e, f) = 0
    BY <1>3, <2>3, SameOrder
  <2> QED
    BY <1>3, <2>1, <2>2, <2>3
<1> QED
  BY <1>2, <1>3

\* The places below and above a round of the loop.
LEMMA OneOnPlaces ==
  ASSUME NEW n \in Nat, NEW k \in 0..n - 1
  PROVE  /\ \A i : i \in 0..(k + 1) - 1 <=> i \in 0..k - 1 \/ i = k
         /\ \A i : i \in k..n - 1 <=> i \in (k + 1)..n - 1 \/ i = k
         /\ \A i \in 0..k - 1 : i # k /\ i < k
         /\ \A i \in (k + 1)..n - 1 : i # k /\ i >= k
         /\ \A i, j \in 0..n - 1 : i + 1 = j + 1 => i = j
         /\ \A i \in 0..n - 1 : i + 1 \in 1..n
OBVIOUS

\* What the loop's assignments keep of its state.
LEMMA StateFields ==
  ASSUME NEW A, NEW B, NEW C, NEW s \in [min : A, index : B, point : C]
  PROVE  /\ \A a \in A, b \in B : [s EXCEPT !.min = a, !.index = b] \in [min : A, index : B, point : C]
         /\ \A x : [s.point EXCEPT ![x] = @ + 1] \in C => [s EXCEPT !.point[x] = @ + 1] \in [min : A, index : B, point : C]
<1>1. ASSUME NEW a \in A, NEW b \in B PROVE [s EXCEPT !.min = a, !.index = b] \in [min : A, index : B, point : C]
  OBVIOUS
<1>2. ASSUME NEW x, [s.point EXCEPT ![x] = @ + 1] \in C
      PROVE  [s EXCEPT !.point[x] = @ + 1] \in [min : A, index : B, point : C]
  <2> DEFINE c == [s.point EXCEPT ![x] = @ + 1]
  <2>1. c \in C
    BY <1>2
  <2> HIDE DEF c
  <2>2. [s EXCEPT !.point = c] \in [min : A, index : B, point : C]
    BY <2>1
  <2>3. [s EXCEPT !.point[x] = @ + 1] = [s EXCEPT !.point = c]
    BY DEF c
  <2> QED
    BY <2>2, <2>3, Zenon
<1> QED
  BY <1>1, <1>2

LEMMA PointStays ==
  ASSUME NEW n, NEW f \in [1..n -> Nat], NEW x, NEW v \in Nat
  PROVE  [f EXCEPT ![x] = v] \in [1..n -> Nat]
OBVIOUS

\* The loop passes over a table without an item, or with a greater one.
LEMMA ChosenSame ==
  ASSUME NEW n \in Nat, NEW k \in 0..n - 1, NEW p \in [1..n -> Nat], NEW s,
         NEW h \in [0..n - 1 -> Items \cup {NULL}],
         Chosen(h, n, p, k, s),
         h[k] = NULL \/ (s.min # NULL /\ Comparator(s.min, h[k]) = -1)
  PROVE  Chosen(h, n, p, k + 1, s)
<1> DEFINE K == 0..(k + 1) - 1
<1>1. \A i : i \in K <=> i \in 0..k - 1 \/ i = k
  BY OneOnPlaces
<1>2. \A i \in (k + 1)..n - 1 : i \in k..n - 1
  BY OneOnPlaces
<1>3. s.point[k + 1] = p[k + 1]
  BY DEF Chosen
<1> HIDE DEF K
<1>4. s \in [min : Items \cup {NULL}, index : -1..n - 1, point : [1..n -> Nat]]
  BY DEF Chosen
<1>5. \A i \in 0..n - 1 : s.point[i + 1] \in {p[i + 1], p[i + 1] + 1}
  BY DEF Chosen
<1>6. \A i \in (k + 1)..n - 1 : s.point[i + 1] = p[i + 1]
  BY <1>2 DEF Chosen
<1>7. s.min = NULL => s.index = -1 /\ s.point = p /\ \A i \in K : h[i] = NULL
  BY <1>1 DEF Chosen
<1>8. s.min # NULL => s.index \in K /\ h[s.index] = s.min /\ s.point[s.index + 1] = p[s.index + 1]
  BY <1>1 DEF Chosen
<1>9. ASSUME NEW i \in K, h[i] # NULL
      PROVE  /\ Comparator(s.min, h[i]) # 1
             /\ s.point[i + 1] = p[i + 1] /\ i # s.index => Comparator(s.min, h[i]) = -1
  <2>1. CASE i = k
    BY <1>9, <2>1
  <2>2. CASE i \in 0..k - 1
    BY <1>9, <2>2 DEF Chosen
  <2> QED
    BY <1>1, <1>9, <2>1, <2>2
<1>10. ASSUME NEW i \in K, s.point[i + 1] # p[i + 1]
       PROVE  /\ h[i] # NULL
              /\ \E j \in K : h[j] # NULL /\ s.point[j + 1] = p[j + 1] /\ h[j].key = h[i].key
              /\ \E j \in K : Beats(h, j, i)
  <2>1. i \in 0..k - 1
    BY <1>1, <1>3, <1>10
  <2>2. /\ h[i] # NULL
        /\ \E j \in 0..k - 1 : h[j] # NULL /\ s.point[j + 1] = p[j + 1] /\ h[j].key = h[i].key
        /\ \E j \in 0..k - 1 : Beats(h, j, i)
    BY <1>10, <2>1 DEF Chosen
  <2> QED
    BY <1>1, <2>2
<1>11. \A i \in K : h[i] # NULL =>
         /\ Comparator(s.min, h[i]) # 1
         /\ s.point[i + 1] = p[i + 1] /\ i # s.index => Comparator(s.min, h[i]) = -1
  BY <1>9
<1>12. \A i \in K : s.point[i + 1] # p[i + 1] =>
         /\ h[i] # NULL
         /\ \E j \in K : h[j] # NULL /\ s.point[j + 1] = p[j + 1] /\ h[j].key = h[i].key
         /\ \E j \in K : Beats(h, j, i)
  BY <1>10
<1> QED
  BY <1>4, <1>5, <1>6, <1>7, <1>8, <1>11, <1>12, Zenon DEF Chosen, K

\* The head of table k is smaller than every one before it.
LEMMA ChosenLess ==
  ASSUME NEW n \in Nat, NEW k \in 0..n - 1, NEW p \in [1..n -> Nat], NEW s,
         NEW h \in [0..n - 1 -> Items \cup {NULL}],
         Chosen(h, n, p, k, s), h[k] # NULL,
         s.min # NULL => Comparator(h[k], s.min) = -1
  PROVE  Chosen(h, n, p, k + 1, [s EXCEPT !.min = h[k], !.index = k])
<1> DEFINE K == 0..(k + 1) - 1
           r == [s EXCEPT !.min = h[k], !.index = k]
<1>1. \A i : i \in K <=> i \in 0..k - 1 \/ i = k
  BY OneOnPlaces
<1>2. \A i \in (k + 1)..n - 1 : i \in k..n - 1
  BY OneOnPlaces
<1>3. s.point[k + 1] = p[k + 1]
  BY DEF Chosen
<1>0. s \in [min : Items \cup {NULL}, index : -1..n - 1, point : [1..n -> Nat]]
  BY DEF Chosen
<1>4. r \in [min : Items \cup {NULL}, index : -1..n - 1, point : [1..n -> Nat]]
  <2>2. h[k] \in Items \cup {NULL} /\ k \in -1..n - 1
    OBVIOUS
  <2> QED
    BY <1>0, <2>2, StateFields
<1>r. r.min = h[k] /\ r.index = k /\ r.point = s.point
  BY <1>0
<1>d. h[k] \in Items
  OBVIOUS
<1> HIDE DEF K, r
<1>5. \A i \in 0..n - 1 : r.point[i + 1] \in {p[i + 1], p[i + 1] + 1}
  BY <1>r DEF Chosen
<1>6. \A i \in (k + 1)..n - 1 : r.point[i + 1] = p[i + 1]
  BY <1>2, <1>r DEF Chosen
<1>7. r.min # NULL
  BY <1>r
<1>8. r.index \in K /\ h[r.index] = r.min /\ r.point[r.index + 1] = p[r.index + 1]
  BY <1>1, <1>3, <1>r
<1>9. ASSUME NEW i \in K, h[i] # NULL
      PROVE  /\ Comparator(r.min, h[i]) # 1
             /\ r.point[i + 1] = p[i + 1] /\ i # r.index => Comparator(r.min, h[i]) = -1
  <2>1. CASE i = k
    <3>1. Comparator(h[k], h[k]) = 0
      BY <1>d, SelfOrder
    <3> QED
      BY <2>1, <3>1, <1>r
  <2>2. CASE i \in 0..k - 1
    <3>1. s.min # NULL
      BY <1>9, <2>2 DEF Chosen
    <3>2. Comparator(s.min, h[i]) # 1
      BY <1>9, <2>2 DEF Chosen
    <3>3. i \in 0..n - 1
      BY <2>2
    <3>4. s.min \in Items /\ h[i] \in Items
      BY <1>0, <1>9, <3>1, <3>3
    <3>5. Comparator(h[k], h[i]) = -1
      BY <1>d, <3>1, <3>2, <3>4, ItemsOrder
    <3> QED
      BY <3>5, <1>r
  <2> QED
    BY <1>1, <1>9, <2>1, <2>2
<1>10. ASSUME NEW i \in K, r.point[i + 1] # p[i + 1]
       PROVE  /\ h[i] # NULL
              /\ \E j \in K : h[j] # NULL /\ r.point[j + 1] = p[j + 1] /\ h[j].key = h[i].key
              /\ \E j \in K : Beats(h, j, i)
  <2>1. i \in 0..k - 1
    BY <1>1, <1>3, <1>10, <1>r
  <2>2. /\ h[i] # NULL
        /\ \E j \in 0..k - 1 : h[j] # NULL /\ s.point[j + 1] = p[j + 1] /\ h[j].key = h[i].key
        /\ \E j \in 0..k - 1 : Beats(h, j, i)
    <3>1. s.point[i + 1] # p[i + 1]
      BY <1>10, <1>r
    <3> QED
      BY <2>1, <3>1 DEF Chosen
  <2> QED
    BY <1>1, <1>r, <2>2
<1>11. \A i \in K : h[i] # NULL =>
         /\ Comparator(r.min, h[i]) # 1
         /\ r.point[i + 1] = p[i + 1] /\ i # r.index => Comparator(r.min, h[i]) = -1
  BY <1>9
<1>12. \A i \in K : r.point[i + 1] # p[i + 1] =>
         /\ h[i] # NULL
         /\ \E j \in K : h[j] # NULL /\ r.point[j + 1] = p[j + 1] /\ h[j].key = h[i].key
         /\ \E j \in K : Beats(h, j, i)
  BY <1>10
<1>13. Chosen(h, n, p, k + 1, r)
  BY <1>4, <1>5, <1>6, <1>7, <1>8, <1>11, <1>12, Zenon DEF Chosen, K
<1> QED
  BY <1>13 DEF r

\* The head of table k has the key of the smallest, which is newer.
LEMMA ChosenOlder ==
  ASSUME NEW n \in Nat, NEW k \in 0..n - 1, NEW p \in [1..n -> Nat], NEW s,
         NEW h \in [0..n - 1 -> Items \cup {NULL}],
         Chosen(h, n, p, k, s), h[k] # NULL, s.min # NULL,
         Comparator(h[k], s.min) = 0, Newer(s.min.version, h[k].version)
  PROVE  Chosen(h, n, p, k + 1, [s EXCEPT !.point[k + 1] = @ + 1])
<1> DEFINE K == 0..(k + 1) - 1
           r == [s EXCEPT !.point[k + 1] = @ + 1]
<1>1. \A i : i \in K <=> i \in 0..k - 1 \/ i = k
  BY OneOnPlaces
<1>2. \A i \in (k + 1)..n - 1 : i \in k..n - 1 /\ i # k
  BY OneOnPlaces
<1>3. s.point[k + 1] = p[k + 1]
  BY DEF Chosen
<1>0. s \in [min : Items \cup {NULL}, index : -1..n - 1, point : [1..n -> Nat]]
  BY DEF Chosen
<1>q. k + 1 \in 1..n /\ p[k + 1] \in Nat
  OBVIOUS
<1>r. r.min = s.min /\ r.index = s.index /\ r.point = [s.point EXCEPT ![k + 1] = p[k + 1] + 1]
  BY <1>0, <1>3, <1>q
<1>4. r \in [min : Items \cup {NULL}, index : -1..n - 1, point : [1..n -> Nat]]
  <2>1. s.point \in [1..n -> Nat] /\ s.point[k + 1] + 1 \in Nat
    BY <1>0, <1>3, <1>q
  <2>2. [s.point EXCEPT ![k + 1] = @ + 1] \in [1..n -> Nat]
    BY <2>1, PointStays
  <2> QED
    BY <1>0, <2>2, StateFields, Zenon
<1>d. h[k] \in Items /\ s.min \in Items
  BY <1>0
<1> HIDE DEF K, r
<1>p. /\ r.point[k + 1] = p[k + 1] + 1 /\ r.point[k + 1] # p[k + 1]
      /\ \A i \in 0..n - 1 : i # k => r.point[i + 1] = s.point[i + 1]
  BY <1>0, <1>r, <1>q
<1>5. \A i \in 0..n - 1 : r.point[i + 1] \in {p[i + 1], p[i + 1] + 1}
  BY <1>p DEF Chosen
<1>6. \A i \in (k + 1)..n - 1 : r.point[i + 1] = p[i + 1]
  BY <1>2, <1>p DEF Chosen
<1>7. r.min # NULL
  BY <1>r
<1>8. r.index \in K /\ h[r.index] = r.min /\ r.point[r.index + 1] = p[r.index + 1]
  <2>1. s.index \in 0..k - 1 /\ h[s.index] = s.min /\ s.point[s.index + 1] = p[s.index + 1]
    BY DEF Chosen
  <2>2. s.index # k /\ s.index \in 0..n - 1
    BY <2>1
  <2> QED
    BY <1>1, <1>p, <1>r, <2>1, <2>2
<1>w. r.index \in 0..k - 1 /\ r.index # k
  <2>1. s.index \in 0..k - 1
    BY DEF Chosen
  <2> QED
    BY <1>r, <2>1
<1>9. ASSUME NEW i \in K, h[i] # NULL
      PROVE  /\ Comparator(r.min, h[i]) # 1
             /\ r.point[i + 1] = p[i + 1] /\ i # r.index => Comparator(r.min, h[i]) = -1
  <2>1. CASE i = k
    <3>1. Comparator(s.min, h[k]) # 1
      BY <1>d, ItemsOrder
    <3> QED
      BY <2>1, <3>1, <1>r, <1>p
  <2>2. CASE i \in 0..k - 1
    <3>1. i \in 0..n - 1 /\ i # k
      BY <2>2
    <3>2. r.point[i + 1] = s.point[i + 1]
      BY <1>p, <3>1
    <3>3. /\ Comparator(s.min, h[i]) # 1
          /\ s.point[i + 1] = p[i + 1] /\ i # s.index => Comparator(s.min, h[i]) = -1
      BY <1>9, <2>2 DEF Chosen
    <3> QED
      BY <1>r, <3>2, <3>3
  <2> QED
    BY <1>1, <1>9, <2>1, <2>2
<1>10. ASSUME NEW i \in K, r.point[i + 1] # p[i + 1]
       PROVE  /\ h[i] # NULL
              /\ \E j \in K : h[j] # NULL /\ r.point[j + 1] = p[j + 1] /\ h[j].key = h[i].key
              /\ \E j \in K : Beats(h, j, i)
  <2>1. CASE i = k
    <3>1. h[k].key = s.min.key
      BY <1>d, SameOrder
    <3>2. Beats(h, r.index, k)
      BY <1>8, <1>w, <1>r, <1>7, <3>1 DEF Beats
    <3>3. h[r.index] # NULL /\ h[r.index].key = h[k].key
      BY <1>8, <1>7, <1>r, <3>1
    <3> QED
      BY <1>8, <2>1, <3>2, <3>3
  <2>2. CASE i \in 0..k - 1
    <3>1. i \in 0..n - 1 /\ i # k
      BY <2>2
    <3>2. s.point[i + 1] # p[i + 1]
      BY <1>p, <1>10, <3>1
    <3>3. /\ h[i] # NULL
          /\ \E j \in 0..k - 1 : h[j] # NULL /\ s.point[j + 1] = p[j + 1] /\ h[j].key = h[i].key
          /\ \E j \in 0..k - 1 : Beats(h, j, i)
      BY <2>2, <3>2 DEF Chosen
    <3>4. \A j \in 0..k - 1 : j \in K /\ j \in 0..n - 1 /\ j # k
      BY <1>1
    <3> QED
      BY <1>p, <3>3, <3>4
  <2> QED
    BY <1>1, <2>1, <2>2
<1>11. \A i \in K : h[i] # NULL =>
         /\ Comparator(r.min, h[i]) # 1
         /\ r.point[i + 1] = p[i + 1] /\ i # r.index => Comparator(r.min, h[i]) = -1
  BY <1>9
<1>12. \A i \in K : r.point[i + 1] # p[i + 1] =>
         /\ h[i] # NULL
         /\ \E j \in K : h[j] # NULL /\ r.point[j + 1] = p[j + 1] /\ h[j].key = h[i].key
         /\ \E j \in K : Beats(h, j, i)
  BY <1>10
<1>13. Chosen(h, n, p, k + 1, r)
  BY <1>4, <1>5, <1>6, <1>7, <1>8, <1>11, <1>12, Zenon DEF Chosen, K
<1> QED
  BY <1>13 DEF r

\* The head of table k has the key of the smallest and takes its place.
LEMMA ChosenNewer ==
  ASSUME NEW n \in Nat, NEW k \in 0..n - 1, NEW p \in [1..n -> Nat], NEW s,
         NEW h \in [0..n - 1 -> Items \cup {NULL}],
         Chosen(h, n, p, k, s), h[k] # NULL, s.min # NULL,
         Comparator(h[k], s.min) = 0, ~Newer(s.min.version, h[k].version)
  PROVE  Chosen(h, n, p, k + 1, [min |-> h[k], index |-> k,
                                 point |-> [s.point EXCEPT ![s.index + 1] = @ + 1]])
<1> DEFINE K == 0..(k + 1) - 1
           r == [min |-> h[k], index |-> k, point |-> [s.point EXCEPT ![s.index + 1] = @ + 1]]
           m == s.index
<1>1. \A i : i \in K <=> i \in 0..k - 1 \/ i = k
  BY OneOnPlaces
<1>2. \A i \in (k + 1)..n - 1 : i \in k..n - 1 /\ i # k
  BY OneOnPlaces
<1>0. s \in [min : Items \cup {NULL}, index : -1..n - 1, point : [1..n -> Nat]]
  BY DEF Chosen
<1>m. m \in 0..k - 1 /\ h[m] = s.min /\ s.point[m + 1] = p[m + 1]
  BY DEF Chosen
<1>3. s.point[k + 1] = p[k + 1]
  BY DEF Chosen
<1>r. r.min = h[k] /\ r.index = k /\ r.point = [s.point EXCEPT ![m + 1] = p[m + 1] + 1]
  BY <1>m
<1>d. h[k] \in Items /\ s.min \in Items
  BY <1>0
<1> HIDE DEF K, m
<1>q. m \in 0..n - 1 /\ m + 1 \in 1..n /\ p[m + 1] \in Nat /\ m < k /\ m # k
  BY <1>m
<1>4. r.point \in [1..n -> Nat]
  <2>1. s.point \in [1..n -> Nat] /\ p[m + 1] + 1 \in Nat
    BY <1>0, <1>q
  <2>2. [s.point EXCEPT ![m + 1] = p[m + 1] + 1] \in [1..n -> Nat]
    BY <2>1, PointStays
  <2> HIDE DEF r
  <2> QED
    BY <1>r, <2>2, Zenon
<1>t. r \in [min : Items \cup {NULL}, index : -1..n - 1, point : [1..n -> Nat]]
  <2>1. k \in -1..n - 1
    OBVIOUS
  <2> QED
    BY <1>4, <1>d, <2>1
<1> HIDE DEF r
<1>p. /\ r.point[m + 1] = p[m + 1] + 1 /\ r.point[m + 1] # p[m + 1]
      /\ \A i \in 0..n - 1 : i # m => r.point[i + 1] = s.point[i + 1]
  BY <1>0, <1>r, <1>q
<1>5. \A i \in 0..n - 1 : r.point[i + 1] \in {p[i + 1], p[i + 1] + 1}
  BY <1>p DEF Chosen
<1>k. r.point[k + 1] = p[k + 1]
  BY <1>p, <1>3, <1>q
<1>6. \A i \in (k + 1)..n - 1 : r.point[i + 1] = p[i + 1]
  <2>1. \A i \in (k + 1)..n - 1 : i # m /\ i \in k..n - 1 /\ i \in 0..n - 1
    BY <1>q
  <2>2. \A i \in k..n - 1 : s.point[i + 1] = p[i + 1]
    BY DEF Chosen
  <2> QED
    BY <1>p, <2>1, <2>2
<1>7. r.min # NULL
  BY <1>r
<1>8. r.index \in K /\ h[r.index] = r.min /\ r.point[r.index + 1] = p[r.index + 1]
  BY <1>1, <1>k, <1>r
<1>s. s.min.key = h[k].key /\ \A f \in Items : Comparator(h[k], f) = Comparator(s.min, f)
  BY <1>d, SameOrder
<1>9. ASSUME NEW i \in K, h[i] # NULL
      PROVE  /\ Comparator(r.min, h[i]) # 1
             /\ r.point[i + 1] = p[i + 1] /\ i # r.index => Comparator(r.min, h[i]) = -1
  <2>1. CASE i = k
    <3>1. Comparator(h[k], h[k]) = 0
      BY <1>d, SelfOrder
    <3> QED
      BY <2>1, <3>1, <1>r
  <2>2. CASE i \in 0..k - 1
    <3>1. i \in 0..n - 1 /\ i # k
      BY <2>2
    <3>2. h[i] \in Items
      BY <1>9, <3>1
    <3>3. Comparator(r.min, h[i]) = Comparator(s.min, h[i])
      BY <1>r, <1>s, <3>2
    <3>4. Comparator(s.min, h[i]) # 1
      BY <1>9, <2>2 DEF Chosen
    <3>5. r.point[i + 1] = p[i + 1] => i # m /\ s.point[i + 1] = p[i + 1]
      BY <1>p, <3>1
    <3>6. s.point[i + 1] = p[i + 1] /\ i # s.index => Comparator(s.min, h[i]) = -1
      BY <1>9, <2>2 DEF Chosen
    <3> QED
      BY <3>3, <3>4, <3>5, <3>6 DEF m
  <2> QED
    BY <1>1, <1>9, <2>1, <2>2
<1>10. ASSUME NEW i \in K, r.point[i + 1] # p[i + 1]
       PROVE  /\ h[i] # NULL
              /\ \E j \in K : h[j] # NULL /\ r.point[j + 1] = p[j + 1] /\ h[j].key = h[i].key
              /\ \E j \in K : Beats(h, j, i)
  <2>1. i \in 0..k - 1
    BY <1>1, <1>k, <1>10
  <2>2. CASE i = m
    <3>1. k > m /\ k # m
      BY <1>q
    <3>2. Beats(h, k, m)
      BY <1>m, <1>s, <3>1 DEF Beats
    <3>3. h[m] # NULL /\ h[k] # NULL /\ h[k].key = h[m].key /\ k \in K
      BY <1>m, <1>s, <1>1
    <3> QED
      BY <1>k, <2>2, <3>2, <3>3
  <2>3. CASE i # m
    <3>1. i \in 0..n - 1
      BY <2>1
    <3>2. s.point[i + 1] # p[i + 1]
      BY <1>p, <1>10, <2>3, <3>1
    <3>3. /\ h[i] # NULL
          /\ \E j \in 0..k - 1 : h[j] # NULL /\ s.point[j + 1] = p[j + 1] /\ h[j].key = h[i].key
          /\ \E j \in 0..k - 1 : Beats(h, j, i)
      BY <2>1, <3>2 DEF Chosen
    <3>4. \A j \in 0..k - 1 : j \in K /\ j \in 0..n - 1
      BY <1>1
    <3>5. PICK j \in 0..k - 1 : h[j] # NULL /\ s.point[j + 1] = p[j + 1] /\ h[j].key = h[i].key
      BY <3>3
    <3>6. \E l \in K : h[l] # NULL /\ r.point[l + 1] = p[l + 1] /\ h[l].key = h[i].key
      <4>1. CASE j = m
        <5>1. h[k].key = h[i].key
          BY <1>m, <1>s, <3>5, <4>1
        <5> QED
          BY <1>8, <1>7, <1>r, <5>1
      <4>2. CASE j # m
        BY <1>p, <3>4, <3>5, <4>2
      <4> QED
        BY <4>1, <4>2
    <3> QED
      BY <3>3, <3>4, <3>6
  <2> QED
    BY <2>2, <2>3
<1>11. \A i \in K : h[i] # NULL =>
         /\ Comparator(r.min, h[i]) # 1
         /\ r.point[i + 1] = p[i + 1] /\ i # r.index => Comparator(r.min, h[i]) = -1
  BY <1>9
<1>12. \A i \in K : r.point[i + 1] # p[i + 1] =>
         /\ h[i] # NULL
         /\ \E j \in K : h[j] # NULL /\ r.point[j + 1] = p[j + 1] /\ h[j].key = h[i].key
         /\ \E j \in K : Beats(h, j, i)
  BY <1>10
<1>13. Chosen(h, n, p, k + 1, r)
  BY <1>t, <1>5, <1>6, <1>7, <1>8, <1>11, <1>12, Zenon DEF Chosen, K
<1> QED
  BY <1>13 DEF r

\* The loop's state.
State(n) == [min : Items \cup {NULL}, index : -1..n - 1, point : [1..n -> Nat]]

LEMMA PointMoves ==
  ASSUME NEW n, NEW f \in [1..n -> Nat], NEW x
  PROVE  [f EXCEPT ![x] = @ + 1] \in [1..n -> Nat]
<1>1. CASE x \in 1..n
  BY <1>1
<1>2. CASE x \notin 1..n
  BY <1>2
<1> QED
  BY <1>1, <1>2

\* A round of the loop keeps the types and does what the cases say.
LEMMA CompareState ==
  ASSUME NEW n \in Nat, NEW k \in 0..n - 1, NEW s \in State(n), Data(k) \in Items \cup {NULL}
  PROVE  Compare(s, k) \in State(n)
<1> DEFINE d == Data(k)
<1>0. s \in [min : Items \cup {NULL}, index : -1..n - 1, point : [1..n -> Nat]]
  BY DEF State
<1>1. s.min \in Items \cup {NULL} /\ s.point \in [1..n -> Nat] /\ k \in -1..n - 1
  BY <1>0
<1> HIDE DEF d
<1>2. [s EXCEPT !.min = d, !.index = k] \in State(n)
  BY <1>0, <1>1, StateFields DEF State, d
<1>3. [s EXCEPT !.point[k + 1] = @ + 1] \in State(n)
  <2>1. [s.point EXCEPT ![k + 1] = @ + 1] \in [1..n -> Nat]
    BY <1>1, PointMoves
  <2> QED
    BY <1>0, <2>1, StateFields, Zenon DEF State
<1>4. [min |-> d, index |-> k, point |-> [s.point EXCEPT ![s.index + 1] = @ + 1]] \in State(n)
  <2>1. [s.point EXCEPT ![s.index + 1] = @ + 1] \in [1..n -> Nat]
    BY <1>1, PointMoves
  <2>2. d \in Items \cup {NULL}
    BY DEF d
  <2> QED
    BY <1>1, <2>1, <2>2 DEF State
<1>5. CASE d = NULL
  BY <1>1, <1>5, CompareIs DEF d
<1>6. CASE d # NULL /\ s.min = NULL
  BY <1>1, <1>2, <1>6, CompareIs DEF d
<1>7. CASE d # NULL /\ s.min # NULL
  <2>1. /\ Comparator(d, s.min) \in {-1, 0, 1}
        /\ Comparator(d, s.min) = 1 => Compare(s, k) = s
        /\ Comparator(d, s.min) = -1 => Compare(s, k) = [s EXCEPT !.min = d, !.index = k]
        /\ Comparator(d, s.min) = 0 =>
             Compare(s, k) = IF Newer(s.min.version, d.version)
                             THEN [s EXCEPT !.point[k + 1] = @ + 1]
                             ELSE [min |-> d, index |-> k,
                                   point |-> [s.point EXCEPT ![s.index + 1] = @ + 1]]
    BY <1>1, <1>7, CompareIs DEF d
  <2>2. CASE Comparator(d, s.min) = 0 /\ Newer(s.min.version, d.version)
    BY <1>3, <2>1, <2>2, Zenon
  <2>3. CASE Comparator(d, s.min) = 0 /\ ~Newer(s.min.version, d.version)
    BY <1>4, <2>1, <2>3, Zenon
  <2>4. CASE Comparator(d, s.min) = -1
    BY <1>2, <2>1, <2>4, Zenon
  <2>5. CASE Comparator(d, s.min) = 1
    BY <2>1, <2>5
  <2> QED
    BY <2>1, <2>2, <2>3, <2>4, <2>5
<1> QED
  BY <1>5, <1>6, <1>7

LEMMA ChosenMore ==
  ASSUME NEW n \in Nat, NEW k \in 0..n - 1, NEW p \in [1..n -> Nat], NEW s,
         NEW h \in [0..n - 1 -> Items \cup {NULL}], h[k] = Data(k), Chosen(h, n, p, k, s)
  PROVE  Chosen(h, n, p, k + 1, Compare(s, k))
<1>1. s.min \in Items \cup {NULL} /\ Data(k) \in Items \cup {NULL}
  <2>1. s \in [min : Items \cup {NULL}, index : -1..n - 1, point : [1..n -> Nat]]
    BY DEF Chosen
  <2> QED
    BY <2>1
<1>2. CASE h[k] = NULL
  <2>1. Compare(s, k) = s
    BY <1>1, <1>2, CompareIs
  <2> QED
    BY <1>2, <2>1, ChosenSame
<1>3. CASE h[k] # NULL /\ s.min = NULL
  <2>1. Compare(s, k) = [s EXCEPT !.min = h[k], !.index = k]
    BY <1>1, <1>3, CompareIs
  <2>2. Chosen(h, n, p, k + 1, [s EXCEPT !.min = h[k], !.index = k])
    BY <1>3, ChosenLess
  <2> QED
    BY <2>1, <2>2, Zenon
<1>4. CASE h[k] # NULL /\ s.min # NULL
  <2>0. /\ Data(k) \in Items /\ s.min \in Items /\ Comparator(Data(k), s.min) \in {-1, 0, 1}
        /\ Comparator(Data(k), s.min) = 1 => Compare(s, k) = s
        /\ Comparator(Data(k), s.min) = -1 => Compare(s, k) = [s EXCEPT !.min = Data(k), !.index = k]
        /\ Comparator(Data(k), s.min) = 0 =>
             Compare(s, k) = IF Newer(s.min.version, Data(k).version)
                             THEN [s EXCEPT !.point[k + 1] = @ + 1]
                             ELSE [min |-> Data(k), index |-> k,
                                   point |-> [s.point EXCEPT ![s.index + 1] = @ + 1]]
    BY <1>1, <1>4, CompareIs
  <2>1. /\ h[k] \in Items /\ s.min \in Items /\ Comparator(h[k], s.min) \in {-1, 0, 1}
        /\ Comparator(h[k], s.min) = 1 => Compare(s, k) = s
        /\ Comparator(h[k], s.min) = -1 => Compare(s, k) = [s EXCEPT !.min = h[k], !.index = k]
        /\ Comparator(h[k], s.min) = 0 =>
             Compare(s, k) = IF Newer(s.min.version, h[k].version)
                             THEN [s EXCEPT !.point[k + 1] = @ + 1]
                             ELSE [min |-> h[k], index |-> k,
                                   point |-> [s.point EXCEPT ![s.index + 1] = @ + 1]]
    BY <2>0, Zenon
  <2>2. CASE Comparator(h[k], s.min) = 1
    <3>1. Comparator(s.min, h[k]) = -1
      BY <2>1, <2>2, ItemsOrder
    <3> QED
      BY <1>4, <2>1, <2>2, <3>1, ChosenSame
  <2>3. CASE Comparator(h[k], s.min) = -1
    <3>1. Chosen(h, n, p, k + 1, [s EXCEPT !.min = h[k], !.index = k])
      BY <1>4, <2>3, ChosenLess
    <3> QED
      BY <2>1, <2>3, <3>1, Zenon
  <2>4. CASE Comparator(h[k], s.min) = 0 /\ Newer(s.min.version, h[k].version)
    <3>1. Chosen(h, n, p, k + 1, [s EXCEPT !.point[k + 1] = @ + 1])
      BY <1>4, <2>4, ChosenOlder
    <3> QED
      BY <2>1, <2>4, <3>1, Zenon
  <2>5. CASE Comparator(h[k], s.min) = 0 /\ ~Newer(s.min.version, h[k].version)
    <3>1. Chosen(h, n, p, k + 1, [min |-> h[k], index |-> k,
                                 point |-> [s.point EXCEPT ![s.index + 1] = @ + 1]])
      BY <1>4, <2>5, ChosenNewer
    <3> QED
      BY <2>1, <2>5, <3>1, Zenon
  <2> QED
    BY <2>1, <2>2, <2>3, <2>4, <2>5
<1> QED
  BY <1>2, <1>3, <1>4

\* What findsmallest gives of the heads h and the points p of n tables.
Found(h, n, p, r) ==
  /\ r.min \in Items \cup {NULL} /\ r.point \in [1..n -> Nat]
  /\ r.min = NULL => r.point = p /\ \A i \in 0..n - 1 : h[i] = NULL
  /\ r.min # NULL =>
       /\ \E w \in 0..n - 1 : h[w] = r.min /\ r.point[w + 1] = p[w + 1] + 1
                            /\ \A i \in 0..n - 1 : i # w /\ r.point[i + 1] # p[i + 1] => \E j \in 0..n - 1 : Beats(h, j, i)
       /\ \A i \in 0..n - 1 :
            /\ r.point[i + 1] \in {p[i + 1], p[i + 1] + 1}
            /\ h[i] # NULL => Comparator(r.min, h[i]) # 1
            /\ h[i] # NULL /\ r.point[i + 1] = p[i + 1] => Comparator(r.min, h[i]) = -1
            /\ r.point[i + 1] # p[i + 1] =>
                 /\ h[i] # NULL
                 /\ \/ h[i].key = r.min.key
                    \/ \E j \in 0..n - 1 : h[j] # NULL /\ r.point[j + 1] = p[j + 1] /\ h[j].key = h[i].key

LEMMA FoundIs ==
  ASSUME NEW n \in Nat, NEW p \in [1..n -> Nat], NEW s,
         NEW h \in [0..n - 1 -> Items \cup {NULL}], Chosen(h, n, p, n, s)
  PROVE  Found(h, n, p, IF s.index = -1 THEN s ELSE [s EXCEPT !.point[s.index + 1] = @ + 1])
<1>0. s \in [min : Items \cup {NULL}, index : -1..n - 1, point : [1..n -> Nat]]
  BY DEF Chosen
<1>1. s.min \in Items \cup {NULL} /\ s.point \in [1..n -> Nat] /\ s.index \in -1..n - 1
  BY <1>0
<1>2. CASE s.min = NULL
  <2>1. s.index = -1 /\ s.point = p /\ \A i \in 0..n - 1 : h[i] = NULL
    BY <1>2 DEF Chosen
  <2> QED
    BY <1>1, <1>2, <2>1 DEF Found
<1>3. CASE s.min # NULL
  <2> DEFINE w == s.index
             r == [s EXCEPT !.point[w + 1] = @ + 1]
  <2>1. w \in 0..n - 1 /\ h[w] = s.min /\ s.point[w + 1] = p[w + 1]
    BY <1>3 DEF Chosen
  <2>2. w + 1 \in 1..n /\ w # -1 /\ p[w + 1] \in Nat /\ \A i \in 0..n - 1 : i # w => i + 1 # w + 1
    BY <2>1
  <2>3. r.min = s.min /\ r.point = [s.point EXCEPT ![w + 1] = p[w + 1] + 1]
    BY <1>0, <2>1, <2>2
  <2> HIDE DEF w, r
  <2>4. r.point \in [1..n -> Nat]
    BY <1>1, <2>2, <2>3, PointStays
  <2>5. r.point[w + 1] = p[w + 1] + 1 /\ \A i \in 0..n - 1 : i # w => r.point[i + 1] = s.point[i + 1]
    <3>1. r.point[w + 1] = p[w + 1] + 1
      BY <1>1, <2>2, <2>3
    <3>2. \A i \in 0..n - 1 : i + 1 \in 1..n
      OBVIOUS
    <3>3. \A x \in 1..n : x # w + 1 => r.point[x] = s.point[x]
      BY <1>1, <2>2, <2>3
    <3> QED
      BY <2>2, <3>1, <3>2, <3>3
  <2>6. p[w + 1] + 1 # p[w + 1]
    BY <2>2
  <2>7. /\ \A i \in 0..n - 1 : s.point[i + 1] \in {p[i + 1], p[i + 1] + 1}
        /\ \A i \in 0..n - 1 : h[i] # NULL =>
             /\ Comparator(s.min, h[i]) # 1
             /\ s.point[i + 1] = p[i + 1] /\ i # w => Comparator(s.min, h[i]) = -1
        /\ \A i \in 0..n - 1 : s.point[i + 1] # p[i + 1] =>
             /\ h[i] # NULL
             /\ \E j \in 0..n - 1 : h[j] # NULL /\ s.point[j + 1] = p[j + 1] /\ h[j].key = h[i].key
             /\ \E j \in 0..n - 1 : Beats(h, j, i)
    BY DEF Chosen, w
  <2>8. \A i \in 0..n - 1 : i # w /\ r.point[i + 1] # p[i + 1] => \E j \in 0..n - 1 : Beats(h, j, i)
    BY <2>5, <2>7
  <2>9. ASSUME NEW i \in 0..n - 1
        PROVE  /\ r.point[i + 1] \in {p[i + 1], p[i + 1] + 1}
               /\ h[i] # NULL => Comparator(r.min, h[i]) # 1
               /\ h[i] # NULL /\ r.point[i + 1] = p[i + 1] => Comparator(r.min, h[i]) = -1
    BY <2>3, <2>5, <2>6, <2>7
  <2>10. ASSUME NEW i \in 0..n - 1, r.point[i + 1] # p[i + 1]
         PROVE  /\ h[i] # NULL
                /\ \/ h[i].key = r.min.key
                   \/ \E j \in 0..n - 1 : h[j] # NULL /\ r.point[j + 1] = p[j + 1] /\ h[j].key = h[i].key
    <3>1. CASE i = w
      BY <1>3, <2>1, <2>3, <3>1
    <3>2. CASE i # w
      <4>1. PICK j \in 0..n - 1 : h[j] # NULL /\ s.point[j + 1] = p[j + 1] /\ h[j].key = h[i].key
        BY <2>5, <2>7, <2>10, <3>2
      <4>2. h[i] # NULL
        BY <2>5, <2>7, <2>10, <3>2
      <4>3. CASE j = w
        BY <2>1, <2>3, <4>1, <4>2, <4>3
      <4>4. CASE j # w
        BY <2>5, <4>1, <4>2, <4>4
      <4> QED
        BY <4>3, <4>4
    <3> QED
      BY <3>1, <3>2
  <2>11. h[w] = r.min /\ w \in 0..n - 1 /\ r.min # NULL /\ r.min \in Items \cup {NULL}
    BY <1>1, <1>3, <2>1, <2>3
  <2>12. Found(h, n, p, r)
    <3>1. \E v \in 0..n - 1 : h[v] = r.min /\ r.point[v + 1] = p[v + 1] + 1
            /\ \A i \in 0..n - 1 : i # v /\ r.point[i + 1] # p[i + 1] => \E j \in 0..n - 1 : Beats(h, j, i)
      BY <2>5, <2>8, <2>11
    <3> QED
      BY <2>4, <2>9, <2>10, <2>11, <3>1, Zenon DEF Found
  <2> QED
    BY <2>2, <2>12 DEF w, r
<1> QED
  BY <1>2, <1>3

\* The fold of Compare over the tables.
LEMMA LastIs ==
  ASSUME NEW n \in Nat, n = Num, NEW p \in [1..n -> Nat], p = point,
         NEW h \in [0..n - 1 -> Items \cup {NULL}], \A i \in 0..n - 1 : h[i] = Data(i)
  PROVE  \E s : /\ Chosen(h, n, p, n, s)
                /\ findsmallest = IF s.index = -1 THEN s ELSE [s EXCEPT !.point[s.index + 1] = @ + 1]
<1> DEFINE A == State(n)
           b == [min |-> NULL, index |-> -1, point |-> point]
           places == [i \in 1..Num |-> i - 1]
           step == [k \in 1..n |-> [s \in A |-> Compare(s, k - 1)]]
<1>1. n \in Nat /\ DOMAIN places = 1..n /\ \A k \in 1..n : places[k] = k - 1 /\ k - 1 \in 0..n - 1
  OBVIOUS
<1>2. b \in A
  <2>1. -1 \in -1..n - 1
    OBVIOUS
  <2> QED
    BY <2>1 DEF State
<1>3. \A k \in 1..n : \A s \in A : Compare(s, k - 1) \in A
  <2> SUFFICES ASSUME NEW k \in 1..n, NEW s \in State(n) PROVE Compare(s, k - 1) \in State(n)
    OBVIOUS
  <2>1. k - 1 \in 0..n - 1
    BY <1>1
  <2>2. Data(k - 1) = h[k - 1]
    BY <2>1
  <2>3. Data(k - 1) \in Items \cup {NULL}
    BY <2>1, <2>2
  <2> QED
    BY <2>1, <2>3, CompareState
<1>4. step \in [1..n -> [A -> A]]
  <2> HIDE DEF A
  <2> QED
    BY <1>3
<1>5. \A k \in 1..n : \A s \in A : step[k][s] = Compare(s, k - 1)
  <2> HIDE DEF A
  <2> QED
    OBVIOUS
<1> HIDE DEF A, step, b, places
<1>6. PICK it \in [SUBSET (1..n) -> A] :
        \A T \in SUBSET (1..n) : it[T] = IF T = {} THEN b ELSE step[Max(T)][it[T \ {Max(T)}]]
  <2>1. FoldIn(n, A, b, step)
    BY <1>1, <1>2, <1>4, FoldExists
  <2> QED
    BY <2>1 DEF FoldIn
<1>7. \A T \in SUBSET (1..n) : T # {} => Max(T) \in 1..n /\ T \ {Max(T)} \in SUBSET (1..n)
  <2>1. ASSUME NEW T \in SUBSET (1..n), T # {} PROVE Max(T) \in T
    <3>1. T \subseteq 0..n
      BY <1>1
    <3> QED
      BY <1>1, <2>1, <3>1, MaxOf
  <2> QED
    BY <2>1
<1> DEFINE Is(f) == f = [T \in SUBSET (1..n) |->
                           IF T = {} THEN b ELSE Compare(f[T \ {Max(T)}], places[Max(T)])]
<1>8. Is(it)
  <2>1. \A T \in SUBSET (1..n) :
          it[T] = IF T = {} THEN b ELSE Compare(it[T \ {Max(T)}], places[Max(T)])
    <3> SUFFICES ASSUME NEW T \in SUBSET (1..n)
                 PROVE  it[T] = IF T = {} THEN b ELSE Compare(it[T \ {Max(T)}], places[Max(T)])
      OBVIOUS
    <3>1. CASE T = {}
      BY <1>6, <3>1
    <3>2. CASE T # {}
      <4>1. Max(T) \in 1..n /\ it[T \ {Max(T)}] \in A
        BY <1>6, <1>7, <3>2
      <4>2. places[Max(T)] = Max(T) - 1
        BY <1>1, <4>1
      <4>3. step[Max(T)][it[T \ {Max(T)}]] = Compare(it[T \ {Max(T)}], Max(T) - 1)
        BY <1>5, <4>1
      <4>4. it[T] = step[Max(T)][it[T \ {Max(T)}]]
        BY <1>6, <3>2
      <4> QED
        BY <3>2, <4>2, <4>3, <4>4, Zenon
    <3> QED
      BY <3>1, <3>2
  <2>2. it = [T \in SUBSET (1..n) |-> it[T]]
    OBVIOUS
  <2> QED
    BY <2>1, <2>2, Zenon
<1> DEFINE f == CHOOSE f : Is(f)
<1>9. Is(f)
  BY <1>8
<1>10. findsmallest = LET last == f[1..n] IN IF last.index = -1 THEN last ELSE [last EXCEPT !.point[last.index + 1] = @ + 1]
  BY <1>1 DEF findsmallest, FoldLeft, MapThenFoldSet, places, b
<1>11. \A T \in SUBSET (1..n) : f[T] = IF T = {} THEN b ELSE Compare(f[T \ {Max(T)}], places[Max(T)])
  <2> HIDE DEF f
  <2> QED
    BY <1>9
<1> HIDE DEF Is, f
<1>12. f[1..0] = b /\ \A i \in 1..n : f[1..i] = Compare(f[1..i - 1], i - 1)
  <2>1. /\ 1..0 = {} /\ \A i \in 0..n : 1..i \in SUBSET (1..n)
        /\ \A i \in 1..n : /\ 1..i # {} /\ Max(1..i) = i /\ (1..i) \ {i} = 1..i - 1
    BY <1>1, FirstPlaces
  <2>2. 1..0 \in SUBSET (1..n) /\ \A i \in 1..n : 1..i \in SUBSET (1..n)
    BY <1>1
  <2>3. ASSUME NEW i \in 1..n PROVE f[1..i] = Compare(f[1..i - 1], places[i])
    <3>1. f[1..i] = Compare(f[(1..i) \ {Max(1..i)}], places[Max(1..i)])
      BY <1>11, <2>1, <2>2
    <3> QED
      BY <2>1, <3>1, Zenon
  <2>4. f[1..0] = b
    BY <1>11, <2>1, <2>2, Zenon
  <2> QED
    BY <1>1, <2>3, <2>4
<1> DEFINE T == {i \in Nat : i <= n => Chosen(h, n, p, i, f[1..i])}
<1>13. 0 \in T
  <2>1. b.min = NULL /\ b.index = -1 /\ b.point = p /\ b \in State(n)
    BY <1>2 DEF b, A
  <2>2. \A i \in 0..n - 1 : p[i + 1] \in Nat /\ p[i + 1] \in {p[i + 1], p[i + 1] + 1}
    OBVIOUS
  <2>3. \A i : i \notin 0..0 - 1
    OBVIOUS
  <2>4. Chosen(h, n, p, 0, b)
    BY <2>1, <2>2, <2>3 DEF Chosen, State
  <2> QED
    BY <1>12, <2>4
<1>14. ASSUME NEW i \in T, i \in Nat PROVE i + 1 \in T
  <2> SUFFICES ASSUME i + 1 <= n PROVE Chosen(h, n, p, i + 1, f[1..i + 1])
    BY <1>14
  <2>1. i <= n /\ i + 1 \in 1..n /\ (i + 1) - 1 = i /\ i \in 0..n - 1
    BY <1>1, <1>14
  <2>2. Chosen(h, n, p, i, f[1..i])
    BY <1>14, <2>1
  <2>3. Chosen(h, n, p, i + 1, Compare(f[1..i], i))
    BY <2>1, <2>2, ChosenMore
  <2>4. f[1..i + 1] = Compare(f[1..i], i)
    <3>1. f[1..i + 1] = Compare(f[1..(i + 1) - 1], (i + 1) - 1)
      BY <1>12, <2>1
    <3> QED
      BY <2>1, <3>1, Zenon
  <2> QED
    BY <2>3, <2>4, Zenon
<1>15. n \in T
  <2> HIDE DEF T
  <2> QED
    BY <1>1, <1>13, <1>14, SetInduction
<1>16. Chosen(h, n, p, n, f[1..n])
  BY <1>15
<1> QED
  BY <1>10, <1>16

LEMMA SmallestIs ==
  ASSUME Num \in Nat, point \in [1..Num -> Nat],
         NEW h \in [0..Num - 1 -> Items \cup {NULL}], \A i \in 0..Num - 1 : h[i] = Data(i)
  PROVE  Found(h, Num, point, findsmallest)
<1> DEFINE n == Num
<1>1. n \in Nat /\ point \in [1..n -> Nat] /\ h \in [0..n - 1 -> Items \cup {NULL}]
      /\ n = Num /\ \A i \in 0..n - 1 : h[i] = Data(i)
  OBVIOUS
<1> HIDE DEF n
<1>2. PICK s : /\ Chosen(h, n, point, n, s)
               /\ findsmallest = IF s.index = -1 THEN s ELSE [s EXCEPT !.point[s.index + 1] = @ + 1]
  BY <1>1, LastIs
<1>3. Found(h, n, point, findsmallest)
  BY <1>1, <1>2, FoundIs
<1> QED
  BY <1>3 DEF n

-----------------------------------------------------------------------------
(* The inductive invariant: what is true in each phase.                    *)

\* A file: the number in its head, and the items written.
File == [key_num : Nat, items : Seq(Items)]

\* The file of a table from before the compaction.
OnDisk(t) ==
  disk[t] \in File /\ disk[t].key_num = Len(disk[t].items) /\ ToSet(disk[t].items) = held[t]

\* A table with its hash table, whose items are as they were put or as they were read.
InMemory(t) ==
  /\ status[t] \in {"READ", "WRITE"}
  /\ buckets[t] \in [1..NBuckets -> Seq(Items)]
  /\ Elements(buckets[t]) \in {held[t], {Reread(d) : d \in held[t]}}

\* What nextdata gave of table t is from one or the other.
From(t) == ToSet(seen[t]) \subseteq held[t] \/ ToSet(seen[t]) \subseteq {Reread(d) : d \in held[t]}

\* A table that was sorted.
Ready(t) ==
  InMemory(t) /\ From(t) /\ Array(datas[t], seen[t]) /\ Len(datas[t]) = Len(FlattenSeq(buckets[t]))

\* The tables there are, and what they held.
Shape ==
  /\ DOMAIN status = Ids /\ DOMAIN disk = Ids /\ DOMAIN buckets = Ids
  /\ DOMAIN datas = Ids /\ DOMAIN seen = Ids
  /\ \A t \in 0..N - 1 : held[t] \in Contents

\* Before the merge: the first k tables are sorted.
Untouched(k) ==
  /\ ids = [i \in 1..N |-> i - 1] /\ current_id = N
  /\ \A t \in 0..N - 2 : OnDisk(t)
  /\ \A t \in 0..N - 1 : InMemory(t) \/ (status[t] = "UNOPEN" /\ t <= N - 2)
  /\ \A t \in 0..k - 1 : t \in 0..N - 1 /\ Ready(t)
  /\ \A t \in Ids : t >= k => seen[t] = NULL

\* The tables up to end are compacted; none behind it was sorted.
Going == end \in 1..N - 1 /\ \A t \in Ids : t > end => seen[t] = NULL

\* Nothing was taken yet.
Unread == point = [i \in 1..end + 1 |-> 0]

\* What is still to be taken of table t.
Ahead(t) == {i \in 1..Len(seen[t]) : i > point[t + 1]}

\* The new tables.
Outputs ==
  /\ current_id \in Nat /\ N < current_id /\ current_id <= N + MaxNew
  /\ \A u \in N..current_id - 1 : disk[u] \in File /\ Len(disk[u].items) <= MAX

\* Strictly increasing; and the condition of MergedInOrder about nextdata.
Rising(s) == \A i \in 1..Len(s) - 1 : Comparator(s[i], s[i + 1]) = -1

Once == \A t \in Ids : ~Repeats(t)

\* No later version of the item x of table t was seen.
Top(x, t) ==
  \A u \in 0..end : \A y \in ToSet(seen[u]) :
    y.key = x.key => \/ y = x /\ u = t
                     \/ Newer(x.version, y.version)
                     \/ x.version = y.version /\ t > u

\* A key that was seen is in a new table or still ahead, ...
Kept ==
  \A t \in 0..end : \A x \in ToSet(seen[t]) :
    \/ \E y \in ToSet(Merged) : y.key = x.key
    \/ \E u \in 0..end : \E i \in Ahead(u) : datas[u][i].key = x.key

\* ... so is its latest item, ...
TopKept ==
  \A t \in 0..end : \A x \in ToSet(seen[t]) :
    Top(x, t) => x \in ToSet(Merged) \/ \E i \in Ahead(t) : datas[t][i] = x

\* ... and what is ahead is greater than what was put.
InOrder ==
  Once =>
    /\ Rising(Merged)
    /\ Merged # <<>> => \A t \in 0..end : \A i \in Ahead(t) :
                          Comparator(Last(Merged), datas[t][i]) = -1

\* While tables are merged.
Merging ==
  /\ Going /\ Outputs
  /\ ids = [i \in 1..current_id |-> i - 1]
  /\ point \in [1..end + 1 -> Nat] /\ \A t \in 0..end : point[t + 1] <= Len(datas[t])
  /\ \A t \in 0..N - 2 : OnDisk(t)
  /\ \A t \in 0..end : Ready(t)
  /\ \A u \in N..current_id - 1 : status[u] \in {"COMPACT", "COMPACTED"}
  /\ \A u \in N..current_id - 2 : disk[u].key_num = Len(disk[u].items)
  /\ Kept /\ TopKept /\ InOrder

\* When the merge is done: the new tables are complete and the old ones go.
Removed ==
  /\ Going /\ Outputs
  /\ pc = "remove" => /\ at \in 0..end
                      /\ ids \in Seq(Int) /\ Len(ids) = current_id - at
                      /\ \A i \in 1..Len(ids) : ids[i] = at + i - 1
  /\ \A t \in 0..end : seen[t] \in Seq(Items) /\ From(t)
  /\ \A u \in N..current_id - 1 : disk[u].key_num = Len(disk[u].items)
  /\ \A t \in 0..end : \A x \in ToSet(seen[t]) :
       /\ \E y \in ToSet(Merged) : y.key = x.key
       /\ Top(x, t) => x \in ToSet(Merged)
  /\ Once => Rising(Merged)

\* The phases in the order sstmanager_compact goes through them.
CInv ==
  /\ Shape
  /\ pc = "idle" \/ begin = 0 =>
       \/ pc \in {"idle", "start", "done", "fault"} /\ Untouched(0) /\ begin = 0 /\ end \in Nat
       \/ pc = "sort" /\ Untouched(at) /\ Going /\ at \in 0..end /\ Unread
       \/ pc = "create" /\ Untouched(end + 1) /\ Going /\ Unread
       \/ pc \in {"merge", "fault"} /\ Merging
       \/ pc \in {"remove", "done"} /\ Removed

-----------------------------------------------------------------------------
(* What the constants give. *)

\* Every table holds at most one item of a key, as put and as read.
LEMMA ContentsAre ==
  ASSUME NEW S \in Contents
  PROVE  /\ IsFiniteSet(S) /\ S \subseteq Items
         /\ \A x, y \in S : x.key = y.key => x = y
         /\ \A x, y \in {Reread(d) : d \in S} : x.key = y.key => x = y
         /\ {Reread(d) : d \in S} \subseteq Items
<1>1. /\ IsFiniteSet(S) /\ S \subseteq data_t
      /\ \A d \in S : d.hash_value = Hash[d.key]
      /\ \A d, e \in S : d.key = e.key => d = e
  BY ContentsAssumption
<1>2. S \subseteq Items
  BY <1>1 DEF Items
<1>3. \A d \in S : Reread(d) \in Items /\ Reread(d).key = d.key
  BY <1>2, ItemFacts
<1>4. \A x, y \in {Reread(d) : d \in S} : x.key = y.key => x = y
  BY <1>1, <1>3
<1> QED
  BY <1>1, <1>2, <1>3, <1>4

\* No pointer of the model is NULL by accident.
LEMMA NotNull ==
  /\ \A s \in Seq(Items) : s # NULL
  /\ \A f \in File : f # NULL
  /\ NULL \notin Items
<1>1. \A s \in Seq(Items) : s \in Seq(data_t)
  <2> SUFFICES ASSUME NEW s \in Seq(Items) PROVE s \in Seq(data_t)
    OBVIOUS
  <2>1. \A i \in 1..Len(s) : s[i] \in data_t
    BY ElementOfSeq DEF Items
  <2> QED
    BY <2>1, SeqDef, LenProperties
<1>2. \A f \in File : f \in [key_num : Nat, items : Seq(data_t)]
  <2> SUFFICES ASSUME NEW f \in File PROVE f \in [key_num : Nat, items : Seq(data_t)]
    OBVIOUS
  <2>1. f \in [key_num : Nat, items : Seq(Items)]
    BY DEF File
  <2>2. f.items \in Seq(data_t)
    BY <1>1, <2>1
  <2>3. f.key_num \in Nat /\ f = [key_num |-> f.key_num, items |-> f.items]
    BY <2>1
  <2> QED
    BY <2>2, <2>3
<1>3. NULL \notin Items
  BY PointerAssumption DEF Items
<1> QED
  BY <1>1, <1>2, <1>3, PointerAssumption

\* hashtable_sort of a table in memory.
LEMMA HashtableSortIs ==
  ASSUME NEW c \in [1..NBuckets -> Seq(Items)],
         \A x, y \in Elements(c) : x.key = y.key => x = y
  PROVE  LET k == Len(FlattenSeq(c))
         IN /\ k \in Nat
            /\ Array(hashtable_sort(c, k), Collected(c, k))
            /\ Len(hashtable_sort(c, k)) = k
            /\ ToSet(Collected(c, k)) \subseteq Elements(c)
<1> DEFINE k == Len(FlattenSeq(c))
           E == Elements(c)
           s == Collected(c, k)
<1>1. k \in Nat
  BY FlatChains
<1>2. c \in [1..NBuckets -> Seq(E)] /\ E \subseteq Items /\ NULL \notin E
  BY ChainElements, ElementIs, NotNull
<1> HIDE DEF k, E
<1>3. s \in Seq(E) /\ Len(s) <= k
  BY <1>1, <1>2, CollectedIs
<1> HIDE DEF s
<1>4. ToSet(s) \subseteq E
  BY <1>3, ToSetIs
<1>5. s \in Seq(Items)
  <2>1. \A i \in 1..Len(s) : s[i] \in Items
    BY <1>2, <1>3, ElementOfSeq
  <2> QED
    BY <1>3, <2>1, SeqDef, LenProperties
<1>6. \A x, y \in ToSet(s) : x.key = y.key => x = y
  BY <1>4 DEF E
<1> DEFINE t == merge_sort(s)
           a == [i \in 1..k |-> IF i <= Len(t) THEN t[i] ELSE NULL]
<1>7. Array(a, s) /\ Len(a) = k
  BY <1>1, <1>3, <1>5, <1>6, ArrayIs
<1>8. a = hashtable_sort(c, k)
  BY DEF hashtable_sort, s
<1> HIDE DEF a
<1> QED
  BY <1>1, <1>4, <1>7, <1>8 DEF k, E, s

-----------------------------------------------------------------------------
(* The first states, and the steps up to the merge. *)

\* The invariant holds at the start.
LEMMA InitCInv == Init => CInv
<1> SUFFICES ASSUME Init PROVE CInv
  OBVIOUS
<1>1. PICK contents \in [0..N - 1 -> Contents] :
        held = [t \in Ids |-> IF t < N THEN contents[t] ELSE {}]
  BY DEF Init
<1>2. PICK old \in 0..N - 1 :
        status = [t \in Ids |-> CASE t < old -> "UNOPEN" [] t = N - 1 -> "WRITE"
                              [] t >= N -> "SNULL" [] OTHER -> "READ"]
  BY DEF Init
<1>3. N \in Nat /\ MaxNew \in Nat /\ \A t \in 0..N - 1 : t \in Ids /\ t < N /\ ~(t >= N)
  BY SizesAssumption DEF Ids
<1>4. \A t \in 0..N - 1 : held[t] = contents[t] /\ held[t] \in Contents
  BY <1>1, <1>3
<1>5. Shape
  BY <1>4 DEF Shape, Init
<1>6. \A t \in 0..N - 1 : /\ status[t] = "UNOPEN" => t < old
                          /\ status[t] # "UNOPEN" => status[t] \in {"READ", "WRITE"}
                          /\ status[t] = "WRITE" => t = N - 1
  BY <1>2, <1>3
<1>7. \A t \in 0..N - 1 : /\ Chains(SetToSeq(held[t])) \in [1..NBuckets -> Seq(Items)]
                          /\ Elements(Chains(SetToSeq(held[t]))) = held[t]
  BY <1>4, ContentsAre, HeldChains
<1>8. ASSUME NEW t \in 0..N - 2 PROVE OnDisk(t)
  <2>1. t \in 0..N - 1 /\ t # N - 1
    BY <1>3
  <2> DEFINE items == FlattenSeq(Chains(SetToSeq(held[t])))
  <2>2. disk[t] = [key_num |-> Len(items), items |-> items]
    BY <1>3, <1>6, <2>1 DEF Init
  <2>3. items \in Seq(Items) /\ Len(items) \in Nat /\ ToSet(items) = held[t]
    BY <1>7, <2>1, FlatChains
  <2> HIDE DEF items
  <2> QED
    BY <2>2, <2>3 DEF OnDisk, File
<1>9. ASSUME NEW t \in 0..N - 1 PROVE InMemory(t) \/ (status[t] = "UNOPEN" /\ t <= N - 2)
  <2>1. CASE status[t] = "UNOPEN"
    BY <1>3, <1>6, <2>1
  <2>2. CASE status[t] # "UNOPEN"
    <3>1. buckets[t] = Chains(SetToSeq(held[t]))
      BY <1>3, <2>2 DEF Init
    <3> QED
      BY <1>6, <1>7, <2>2, <3>1 DEF InMemory
  <2> QED
    BY <2>1, <2>2
<1>10. \A t \in Ids : seen[t] = NULL
  BY DEF Init
<1>11. Untouched(0)
  <2>1. \A t : t \notin 0..0 - 1
    OBVIOUS
  <2>2. ids = [i \in 1..N |-> i - 1] /\ current_id = N
    BY DEF Init
  <2> QED
    BY <1>8, <1>9, <1>10, <2>1, <2>2 DEF Untouched
<1>12. pc = "idle" /\ begin = 0 /\ end = 0
  BY DEF Init
<1> QED
  BY <1>5, <1>11, <1>12 DEF CInv

\* A step that changes none of the tables.
LEMMA UntouchedStays ==
  ASSUME NEW k, Untouched(k),
         UNCHANGED <<ids, current_id, status, buckets, datas, disk, held, seen>>
  PROVE  Untouched(k)'
BY DEF Untouched, OnDisk, InMemory, Ready, From

\* What the invariant says before the compaction works on tables.
LEMMA IdlePhase ==
  ASSUME CInv, pc \in {"idle", "start"}, pc = "idle" \/ begin = 0
  PROVE  Untouched(0) /\ begin = 0 /\ end \in Nat
BY DEF CInv

\* As long as nothing is loaded the invariant is kept.
LEMMA StayIdle ==
  ASSUME NEW b, CInv, Shape', Untouched(0)', pc' \in {"start", "done", "fault"}, begin' = b,
         b = 0 => end' \in Nat
  PROVE  CInv'
BY DEF CInv

\* A call, the manager's check and the first lines of sstmanager_compact.
LEMMA CallKeeps ==
  ASSUME CInv, Shape', NEW b, NEW e, Call(b, e), b = 0 => e \in Nat
  PROVE  CInv'
<1>1. pc = "idle" /\ pc' = "start" /\ begin' = b /\ end' = e
      /\ UNCHANGED <<ids, current_id, status, buckets, datas, disk, held, seen>>
  BY DEF Call
<1>2. Untouched(0)
  BY <1>1, IdlePhase
<1>3. Untouched(0)'
  BY <1>1, <1>2, UntouchedStays
<1> QED
  BY <1>1, <1>3 DEF CInv

LEMMA CheckKeeps ==
  ASSUME CInv, Shape', sstmanager_checkcompact
  PROVE  CInv'
<1>1. Call(0, current_id - 2) /\ pc = "idle" /\ 0 <= current_id - 2
  BY DEF sstmanager_checkcompact, Call
<1>2. current_id = N /\ N \in Nat
  BY <1>1, IdlePhase, SizesAssumption DEF Untouched
<1> QED
  BY <1>1, <1>2, CallKeeps

LEMMA StartKeeps ==
  ASSUME CInv, Shape', Start
  PROVE  CInv'
<1>1. /\ pc = "start" /\ begin' = begin /\ end' = end
      /\ UNCHANGED <<ids, current_id, status, buckets, datas, disk, held, seen>>
      /\ pc' \in {"done", "fault", "sort"}
  BY DEF Start, Fault
<1> SUFFICES ASSUME begin = 0 PROVE CInv'
  BY <1>1 DEF CInv
<1>2. Untouched(0) /\ end \in Nat
  BY <1>1, IdlePhase
<1>3. Untouched(0)'
  BY <1>1, <1>2, UntouchedStays
<1>4. CASE pc' # "sort"
  BY <1>1, <1>2, <1>3, <1>4 DEF CInv
<1>5. CASE pc' = "sort"
  <2>1. /\ ~(begin = end \/ sst_num <= end)
        /\ point' = [i \in 1..Num |-> 0] /\ at' = begin
    BY <1>5 DEF Start, Fault
  <2>2. sst_num = N /\ N \in Nat
    <3>1. ids = [i \in 1..N |-> i - 1] /\ N \in Nat
      BY <1>2, SizesAssumption DEF Untouched
    <3>2. ids \in [1..N -> Int]
      BY <3>1
    <3> QED
      BY <3>1, <3>2, FunctionIsSeq DEF sst_num
  <2>3. end \in 1..N - 1
    BY <1>2, <2>1, <2>2
  <2>4. \A t \in Ids : t >= 0 => seen[t] = NULL
    BY <1>2 DEF Untouched
  <2>5. \A t \in Ids : t > end => seen[t] = NULL
    BY <1>2, <2>4 DEF Ids
  <2>6. Going'
    BY <1>1, <2>3, <2>5 DEF Going, Ids
  <2>7. Num = end + 1
    BY <1>2 DEF Num
  <2>8. Unread'
    BY <1>1, <2>1, <2>7 DEF Unread
  <2>9. at' \in 0..end' /\ at' = 0
    BY <1>1, <1>2, <2>1
  <2>10. Untouched(at)'
    BY <1>3, <2>9 DEF Untouched
  <2> QED
    BY <1>1, <1>5, <2>6, <2>8, <2>9, <2>10 DEF CInv
<1> QED
  BY <1>4, <1>5

\* What the invariant says while tables are loaded and sorted.
LEMMA SortPhase ==
  ASSUME CInv, pc = "sort", begin = 0
  PROVE  Untouched(at) /\ Going /\ at \in 0..end /\ Unread
BY DEF CInv

\* What sst_precompact loads, or finds in memory.
LEMMA LoadKeeps ==
  ASSUME NEW t \in 0..N - 1, held[t] \in Contents, t <= N - 2 => OnDisk(t),
         InMemory(t) \/ (status[t] = "UNOPEN" /\ t <= N - 2)
  PROVE  LET chains == IF status[t] = "UNOPEN" THEN Loaded(disk[t]) ELSE buckets[t]
         IN /\ chains \in [1..NBuckets -> Seq(Items)]
            /\ Elements(chains) \in {held[t], {Reread(d) : d \in held[t]}}
            /\ \A x, y \in Elements(chains) : x.key = y.key => x = y
            /\ status[t] # "UNOPEN" => status[t] \in {"READ", "WRITE"}
<1> DEFINE chains == IF status[t] = "UNOPEN" THEN Loaded(disk[t]) ELSE buckets[t]
<1>1. CASE status[t] = "UNOPEN"
  <2>1. OnDisk(t)
    BY <1>1 DEF InMemory
  <2>2. disk[t].items \in Seq(Items) /\ disk[t].key_num = Len(disk[t].items) /\ ToSet(disk[t].items) = held[t]
    BY <2>1 DEF OnDisk, File
  <2>3. Loaded(disk[t]) \in [1..NBuckets -> Seq(Items)] /\ Elements(Loaded(disk[t])) = {Reread(d) : d \in held[t]}
    BY <2>2, LoadedIs
  <2>4. \A x, y \in {Reread(d) : d \in held[t]} : x.key = y.key => x = y
    BY ContentsAre
  <2>5. chains = Loaded(disk[t])
    BY <1>1
  <2> HIDE DEF chains
  <2>6. Elements(chains) = {Reread(d) : d \in held[t]} /\ chains \in [1..NBuckets -> Seq(Items)]
    BY <2>3, <2>5
  <2> QED
    BY <1>1, <2>4, <2>6 DEF chains
<1>2. CASE status[t] # "UNOPEN"
  <2>1. InMemory(t)
    BY <1>2
  <2>2. chains = buckets[t]
    BY <1>2
  <2> HIDE DEF chains
  <2>3. chains \in [1..NBuckets -> Seq(Items)] /\ Elements(chains) \in {held[t], {Reread(d) : d \in held[t]}}
    BY <2>1, <2>2 DEF InMemory
  <2>4. \A x, y \in Elements(chains) : x.key = y.key => x = y
    BY <2>3, ContentsAre
  <2>5. status[t] \in {"READ", "WRITE"}
    BY <2>1 DEF InMemory
  <2> QED
    BY <2>3, <2>4, <2>5 DEF chains
<1> QED
  BY <1>1, <1>2

\* sst_precompact of table at: one more table is ready.
LEMMA PrecompactKeeps ==
  ASSUME CInv, Shape', Precompact
  PROVE  CInv'
<1> SUFFICES ASSUME begin = 0 PROVE CInv'
  BY DEF CInv, Precompact
<1>p. PICK t : t = at
  OBVIOUS
<1>q. PICK m : m = t + 1
  OBVIOUS
<1> DEFINE chains == IF status[t] = "UNOPEN" THEN Loaded(disk[t]) ELSE buckets[t]
           k == Len(FlattenSeq(chains))
<1>0. Shape /\ Untouched(t) /\ Going /\ t \in 0..end /\ Unread
  BY <1>p, SortPhase DEF CInv, Precompact
<1>1. N \in Nat /\ end \in 1..N - 1 /\ t \in 0..N - 1 /\ t \in Ids /\ MaxNew \in Nat
  BY <1>0, SizesAssumption DEF Going, Ids
<1>2. Sst(at) = t
  BY <1>0, <1>1, <1>p DEF Untouched, Sst
<1>3. /\ buckets' = [buckets EXCEPT ![t] = chains]
      /\ status' = IF status[t] = "UNOPEN" THEN [status EXCEPT ![t] = "READ"] ELSE status
      /\ datas' = [datas EXCEPT ![t] = hashtable_sort(chains, k)]
      /\ seen' = [seen EXCEPT ![t] = Collected(chains, k)]
      /\ at' = m /\ pc' = IF t = end THEN "create" ELSE "sort"
      /\ UNCHANGED <<head, ids, current_id, disk, point, begin, end, held>>
  BY <1>2, <1>p, <1>q DEF Precompact
<1>4. /\ chains \in [1..NBuckets -> Seq(Items)]
      /\ Elements(chains) \in {held[t], {Reread(d) : d \in held[t]}}
      /\ \A x, y \in Elements(chains) : x.key = y.key => x = y
      /\ status[t] # "UNOPEN" => status[t] \in {"READ", "WRITE"}
  <2>1. held[t] \in Contents
    BY <1>0, <1>1 DEF Shape
  <2>2. t <= N - 2 => OnDisk(t)
    BY <1>0, <1>1 DEF Untouched
  <2>3. InMemory(t) \/ (status[t] = "UNOPEN" /\ t <= N - 2)
    BY <1>0, <1>1 DEF Untouched
  <2> QED
    BY <1>1, <2>1, <2>2, <2>3, LoadKeeps
<1> HIDE DEF chains
<1>5. /\ k \in Nat
      /\ Array(hashtable_sort(chains, k), Collected(chains, k))
      /\ Len(hashtable_sort(chains, k)) = k
      /\ ToSet(Collected(chains, k)) \subseteq Elements(chains)
  BY <1>4, HashtableSortIs
<1>t. /\ t \in DOMAIN buckets /\ t \in DOMAIN status /\ t \in DOMAIN datas /\ t \in DOMAIN seen
      /\ DOMAIN buckets = Ids /\ DOMAIN status = Ids /\ DOMAIN datas = Ids /\ DOMAIN seen = Ids
  BY <1>0, <1>1 DEF Shape
<1>6. /\ buckets'[t] = chains /\ datas'[t] = hashtable_sort(chains, k) /\ seen'[t] = Collected(chains, k)
  BY <1>3, <1>t
<1>7. status'[t] \in {"READ", "WRITE"}
  BY <1>3, <1>4, <1>t
<1>i. \A u \in 0..N - 1 : u \in Ids
  BY <1>1 DEF Ids
<1>8. \A u \in Ids : u # t => buckets'[u] = buckets[u] /\ status'[u] = status[u] /\ datas'[u] = datas[u] /\ seen'[u] = seen[u]
  BY <1>3, <1>t
<1>9. InMemory(t)'
  BY <1>3, <1>4, <1>6, <1>7 DEF InMemory
<1>10. From(t)'
  <2>1. ToSet(seen'[t]) \subseteq held[t] \/ ToSet(seen'[t]) \subseteq {Reread(d) : d \in held[t]}
    BY <1>4, <1>5, <1>6
  <2> QED
    BY <1>3, <2>1 DEF From
<1>11. Ready(t)'
  BY <1>5, <1>6, <1>9, <1>10 DEF Ready
<1> HIDE DEF k
<1>12. \A u \in 0..N - 2 : OnDisk(u)'
  BY <1>0, <1>3 DEF Untouched, OnDisk
<1>13. \A u \in 0..N - 1 : InMemory(u)' \/ (status'[u] = "UNOPEN" /\ u <= N - 2)
  <2> SUFFICES ASSUME NEW u \in 0..N - 1, u # t PROVE InMemory(u)' \/ (status'[u] = "UNOPEN" /\ u <= N - 2)
    BY <1>9
  <2>1. InMemory(u) \/ (status[u] = "UNOPEN" /\ u <= N - 2)
    BY <1>0 DEF Untouched
  <2> QED
    BY <1>3, <1>8, <1>i, <2>1 DEF InMemory
<1>14. \A u \in 0..m - 1 : u \in 0..N - 1 /\ Ready(u)'
  <2> SUFFICES ASSUME NEW u \in 0..t - 1 PROVE u \in 0..N - 1 /\ Ready(u)'
    <3>1. \A u \in 0..m - 1 : u \in 0..t - 1 \/ u = t
      BY <1>1, <1>q
    <3> QED
      BY <1>1, <1>11, <3>1
  <2>1. u \in 0..N - 1 /\ Ready(u) /\ u # t
    BY <1>0, <1>1 DEF Untouched
  <2> QED
    BY <1>3, <1>8, <1>i, <2>1 DEF Ready, InMemory, From
<1>15. \A u \in Ids : u >= m => seen'[u] = NULL
  <2> SUFFICES ASSUME NEW u \in Ids, u >= m PROVE seen'[u] = NULL
    OBVIOUS
  <2>1. u \in Int /\ u # t /\ u >= t
    BY <1>1, <1>q DEF Ids
  <2> QED
    BY <1>0, <1>8, <2>1 DEF Untouched
<1>16. ids' = [i \in 1..N |-> i - 1] /\ current_id' = N
  BY <1>0, <1>3 DEF Untouched
<1>17. Untouched(m)'
  BY <1>12, <1>13, <1>14, <1>15, <1>16 DEF Untouched, Ids
<1>18. Going' /\ Unread'
  <2>1. \A u \in Ids : u > end => seen'[u] = NULL
    <3> SUFFICES ASSUME NEW u \in Ids, u > end PROVE seen'[u] = NULL
      OBVIOUS
    <3>1. u # t
      BY <1>0, <1>1 DEF Ids
    <3> QED
      BY <1>0, <1>8, <3>1 DEF Going
  <2> QED
    BY <1>0, <1>3, <2>1 DEF Going, Unread, Ids
<1>19. CASE t = end
  <2>1. pc' = "create" /\ end' = end /\ m = end' + 1
    BY <1>3, <1>19, <1>q
  <2>2. Untouched(end + 1)'
    BY <1>17, <2>1 DEF Untouched
  <2> QED
    BY <1>18, <2>1, <2>2 DEF CInv
<1>20. CASE t # end
  <2>1. pc' = "sort" /\ at' = m /\ m \in 0..end' /\ end' = end
    BY <1>0, <1>1, <1>3, <1>20, <1>q
  <2>2. Untouched(at)'
    BY <1>17, <2>1 DEF Untouched
  <2> QED
    BY <1>18, <2>1, <2>2 DEF CInv
<1> QED
  BY <1>19, <1>20

-----------------------------------------------------------------------------
\* The list of the tables 0..n-1, and one more.
LEMMA ListIs ==
  ASSUME NEW n \in Nat, NEW s, s = [i \in 1..n |-> i - 1]
  PROVE  /\ s \in Seq(Int) /\ Len(s) = n
         /\ Append(s, n) = [i \in 1..n + 1 |-> i - 1]
         /\ n > 0 => Last(s) = n - 1
<1>1. s \in [1..n -> Int]
  OBVIOUS
<1>2. s \in Seq(Int) /\ Len(s) = n
  BY <1>1, FunctionIsSeq
<1>3. /\ Append(s, n) \in Seq(Int) /\ Len(Append(s, n)) = n + 1
      /\ \A i \in 1..n : Append(s, n)[i] = s[i]
      /\ Append(s, n)[n + 1] = n
  BY <1>2, AppendProperties
<1> DEFINE q == [i \in 1..n + 1 |-> i - 1]
           r == Append(s, n)
<1>4. q \in [1..n + 1 -> Int]
  OBVIOUS
<1>5. q \in Seq(Int) /\ Len(q) = n + 1
  BY <1>4, FunctionIsSeq
<1>6. /\ \A i \in 1..n + 1 : q[i] = i - 1
      /\ \A i \in 1..n : s[i] = i - 1
      /\ (n + 1) - 1 = n
  OBVIOUS
<1>7. n > 0 => Last(s) = n - 1
  BY <1>2, <1>6 DEF Last
<1>8. r \in Seq(Int) /\ Len(r) = n + 1 /\ r[n + 1] = n /\ \A i \in 1..n : r[i] = s[i]
  BY <1>3
<1> HIDE DEF q, r
<1>9. \A i \in 1..n + 1 : r[i] = q[i]
  <2> SUFFICES ASSUME NEW i \in 1..n + 1 PROVE r[i] = q[i]
    OBVIOUS
  <2>1. i \in 1..n \/ i = n + 1
    OBVIOUS
  <2>2. i \in 1..n => r[i] = q[i]
    BY <1>6, <1>8
  <2>3. i = n + 1 => r[i] = n /\ q[i] = i - 1 /\ i - 1 = n
    BY <1>6, <1>8
  <2> QED
    BY <2>1, <2>2, <2>3
<1>10. r = q
  BY <1>5, <1>8, <1>9, SeqEqual
<1> QED
  BY <1>2, <1>7, <1>10 DEF q, r

\* What the invariant says before the first new table.
LEMMA CreatePhase ==
  ASSUME CInv, pc = "create", begin = 0
  PROVE  Shape /\ Untouched(end + 1) /\ Going /\ Unread
BY DEF CInv

\* An empty new table adds nothing to what was merged.
LEMMA NothingMerged ==
  ASSUME current_id' = N + 1, disk'[N].items = <<>>
  PROVE  Merged' = <<>>
<1>1. N \in Nat
  BY SizesAssumption
<1> DEFINE s == [i \in 1..0 |-> <<>>]
           t == [i \in 1..0 + 1 |-> <<>>]
           u == [i \in 1..current_id' - N |-> disk'[N + i - 1].items]
<1>2. s \in [1..0 -> Seq(Items)] /\ t \in [1..0 + 1 -> Seq(Items)]
  <2>1. <<>> \in Seq(Items)
    BY EmptySeq
  <2> QED
    BY <2>1
<1>3. u = t
  <2>1. 1..current_id' - N = 1..0 + 1
    BY <1>1
  <2>2. \A i \in 1..0 + 1 : N + i - 1 = N
    BY <1>1
  <2> QED
    BY <2>1, <2>2
<1>4. t[0 + 1] = <<>>
  OBVIOUS
<1> HIDE DEF s, t, u
<1>5. FlattenSeq(t) = FlattenSeq(s) \o t[0 + 1]
  <2>1. \A i \in 1..0 : s[i] = t[i]
    OBVIOUS
  <2> QED
    BY <1>2, <2>1, FlatMore
<1>6. FlattenSeq(s) = <<>>
  BY <1>2, FlatNone
<1>7. <<>> \o <<>> = <<>>
  BY EmptySeq, ConcatEmptySeq
<1>8. FlattenSeq(u) = <<>>
  BY <1>3, <1>4, <1>5, <1>6, <1>7, Zenon
<1> QED
  BY <1>8 DEF Merged, u

\* The first new table: nothing has been put.
LEMMA CreateKeeps ==
  ASSUME CInv, Shape', Create
  PROVE  CInv'
<1> SUFFICES ASSUME begin = 0 PROVE CInv'
  BY DEF CInv, Create, createsst
<1>0. Shape /\ Untouched(end + 1) /\ Going /\ Unread
  BY CreatePhase DEF Create
<1>1. N \in Nat /\ end \in 1..N - 1 /\ MaxNew \in Nat /\ MAX \in Nat \ {0}
  BY <1>0, SizesAssumption DEF Going
<1>2. current_id = N /\ ids = [i \in 1..N |-> i - 1]
  BY <1>0 DEF Untouched
<1>3. /\ N \in Ids /\ ids' = Append(ids, N) /\ current_id' = N + 1
      /\ buckets' = [buckets EXCEPT ![N] = [b \in 1..NBuckets |-> <<>>]]
      /\ status' = [status EXCEPT ![N] = "COMPACT"]
      /\ disk' = [disk EXCEPT ![N] = NewFile] /\ pc' = "merge"
      /\ UNCHANGED <<head, datas, point, begin, end, at, held, seen>>
  BY <1>2 DEF Create, createsst
<1>4. disk'[N] = NewFile /\ status'[N] = "COMPACT"
  BY <1>0, <1>3 DEF Shape
<1>5. \A u \in Ids : u # N => disk'[u] = disk[u] /\ status'[u] = status[u] /\ buckets'[u] = buckets[u]
  BY <1>0, <1>3 DEF Shape
<1>6. Going'
  BY <1>0, <1>3 DEF Going, Ids
<1>7. NewFile \in File /\ NewFile.items = <<>> /\ Len(NewFile.items) = 0
  <2>1. <<>> \in Seq(Items) /\ Len(<<>>) = 0
    BY EmptySeq
  <2>2. NewFile.items = <<>> /\ NewFile = [key_num |-> 0, items |-> <<>>]
    BY DEF NewFile
  <2>3. NewFile \in File
    BY <2>1, <2>2 DEF File
  <2> QED
    BY <2>1, <2>2, <2>3, Zenon
<1>8. Outputs'
  <2>1. \A u \in N..current_id' - 1 : u = N
    BY <1>1, <1>3
  <2>2. Len(NewFile.items) <= MAX
    BY <1>1, <1>7
  <2>3. N + 1 \in Nat /\ N < N + 1 /\ N + 1 <= N + MaxNew
    BY <1>1, <1>3 DEF Ids
  <2> QED
    BY <1>3, <1>4, <1>7, <2>1, <2>2, <2>3 DEF Outputs
<1>9. ids' = [i \in 1..current_id' |-> i - 1]
  BY <1>1, <1>2, <1>3, ListIs
<1>10. \A t \in 0..end : t \in 0..(end + 1) - 1 /\ t \in 0..N - 1 /\ t # N /\ t \in Ids
  BY <1>1 DEF Ids
<1>11. \A t \in 0..end : Ready(t) /\ Ready(t)'
  <2> SUFFICES ASSUME NEW t \in 0..end PROVE Ready(t) /\ Ready(t)'
    OBVIOUS
  <2>1. Ready(t)
    BY <1>0, <1>10 DEF Untouched
  <2> QED
    BY <1>3, <1>5, <1>10, <2>1 DEF Ready, InMemory, From
<1>12. \A t \in 0..N - 2 : OnDisk(t)'
  <2> SUFFICES ASSUME NEW t \in 0..N - 2 PROVE OnDisk(t)'
    OBVIOUS
  <2>1. OnDisk(t) /\ t # N /\ t \in Ids
    BY <1>0, <1>1 DEF Untouched, Ids
  <2> QED
    BY <1>3, <1>5, <2>1 DEF OnDisk
<1>13. /\ point' = [i \in 1..end' + 1 |-> 0] /\ end' = end /\ point' \in [1..end' + 1 -> Nat]
       /\ \A t \in 0..end : t + 1 \in 1..end' + 1 /\ point'[t + 1] = 0
  BY <1>0, <1>1, <1>3 DEF Unread
<1>14. \A t \in 0..end : point'[t + 1] <= Len(datas'[t])
  <2> SUFFICES ASSUME NEW t \in 0..end PROVE point'[t + 1] <= Len(datas'[t])
    OBVIOUS
  <2>1. datas'[t] \in Seq(Items \cup {NULL})
    BY <1>11 DEF Ready, Array
  <2>2. Len(datas'[t]) \in Nat
    BY <2>1, LenProperties
  <2> QED
    BY <1>13, <2>2
<1>15. \A u \in N..current_id' - 1 : u = N /\ status'[u] \in {"COMPACT", "COMPACTED"}
  BY <1>1, <1>3, <1>4
<1>16. \A u \in N..current_id' - 2 : disk'[u].key_num = Len(disk'[u].items)
  BY <1>1, <1>3
<1>17. \A t \in 0..end : \A x \in ToSet(seen'[t]) : \E i \in Ahead(t)' : datas'[t][i] = x
  <2> SUFFICES ASSUME NEW t \in 0..end, NEW x \in ToSet(seen'[t])
               PROVE  \E i \in Ahead(t)' : datas'[t][i] = x
    OBVIOUS
  <2>1. Array(datas'[t], seen'[t])
    BY <1>11 DEF Ready
  <2>2. PICK i \in 1..Len(seen'[t]) : datas'[t][i] = x
    BY <2>1 DEF Array
  <2>3. i > point'[t + 1]
    BY <1>13, <2>2
  <2> QED
    BY <2>2, <2>3 DEF Ahead
<1>18. Kept'
  BY <1>13, <1>17 DEF Kept
<1>19. TopKept'
  BY <1>13, <1>17 DEF TopKept
<1>20. InOrder'
  <2>1. disk'[N].items = <<>>
    BY <1>4, <1>7
  <2>2. Merged' = <<>>
    BY <1>3, <2>1, NothingMerged
  <2>3. Rising(<<>>)
    <3>1. Len(<<>>) = 0
      BY EmptySeq
    <3>2. \A i \in 1..Len(<<>>) - 1 : FALSE
      BY <3>1
    <3> QED
      BY <3>2 DEF Rising
  <2> QED
    BY <2>2, <2>3 DEF InOrder
<1>21. Merging'
  BY <1>6, <1>8, <1>9, <1>11, <1>12, <1>13, <1>14, <1>15, <1>16, <1>18, <1>19, <1>20 DEF Merging
<1> QED
  BY <1>3, <1>21 DEF CInv

-----------------------------------------------------------------------------
(* The merge. *)

\* What the invariant says while tables are merged.
LEMMA MergePhase ==
  ASSUME CInv, pc = "merge", begin = 0
  PROVE  Shape /\ Merging
BY DEF CInv

\* h holds the first item of each table that was not taken yet.
HeadsOf(h) ==
  \A i \in 0..end :
    /\ h[i] \in Items \cup {NULL}
    /\ h[i] = NULL => Ahead(i) = {}
    /\ h[i] # NULL =>
         /\ point[i + 1] + 1 \in Ahead(i) /\ h[i] = datas[i][point[i + 1] + 1]
         /\ h[i] \in ToSet(seen[i]) /\ point[i + 1] < Len(datas[i])

\* A table that is merged: its array, and how far it was taken.
LEMMA ReadyFacts ==
  ASSUME Shape, Merging, begin = 0, NEW i \in 0..end
  PROVE  /\ Array(datas[i], seen[i]) /\ Len(datas[i]) \in Nat /\ Len(seen[i]) \in Nat
         /\ Len(seen[i]) <= Len(datas[i])
         /\ seen[i] \in Seq(Items) /\ seen[i] # NULL /\ ToSet(seen[i]) \subseteq Items
         /\ KeyNum(i) = Len(datas[i]) /\ Sst(i) = i
         /\ point[i + 1] \in Nat /\ point[i + 1] <= Len(datas[i])
<1>1. N \in Nat /\ end \in 1..N - 1 /\ i \in 0..N - 1
  BY SizesAssumption DEF Merging, Going
<1>2. Ready(i)
  BY DEF Merging
<1>3. Array(datas[i], seen[i]) /\ InMemory(i) /\ Len(datas[i]) = Len(FlattenSeq(buckets[i]))
  BY <1>2 DEF Ready
<1>4. /\ datas[i] \in Seq(Items \cup {NULL}) /\ seen[i] \in Seq(Items) /\ Len(seen[i]) <= Len(datas[i])
  BY <1>3 DEF Array
<1>5. Len(datas[i]) \in Nat /\ Len(seen[i]) \in Nat
  BY <1>4, LenProperties
<1>6. seen[i] # NULL /\ ToSet(seen[i]) \subseteq Items
  BY <1>4, NotNull, ToSetIs
<1>7. status[i] \in {"READ", "WRITE"}
  BY <1>3 DEF InMemory
<1>8. KeyNum(i) = Len(datas[i])
  BY <1>3, <1>7 DEF KeyNum
<1>9. Sst(i) = i
  <2>1. current_id \in Nat /\ N < current_id /\ ids = [k \in 1..current_id |-> k - 1]
    BY DEF Merging, Outputs
  <2>2. i + 1 \in 1..current_id /\ (i + 1) - 1 = i
    BY <1>1, <2>1
  <2>3. ids[i + 1] = (i + 1) - 1
    BY <2>1, <2>2
  <2> QED
    BY <2>2, <2>3, Zenon DEF Sst
<1>10. point[i + 1] \in Nat /\ point[i + 1] <= Len(datas[i])
  <2>1. point \in [1..end + 1 -> Nat] /\ \A t \in 0..end : point[t + 1] <= Len(datas[t])
    BY DEF Merging
  <2>2. i + 1 \in 1..end + 1
    BY <1>1
  <2> QED
    BY <2>1, <2>2
<1> QED
  BY <1>3, <1>4, <1>5, <1>6, <1>8, <1>9, <1>10

\* sst_compactgetindex gives the first item that was not taken.
LEMMA HeadIs ==
  ASSUME Shape, Merging, begin = 0, NEW i \in 0..end
  PROVE  /\ Data(i) \in Items \cup {NULL}
         /\ Data(i) = NULL => Ahead(i) = {}
         /\ Data(i) # NULL =>
              /\ point[i + 1] + 1 \in Ahead(i) /\ Data(i) = datas[i][point[i + 1] + 1]
              /\ Data(i) \in ToSet(seen[i]) /\ point[i + 1] < Len(datas[i])
<1> DEFINE a == datas[i]
           s == seen[i]
           q == point[i + 1]
<1>1. /\ Array(a, s) /\ Len(a) \in Nat /\ Len(s) \in Nat /\ Len(s) <= Len(a)
      /\ ToSet(s) \subseteq Items /\ q \in Nat /\ q <= Len(a)
  BY ReadyFacts
<1>2. Data(i) = IF q < Len(a) THEN a[q + 1] ELSE NULL
  BY ReadyFacts, Zenon DEF Data
<1>3. Ahead(i) = {x \in 1..Len(s) : x > q}
  BY DEF Ahead
<1> HIDE DEF a, s, q
<1>4. /\ \A x \in 1..Len(a) : a[x] = NULL <=> x > Len(s)
      /\ \A x \in 1..Len(s) : a[x] \in ToSet(s)
  BY <1>1 DEF Array
<1>5. CASE q < Len(s)
  <2>1. q + 1 \in 1..Len(s) /\ q + 1 \in 1..Len(a) /\ ~(q + 1 > Len(s)) /\ q + 1 > q /\ q < Len(a)
    BY <1>1, <1>5
  <2>2. a[q + 1] # NULL /\ a[q + 1] \in ToSet(s) /\ q + 1 \in Ahead(i)
    BY <1>3, <1>4, <2>1
  <2>3. Data(i) = a[q + 1]
    BY <1>2, <2>1
  <2> QED
    BY <1>1, <2>1, <2>2, <2>3 DEF a, s, q
<1>6. CASE ~(q < Len(s))
  <2>1. Ahead(i) = {}
    BY <1>1, <1>3, <1>6
  <2>2. Data(i) = NULL
    <3>1. q < Len(a) => q + 1 \in 1..Len(a) /\ q + 1 > Len(s)
      BY <1>1, <1>6
    <3> QED
      BY <1>2, <1>4, <3>1
  <2> QED
    BY <2>1, <2>2
<1> QED
  BY <1>5, <1>6

\* findsmallest chooses among these.
LEMMA HeadsAre ==
  ASSUME Shape, Merging, begin = 0
  PROVE  \E h \in [0..end -> Items \cup {NULL}] :
           HeadsOf(h) /\ Found(h, end + 1, point, findsmallest)
<1> DEFINE h == [i \in 0..end |-> Data(i)]
<1>1. end \in 1..N - 1 /\ N \in Nat /\ point \in [1..end + 1 -> Nat]
  BY SizesAssumption DEF Merging, Going
<1>2. Num = end + 1 /\ Num \in Nat /\ 0..Num - 1 = 0..end
  BY <1>1 DEF Num
<1>3. h \in [0..end -> Items \cup {NULL}] /\ \A i \in 0..end : h[i] = Data(i)
  <2>1. \A i \in 0..end : Data(i) \in Items \cup {NULL}
    BY HeadIs
  <2> QED
    BY <2>1
<1> HIDE DEF h
<1>4. HeadsOf(h)
  BY <1>3, HeadIs DEF HeadsOf
<1>5. Found(h, Num, point, findsmallest)
  <2>1. Num \in Nat /\ point \in [1..Num -> Nat] /\ h \in [0..Num - 1 -> Items \cup {NULL}]
        /\ \A i \in 0..Num - 1 : h[i] = Data(i)
    BY <1>1, <1>2, <1>3
  <2> QED
    BY <2>1, SmallestIs
<1> QED
  BY <1>2, <1>3, <1>4, <1>5

\* The same with the tables counted to e: the table the item is taken from,
\* and which tables move on.
Winner(h, e, p, r) ==
  \E w \in 0..e : h[w] = r.min /\ r.point[w + 1] = p[w + 1] + 1
     /\ \A i \in 0..e : i # w /\ r.point[i + 1] # p[i + 1] => \E j \in 0..e : Beats(h, j, i)

\* What findsmallest does to the points: see Found.
Movement(h, e, p, r) ==
  \A i \in 0..e :
    /\ r.point[i + 1] \in {p[i + 1], p[i + 1] + 1}
    /\ h[i] # NULL => Comparator(r.min, h[i]) # 1
    /\ h[i] # NULL /\ r.point[i + 1] = p[i + 1] => Comparator(r.min, h[i]) = -1
    /\ r.point[i + 1] # p[i + 1] =>
         /\ h[i] # NULL
         /\ \/ h[i].key = r.min.key
            \/ \E j \in 0..e : h[j] # NULL /\ r.point[j + 1] = p[j + 1] /\ h[j].key = h[i].key

\* Found, for the tables from 0 to e.
LEMMA FoundFacts ==
  ASSUME NEW e \in Nat, NEW h, NEW p, NEW r, Found(h, e + 1, p, r), r.min # NULL
  PROVE  /\ r.min \in Items /\ r.point \in [1..e + 1 -> Nat]
         /\ Winner(h, e, p, r) /\ Movement(h, e, p, r)
<1>1. (e + 1) - 1 = e
  OBVIOUS
<1>2. 0..(e + 1) - 1 = 0..e
  BY <1>1
<1>3. r.min \in Items /\ r.point \in [1..e + 1 -> Nat]
  BY DEF Found
<1>4. Winner(h, e, p, r)
  BY <1>2, Zenon DEF Found, Winner
<1>5. Movement(h, e, p, r)
  BY <1>2, Zenon DEF Found, Movement
<1> QED
  BY <1>3, <1>4, <1>5

-----------------------------------------------------------------------------
(* A round puts the smallest item behind what was merged. *)

\* The items of the first n new tables.
MergedOf(d, n) == [i \in 1..n |-> d[N + i - 1].items]

\* They are sequences of items.
LEMMA OutputsFlat ==
  ASSUME NEW n \in Nat, NEW d, \A u \in N..N + n - 1 : d[u].items \in Seq(Items)
  PROVE  MergedOf(d, n) \in [1..n -> Seq(Items)] /\ \A i \in 1..n : MergedOf(d, n)[i] = d[N + i - 1].items
<1>1. N \in Nat
  BY SizesAssumption
<1>2. \A i \in 1..n : N + i - 1 \in N..N + n - 1
  BY <1>1
<1> QED
  BY <1>2 DEF MergedOf

\* The items put are those of the new tables.
LEMMA MergedIs ==
  ASSUME Outputs
  PROVE  /\ Merged \in Seq(Items)
         /\ ToSet(Merged) = UNION {ToSet(disk[u].items) : u \in N..current_id - 1}
<1> DEFINE n == current_id - N
<1>1. N \in Nat /\ n \in Nat /\ \A i \in 1..n : N + i - 1 \in N..current_id - 1
  BY SizesAssumption DEF Outputs
<1>2. \A u \in N..current_id - 1 : disk[u].items \in Seq(Items)
  BY DEF Outputs, File
<1>3. current_id - 1 = N + n - 1
  BY SizesAssumption DEF Outputs
<1>4. MergedOf(disk, n) \in [1..n -> Seq(Items)] /\ \A i \in 1..n : MergedOf(disk, n)[i] = disk[N + i - 1].items
  BY <1>1, <1>2, <1>3, OutputsFlat
<1>5. Merged = FlattenSeq(MergedOf(disk, n))
  BY DEF Merged, MergedOf
<1>6. \A u \in N..current_id - 1 : u - N + 1 \in 1..n /\ N + (u - N + 1) - 1 = u
  BY <1>1 DEF Outputs
<1> HIDE DEF n
<1>7. Merged \in Seq(Items)
  BY <1>1, <1>4, <1>5, FlatSeq
<1>8. ToSet(Merged) = UNION {ToSet(MergedOf(disk, n)[i]) : i \in 1..n}
  <2> DEFINE s == MergedOf(disk, n)
  <2>1. s \in [1..n -> Seq(Items)] /\ Merged = FlattenSeq(s) /\ n \in Nat
    BY <1>1, <1>4, <1>5
  <2> HIDE DEF s
  <2>2. ToSet(FlattenSeq(s)) = UNION {ToSet(s[i]) : i \in 1..n}
    BY <2>1, FlatItems
  <2>3. ToSet(Merged) = UNION {ToSet(s[i]) : i \in 1..n}
    BY <2>1, <2>2
  <2> QED
    BY <2>3 DEF s
<1>9. UNION {ToSet(MergedOf(disk, n)[i]) : i \in 1..n} = UNION {ToSet(disk[u].items) : u \in N..current_id - 1}
  <2>1. ASSUME NEW i \in 1..n PROVE \E u \in N..current_id - 1 : MergedOf(disk, n)[i] = disk[u].items
    BY <1>1, <1>4
  <2>2. ASSUME NEW u \in N..current_id - 1 PROVE \E i \in 1..n : MergedOf(disk, n)[i] = disk[u].items
    BY <1>4, <1>6
  <2> QED
    BY <2>1, <2>2
<1> QED
  BY <1>7, <1>8, <1>9

\* Writing the head makes the number in it that of the items.
LEMMA FlushedIs ==
  ASSUME NEW file \in File
  PROVE  /\ Flushed(file) \in File /\ Flushed(file).items = file.items
         /\ Flushed(file).key_num = Len(Flushed(file).items)
<1>1. file.items \in Seq(Items) /\ file \in [key_num : Nat, items : Seq(Items)]
  BY DEF File
<1>2. Len(file.items) \in Nat
  BY <1>1, LenProperties
<1> DEFINE l == Len(file.items)
<1>3. Flushed(file) = [file EXCEPT !.key_num = l]
  BY DEF Flushed
<1> HIDE DEF l
<1>4. Flushed(file).items = file.items /\ Flushed(file).key_num = l /\ Flushed(file) \in File
  BY <1>1, <1>2, <1>3 DEF File, l
<1> QED
  BY <1>4 DEF l

\* The table that is written to is the last one.
LEMMA MergeOutput ==
  ASSUME Shape, Merging, begin = 0
  PROVE  /\ Output = current_id - 1 /\ Output \in N..current_id - 1 /\ Output \in Ids
         /\ disk[Output] \in File /\ KeyNum(Output) = Len(disk[Output].items)
         /\ Len(disk[Output].items) \in Nat
<1>1. N \in Nat /\ MaxNew \in Nat /\ current_id \in Nat /\ N < current_id /\ current_id <= N + MaxNew
      /\ ids = [i \in 1..current_id |-> i - 1]
  BY SizesAssumption DEF Merging, Outputs
<1>2. Output = current_id - 1
  BY <1>1, ListIs DEF Output
<1>3. Output \in N..current_id - 1 /\ Output \in Ids
  BY <1>1, <1>2 DEF Ids
<1>4. disk[Output] \in File /\ status[Output] \in {"COMPACT", "COMPACTED"}
  BY <1>3 DEF Merging, Outputs
<1>5. KeyNum(Output) = Len(disk[Output].items)
  BY <1>4 DEF KeyNum
<1>6. disk[Output].items \in Seq(Items)
  BY <1>4 DEF File
<1> QED
  BY <1>2, <1>3, <1>4, <1>5, <1>6, LenProperties

\* What a round of the merge does to the files and the list, for the item x.
Added(x) ==
  /\ current_id' \in {current_id, current_id + 1}
  /\ Outputs' /\ Merged' = Append(Merged, x)
  /\ ids' = [i \in 1..current_id' |-> i - 1]
  /\ \A u \in N..current_id' - 1 : status'[u] \in {"COMPACT", "COMPACTED"}
  /\ \A u \in N..current_id' - 2 : disk'[u].key_num = Len(disk'[u].items)
  /\ \A u \in 0..N - 1 : disk'[u] = disk[u] /\ status'[u] = status[u] /\ buckets'[u] = buckets[u]

\* An item appended to a file.
LEMMA PutInto ==
  ASSUME NEW file \in File, NEW x \in Items
  PROVE  LET g == [file EXCEPT !.items = Append(@, x)]
         IN g \in File /\ g.items = Append(file.items, x) /\ Len(g.items) = Len(file.items) + 1
<1>1. file.items \in Seq(Items) /\ file \in [key_num : Nat, items : Seq(Items)]
  BY DEF File
<1> DEFINE q == Append(file.items, x)
           g == [file EXCEPT !.items = Append(@, x)]
<1>2. q \in Seq(Items) /\ Len(q) = Len(file.items) + 1
  BY <1>1, AppendProperties
<1>3. g = [file EXCEPT !.items = q]
  OBVIOUS
<1> HIDE DEF q, g
<1>4. g \in File /\ g.items = q
  BY <1>1, <1>2, <1>3 DEF File
<1> QED
  BY <1>2, <1>4 DEF q, g

\* Two assignments to different places.
LEMMA TwoPlaces ==
  ASSUME NEW D, NEW f, DOMAIN f = D, NEW o \in D, NEW c \in D, o # c, NEW a, NEW b, NEW g,
         g = [f EXCEPT ![o] = a, ![c] = b]
  PROVE  g[o] = a /\ g[c] = b /\ \A u \in D : u # o /\ u # c => g[u] = f[u]
<1>1. PICK e : e = [f EXCEPT ![o] = a]
  OBVIOUS
<1>2. DOMAIN e = D /\ e[o] = a /\ \A u \in D : u # o => e[u] = f[u]
  BY <1>1
<1>3. g = [e EXCEPT ![c] = b]
  BY <1>1, Zenon
<1>4. g[c] = b /\ \A u \in D : u # c => g[u] = e[u]
  BY <1>2, <1>3
<1> QED
  BY <1>2, <1>4

\* The places of the new tables.
LEMMA Places ==
  ASSUME NEW c \in Nat, NEW m \in Nat, m < c
  PROVE  /\ c - m \in Nat /\ m + (c - m) - 1 = c - 1 /\ m + ((c - m) + 1) - 1 = c
         /\ (c - m) + 1 \in Nat /\ (c + 1) - m = (c - m) + 1
         /\ (c - m) + 1 \in 1..(c - m) + 1
         /\ \A i \in 1..c - m : i \in 1..(c - m) + 1 /\ m + i - 1 \in m..c - 1 /\ m + i - 1 # c
OBVIOUS

\* Places in the list of tables.
LEMMA PlacesIn ==
  ASSUME NEW c \in Nat, NEW m \in Nat, NEW x \in Nat, m < c, c <= m + x
  PROVE  /\ \A u \in m..c - 1 : u \in 0..m + x - 1
         /\ \A u \in 0..m - 1 : u \in 0..m + x - 1 /\ u # c - 1 /\ u # c
         /\ \A i \in 1..(c - m) - 1 : i \in 1..c - m /\ m + i - 1 # c - 1 /\ m + i - 1 \in 0..m + x - 1
OBVIOUS

\* A round that puts its item into the last table, ...
LEMMA AddedToLast ==
  ASSUME Shape, Merging, NEW x \in Items, NEW o, o = current_id - 1, o \in Ids,
         disk[o] \in File, Len(disk[o].items) \in Nat, MAX > Len(disk[o].items),
         disk' = [disk EXCEPT ![o].items = Append(@, x)],
         UNCHANGED <<ids, current_id, status, buckets>>
  PROVE  Added(x)
<1>1. N \in Nat /\ MAX \in Nat /\ current_id \in Nat /\ N < current_id /\ current_id <= N + MaxNew
      /\ o \in N..current_id - 1
  BY SizesAssumption DEF Merging, Outputs
<1>2. disk'[o] = [disk[o] EXCEPT !.items = Append(@, x)]
  BY DEF Shape
<1>3. \A u \in Ids : u # o => disk'[u] = disk[u]
  BY DEF Shape
<1>i. /\ \A u \in N..current_id - 1 : u \in Ids
      /\ \A u \in 0..N - 1 : u \in Ids /\ u # o
  <2>1. MaxNew \in Nat
    BY SizesAssumption
  <2> QED
    BY <1>1, <2>1, PlacesIn DEF Ids
<1>4. disk'[o] \in File /\ disk'[o].items = Append(disk[o].items, x) /\ Len(disk'[o].items) = Len(disk[o].items) + 1
  BY <1>2, PutInto, Zenon
<1>5. Len(disk'[o].items) <= MAX
  BY <1>1, <1>4
<1>6. \A u \in N..current_id - 1 : disk[u] \in File /\ Len(disk[u].items) <= MAX
  BY DEF Merging, Outputs
<1>7. Outputs'
  BY <1>1, <1>3, <1>4, <1>5, <1>6, <1>i DEF Outputs
<1>8. Merged' = Append(Merged, x)
  <2> DEFINE n == current_id - N
             s == MergedOf(disk, n)
             t == MergedOf(disk', n)
  <2>1. n \in Nat /\ n > 0 /\ N + n - 1 = o
    BY <1>1
  <2>2. \A u \in N..N + n - 1 : disk[u].items \in Seq(Items) /\ disk'[u].items \in Seq(Items)
    BY <1>1, <1>3, <1>4, <1>6, <1>i DEF File
  <2>3. /\ s \in [1..n -> Seq(Items)] /\ \A i \in 1..n : s[i] = disk[N + i - 1].items
        /\ t \in [1..n -> Seq(Items)] /\ \A i \in 1..n : t[i] = disk'[N + i - 1].items
    BY <2>1, <2>2, OutputsFlat
  <2>4. \A i \in 1..n - 1 : i \in 1..n /\ N + i - 1 # o /\ N + i - 1 \in Ids
    BY <1>1, SizesAssumption, PlacesIn DEF Ids
  <2>5. n \in 1..n
    BY <2>1
  <2>6. Merged = FlattenSeq(s) /\ Merged' = FlattenSeq(t)
    BY DEF Merged, MergedOf
  <2> HIDE DEF n, s, t
  <2>7. \A i \in 1..n - 1 : s[i] = t[i]
    BY <1>3, <2>3, <2>4
  <2>8. t[n] = Append(s[n], x)
    <3>1. t[n] = disk'[o].items /\ s[n] = disk[o].items
      BY <2>1, <2>3, <2>5
    <3> QED
      BY <1>4, <3>1, Zenon
  <2> QED
    BY <2>1, <2>3, <2>6, <2>7, <2>8, FlatLonger
<1>9. \A u \in N..current_id' - 1 : status'[u] \in {"COMPACT", "COMPACTED"}
  BY DEF Merging
<1>10. \A u \in N..current_id' - 2 : disk'[u].key_num = Len(disk'[u].items)
  <2> SUFFICES ASSUME NEW u \in N..current_id - 2 PROVE disk'[u].key_num = Len(disk'[u].items)
    OBVIOUS
  <2>1. u # o /\ u \in Ids
    BY <1>1, <1>i
  <2> QED
    BY <1>3, <2>1 DEF Merging
<1>12. ids' = [i \in 1..current_id' |-> i - 1]
  BY DEF Merging
<1> QED
  BY <1>3, <1>7, <1>8, <1>9, <1>10, <1>12, <1>i DEF Added

\* ... and one that flushes a full table and puts it into the next.
LEMMA AddedToNext ==
  ASSUME Shape, Merging, NEW x \in Items, NEW o, o = current_id - 1, o \in Ids, disk[o] \in File,
         NEW c, c = current_id, c \in Ids,
         ids' = Append(ids, c), current_id' = c + 1,
         buckets' = [buckets EXCEPT ![c] = [b \in 1..NBuckets |-> <<>>]],
         status' = [status EXCEPT ![o] = "COMPACTED", ![c] = "COMPACT"],
         disk' = [disk EXCEPT ![o] = Flushed(@), ![c] = [NewFile EXCEPT !.items = <<x>>]]
  PROVE  Added(x)
<1>1. N \in Nat /\ MAX \in Nat \ {0} /\ c \in Nat /\ N < c /\ c <= N + MaxNew
      /\ o \in N..c - 1 /\ o # c /\ MaxNew \in Nat
  BY SizesAssumption DEF Merging, Outputs
<1>2. c + 1 <= N + MaxNew
  BY <1>1 DEF Ids
<1> DEFINE g == [NewFile EXCEPT !.items = <<x>>]
<1>3. g \in File /\ g.items = <<x>> /\ Len(g.items) = 1
  <2>1. <<x>> \in Seq(Items) /\ Len(<<x>>) = 1
    OBVIOUS
  <2>2. NewFile = [key_num |-> 0, items |-> <<>>]
    BY DEF NewFile
  <2>3. g = [key_num |-> 0, items |-> <<x>>]
    BY <2>2
  <2> HIDE DEF g
  <2>4. g.items = <<x>>
    BY <2>3
  <2>5. g \in File
    BY <2>1, <2>3 DEF File
  <2> QED
    BY <2>1, <2>4, <2>5, Zenon
<1> HIDE DEF g
<1>4. disk'[c] = g /\ disk'[o] = Flushed(disk[o]) /\ \A u \in Ids : u # o /\ u # c => disk'[u] = disk[u]
  <2>1. disk' = [disk EXCEPT ![o] = Flushed(disk[o]), ![c] = g]
    BY DEF g
  <2>2. DOMAIN disk = Ids /\ o \in Ids /\ c \in Ids /\ o # c
    BY <1>1 DEF Shape
  <2> QED
    BY <2>1, <2>2, TwoPlaces
<1>5. status'[c] = "COMPACT" /\ status'[o] = "COMPACTED" /\ \A u \in Ids : u # o /\ u # c => status'[u] = status[u]
  <2>1. DOMAIN status = Ids /\ o \in Ids /\ c \in Ids /\ o # c
    BY <1>1 DEF Shape
  <2> QED
    BY <2>1, TwoPlaces
<1>i. /\ \A u \in N..c : u \in Ids
      /\ \A u \in 0..N - 1 : u \in Ids /\ u # o /\ u # c
  <2>1. \A u \in 0..N - 1 : u \in Int /\ u < N /\ u <= N + MaxNew - 1
    BY <1>1
  <2>2. c <= N + MaxNew - 1
    BY <1>1 DEF Ids
  <2> QED
    BY <1>1, <2>1, <2>2 DEF Ids
<1>6. disk'[o] \in File /\ disk'[o].items = disk[o].items /\ disk'[o].key_num = Len(disk'[o].items)
  BY <1>4, FlushedIs
<1>7. \A u \in N..c - 1 : disk[u] \in File /\ Len(disk[u].items) <= MAX
  BY DEF Merging, Outputs
<1>8. \A u \in N..c : u = c \/ u \in N..c - 1
  BY <1>1
<1>9. \A u \in N..c : disk'[u] \in File /\ Len(disk'[u].items) <= MAX
  <2>1. 1 <= MAX
    BY <1>1
  <2>2. disk'[c] \in File /\ Len(disk'[c].items) <= MAX
    BY <1>3, <1>4, <2>1
  <2>3. disk'[o] \in File /\ Len(disk'[o].items) <= MAX
    BY <1>1, <1>6, <1>7
  <2>4. \A u \in N..c - 1 : u # c
    BY <1>1
  <2> QED
    BY <1>4, <1>7, <1>8, <1>i, <2>2, <2>3, <2>4
<1>10. Outputs'
  <2>1. (c + 1) - 1 = c /\ N < c + 1 /\ c + 1 \in Nat
    BY <1>1
  <2> QED
    BY <1>2, <1>9, <2>1 DEF Outputs
<1>11. Merged' = Append(Merged, x)
  <2> DEFINE n == c - N
             s == MergedOf(disk, n)
             t == MergedOf(disk', n + 1)
  <2>1. n \in Nat /\ N + n - 1 = c - 1 /\ N + (n + 1) - 1 = c /\ n + 1 \in Nat
        /\ (c + 1) - N = n + 1
    BY <1>1, Places
  <2>2. /\ \A u \in N..N + n - 1 : disk[u].items \in Seq(Items)
        /\ \A u \in N..N + (n + 1) - 1 : disk'[u].items \in Seq(Items)
    BY <1>7, <1>9, <2>1 DEF File
  <2>3. /\ s \in [1..n -> Seq(Items)] /\ \A i \in 1..n : s[i] = disk[N + i - 1].items
        /\ t \in [1..n + 1 -> Seq(Items)] /\ \A i \in 1..n + 1 : t[i] = disk'[N + i - 1].items
    <3>1. n \in Nat /\ n + 1 \in Nat
      BY <2>1
    <3> DEFINE m == n + 1
    <3>2. m \in Nat /\ \A u \in N..N + m - 1 : disk'[u].items \in Seq(Items)
      BY <2>2, <3>1
    <3> HIDE DEF m, n
    <3>3. MergedOf(disk', m) \in [1..m -> Seq(Items)] /\ \A i \in 1..m : MergedOf(disk', m)[i] = disk'[N + i - 1].items
      <4>1. PICK d : d = disk'
        OBVIOUS
      <4>2. \A u \in N..N + m - 1 : d[u].items \in Seq(Items)
        BY <3>2, <4>1, Zenon
      <4>3. MergedOf(d, m) \in [1..m -> Seq(Items)] /\ \A i \in 1..m : MergedOf(d, m)[i] = d[N + i - 1].items
        BY ONLY <3>2, <4>2, OutputsFlat
      <4> QED
        BY <4>1, <4>3, Zenon
    <3>4. MergedOf(disk, n) \in [1..n -> Seq(Items)] /\ \A i \in 1..n : MergedOf(disk, n)[i] = disk[N + i - 1].items
      BY <2>2, <3>1, OutputsFlat
    <3> QED
      BY <3>3, <3>4 DEF m
  <2>4. \A i \in 1..n : i \in 1..n + 1 /\ N + i - 1 \in N..c - 1 /\ N + i - 1 # c
    BY <1>1, Places
  <2>5. n + 1 \in 1..n + 1
    BY <1>1, Places
  <2>6. Merged = FlattenSeq(s) /\ Merged' = FlattenSeq(t)
    <3>1. Merged = FlattenSeq(s)
      BY DEF Merged, MergedOf
    <3>2. Merged' = FlattenSeq(MergedOf(disk', current_id' - N))
      BY DEF Merged, MergedOf
    <3>3. current_id' - N = n + 1
      BY <2>1
    <3> QED
      BY <3>1, <3>2, <3>3
  <2> HIDE DEF n, s, t
  <2>7. \A i \in 1..n : s[i] = t[i]
    <3> SUFFICES ASSUME NEW i \in 1..n PROVE s[i] = t[i]
      OBVIOUS
    <3> DEFINE u == N + i - 1
    <3>1. u \in N..c - 1 /\ u # c /\ i \in 1..n + 1
      BY <2>4
    <3>2. u \in Ids
      BY <1>1, <1>i, <3>1
    <3>3. s[i] = disk[u].items /\ t[i] = disk'[u].items
      BY <2>3, <3>1
    <3> HIDE DEF u
    <3>4. disk'[u].items = disk[u].items
      BY <1>4, <1>6, <3>1, <3>2
    <3> QED
      BY <3>3, <3>4
  <2>8. t[n + 1] = <<x>>
    <3>1. t[n + 1] = disk'[c].items
      BY <2>1, <2>3, <2>5
    <3> QED
      BY <1>3, <1>4, <3>1, Zenon
  <2>9. FlattenSeq(t) = FlattenSeq(s) \o <<x>>
    <3>1. FlattenSeq(t) = FlattenSeq(s) \o t[n + 1]
      <4>1. n \in Nat /\ s \in [1..n -> Seq(Items)] /\ t \in [1..n + 1 -> Seq(Items)]
            /\ \A i \in 1..n : s[i] = t[i]
        BY <2>1, <2>3, <2>7
      <4> QED
        BY ONLY <4>1, FlatMore
    <3> QED
      BY <2>8, <3>1, Zenon
  <2>10. FlattenSeq(s) \in Seq(Items)
    BY <2>1, <2>3, FlatSeq
  <2>11. \A q \in Seq(Items) : q \o <<x>> = Append(q, x)
    OBVIOUS
  <2> QED
    BY <2>6, <2>9, <2>10, <2>11, Zenon
<1>12. ids' = [i \in 1..c + 1 |-> i - 1]
  BY <1>1, ListIs DEF Merging
<1>13. \A u \in N..c : status'[u] \in {"COMPACT", "COMPACTED"}
  BY <1>5, <1>8, <1>i DEF Merging
<1>14. \A u \in N..c - 1 : disk'[u].key_num = Len(disk'[u].items)
  <2> SUFFICES ASSUME NEW u \in N..c - 1 PROVE disk'[u].key_num = Len(disk'[u].items)
    OBVIOUS
  <2>1. CASE u = o
    BY <1>6, <2>1
  <2>2. CASE u # o
    <3>1. u \in N..c - 2 /\ u # c /\ u \in Ids
      BY <1>1, <1>i, <2>2
    <3> QED
      BY <1>4, <2>2, <3>1 DEF Merging
  <2> QED
    BY <2>1, <2>2
<1>16. (c + 1) - 1 = c /\ (c + 1) - 2 = c - 1
  BY <1>1
<1>17. /\ \A u \in N..current_id' - 1 : status'[u] \in {"COMPACT", "COMPACTED"}
       /\ \A u \in N..current_id' - 2 : disk'[u].key_num = Len(disk'[u].items)
  BY <1>13, <1>14, <1>16
<1>18. \A u \in 0..N - 1 : disk'[u] = disk[u] /\ status'[u] = status[u] /\ buckets'[u] = buckets[u]
  BY <1>4, <1>5, <1>i DEF Shape
<1> QED
  BY <1>10, <1>11, <1>12, <1>17, <1>18 DEF Added

\* Either way the item is put behind all others.
LEMMA MergeAdds ==
  ASSUME Shape, Merging, begin = 0, Merge, NEW x \in Items, x = findsmallest.min
  PROVE  Added(x)
<1>1. PICK o : o = Output
  OBVIOUS
<1>2. /\ o = current_id - 1 /\ o \in Ids /\ disk[o] \in File /\ KeyNum(o) = Len(disk[o].items)
      /\ Len(disk[o].items) \in Nat
  BY <1>1, MergeOutput
<1>3. CASE MAX > KeyNum(Output)
  <2>1. /\ disk' = [disk EXCEPT ![o].items = Append(@, x)]
        /\ UNCHANGED <<ids, current_id, status, buckets>>
    BY <1>1, <1>3 DEF Merge
  <2>2. MAX > Len(disk[o].items)
    BY <1>1, <1>2, <1>3
  <2> QED
    BY <1>2, <2>1, <2>2, AddedToLast
<1>4. CASE ~(MAX > KeyNum(Output))
  <2>1. PICK c : c = current_id
    OBVIOUS
  <2>2. /\ createsst
        /\ status' = [status EXCEPT ![o] = "COMPACTED", ![c] = "COMPACT"]
        /\ disk' = [disk EXCEPT ![o] = Flushed(@), ![c] = [NewFile EXCEPT !.items = <<x>>]]
    BY <1>1, <1>4, <2>1 DEF Merge
  <2>3. /\ c \in Ids /\ ids' = Append(ids, c) /\ current_id' = c + 1
        /\ buckets' = [buckets EXCEPT ![c] = [b \in 1..NBuckets |-> <<>>]]
    BY <2>1, <2>2 DEF createsst
  <2> QED
    BY <1>2, <2>1, <2>2, <2>3, AddedToNext
<1> QED
  BY <1>3, <1>4

\* A round of the merge with the heads h, which findsmallest answers with r.
Taking(h, r) ==
  /\ Shape /\ Merging /\ begin = 0
  /\ HeadsOf(h) /\ Found(h, end + 1, point, r) /\ r.min # NULL
  /\ point' = r.point /\ Merged' = Append(Merged, r.min)
  /\ Outputs /\ Outputs' /\ UNCHANGED <<datas, seen, end>>

\* What findsmallest answered.
LEMMA TakingFacts ==
  ASSUME NEW h, NEW r, Taking(h, r)
  PROVE  /\ end \in Nat /\ r.min \in Items /\ r.point \in [1..end + 1 -> Nat]
         /\ Winner(h, end, point, r) /\ Movement(h, end, point, r)
<1>1. end \in Nat
  BY SizesAssumption DEF Taking, Merging, Going
<1>2. Found(h, end + 1, point, r) /\ r.min # NULL
  BY DEF Taking
<1> QED
  BY <1>1, <1>2, FoundFacts

\* A table that was moved on has lost its head, another has kept what was ahead.
LEMMA AheadAfter ==
  ASSUME NEW h, NEW r, Taking(h, r), NEW i \in 0..end
  PROVE  /\ r.point[i + 1] = point[i + 1] => Ahead(i)' = Ahead(i)
         /\ r.point[i + 1] # point[i + 1] =>
              /\ r.point[i + 1] = point[i + 1] + 1
              /\ Ahead(i)' = Ahead(i) \ {point[i + 1] + 1}
              /\ \A x \in Ahead(i)' : x > point[i + 1] + 1
<1> DEFINE q == point[i + 1]
<1>1. point' = r.point /\ seen' = seen
  BY DEF Taking
<1>2. q \in Nat /\ Len(seen[i]) \in Nat
  BY ReadyFacts DEF Taking
<1>3. r.point[i + 1] \in {q, q + 1}
  BY TakingFacts DEF Movement
<1>4. Ahead(i) = {x \in 1..Len(seen[i]) : x > q}
  BY DEF Ahead
<1>5. Ahead(i)' = {x \in 1..Len(seen[i]) : x > r.point[i + 1]}
  BY <1>1 DEF Ahead
<1> HIDE DEF q
<1>6. CASE r.point[i + 1] = q
  BY <1>4, <1>5, <1>6 DEF q
<1>7. CASE r.point[i + 1] # q
  <2>1. r.point[i + 1] = q + 1
    BY <1>3, <1>7
  <2>2. Ahead(i)' = {x \in 1..Len(seen[i]) : x > q + 1}
    BY <1>5, <2>1
  <2> DEFINE l == Len(seen[i])
  <2>3. Ahead(i)' = {x \in 1..l : x > q + 1} /\ Ahead(i) = {x \in 1..l : x > q} /\ l \in Nat
    BY <1>2, <1>4, <2>2
  <2> HIDE DEF l
  <2>4. {x \in 1..l : x > q + 1} = {x \in 1..l : x > q} \ {q + 1}
    BY <1>2, <2>3
  <2>5. \A x \in {x \in 1..l : x > q + 1} : x > q + 1
    OBVIOUS
  <2> QED
    BY <1>7, <2>1, <2>3, <2>4, <2>5, Zenon DEF q
<1> QED
  BY <1>6, <1>7 DEF q

\* One item more was put.
LEMMA MergedMore ==
  ASSUME NEW h, NEW r, Taking(h, r)
  PROVE  /\ Merged \in Seq(Items) /\ Merged' \in Seq(Items)
         /\ \A x : x \in ToSet(Merged') <=> x \in ToSet(Merged) \/ x = r.min
<1>1. PICK m : m = Merged
  OBVIOUS
<1>2. m \in Seq(Items) /\ r.min \in Items /\ Merged' = Append(m, r.min)
  BY <1>1, MergedIs, TakingFacts DEF Taking
<1>3. PICK x : x = r.min
  OBVIOUS
<1>4. /\ Append(m, x) \in Seq(Items) /\ Len(Append(m, x)) = Len(m) + 1
      /\ \A i \in 1..Len(m) : Append(m, x)[i] = m[i]
      /\ Append(m, x)[Len(m) + 1] = x
  BY <1>2, <1>3, AppendProperties
<1>5. m \o <<x>> = Append(m, x)
  BY <1>2, <1>3
<1>6. <<x>> \in Seq(Items)
  BY <1>2, <1>3
<1>7. ToSet(m \o <<x>>) = ToSet(m) \cup ToSet(<<x>>)
  BY <1>2, <1>6, ToSetConcat
<1>8. ToSet(<<x>>) = {x}
  BY <1>2, <1>3, OneItem DEF Holds
<1>9. ToSet(Append(m, x)) = ToSet(m) \cup {x}
  BY <1>5, <1>7, <1>8, Zenon
<1> QED
  BY <1>1, <1>2, <1>3, <1>4, <1>9

\* No key is lost: one that is passed over has the key of a head that stays or is put.
LEMMA KeptAfter ==
  ASSUME NEW h, NEW r, Taking(h, r)
  PROVE  Kept'
<1>1. UNCHANGED <<datas, seen, end>> /\ Kept /\ HeadsOf(h)
  BY DEF Taking, Merging
<1> SUFFICES ASSUME NEW t \in 0..end, NEW x \in ToSet(seen[t])
             PROVE  \/ \E y \in ToSet(Merged') : y.key = x.key
                    \/ \E u \in 0..end : \E i \in Ahead(u)' : datas[u][i].key = x.key
  BY <1>1 DEF Kept
<1>2. CASE \E y \in ToSet(Merged) : y.key = x.key
  BY <1>2, MergedMore
<1>3. CASE \E u \in 0..end : \E i \in Ahead(u) : datas[u][i].key = x.key
  <2>1. PICK u \in 0..end : \E i \in Ahead(u) : datas[u][i].key = x.key
    BY <1>3
  <2>2. PICK i \in Ahead(u) : datas[u][i].key = x.key
    BY <2>1
  <2>3. CASE i \in Ahead(u)'
    BY <2>2, <2>3
  <2>4. CASE i \notin Ahead(u)'
    <3>1. r.point[u + 1] # point[u + 1] /\ i = point[u + 1] + 1
      BY <2>4, AheadAfter
    <3>2. h[u] # NULL
      BY <3>1, TakingFacts DEF Movement
    <3>3. h[u].key = x.key
      BY <1>1, <2>2, <3>1, <3>2 DEF HeadsOf
    <3>4. CASE h[u].key = r.min.key
      BY <3>3, <3>4, MergedMore
    <3>5. CASE \E j \in 0..end : h[j] # NULL /\ r.point[j + 1] = point[j + 1] /\ h[j].key = h[u].key
      <4>1. PICK j \in 0..end : h[j] # NULL /\ r.point[j + 1] = point[j + 1] /\ h[j].key = h[u].key
        BY <3>5
      <4>2. Ahead(j)' = Ahead(j)
        BY <4>1, AheadAfter
      <4>3. point[j + 1] + 1 \in Ahead(j) /\ datas[j][point[j + 1] + 1] = h[j]
        BY <1>1, <4>1 DEF HeadsOf
      <4>4. point[j + 1] + 1 \in Ahead(j)' /\ datas[j][point[j + 1] + 1].key = x.key
        BY <3>3, <4>1, <4>2, <4>3
      <4> QED
        BY <4>4
    <3>6. h[u].key = r.min.key \/ \E j \in 0..end : h[j] # NULL /\ r.point[j + 1] = point[j + 1] /\ h[j].key = h[u].key
      BY <3>1, TakingFacts DEF Movement
    <3> QED
      BY <3>4, <3>5, <3>6
  <2> QED
    BY <2>3, <2>4
<1> QED
  BY <1>1, <1>2, <1>3 DEF Kept

\* Of two items of a key at most one is newer.
LEMMA ItemVersions ==
  ASSUME NEW d \in Items, NEW e \in Items
  PROVE  Newer(d.version, e.version) => ~Newer(e.version, d.version) /\ d.version # e.version
<1>1. d.version \in [1..8 -> Byte] /\ e.version \in [1..8 -> Byte]
  BY ItemFacts
<1> QED
  BY <1>1, NewerOnce

\* Nor is the latest item of a key: findsmallest passes over an item only for a later one.
LEMMA TopKeptAfter ==
  ASSUME NEW h, NEW r, Taking(h, r)
  PROVE  TopKept'
<1>1. UNCHANGED <<datas, seen, end>> /\ TopKept /\ HeadsOf(h) /\ end \in Nat
  BY TakingFacts DEF Taking, Merging
<1> SUFFICES ASSUME NEW t \in 0..end, NEW x \in ToSet(seen[t]), Top(x, t)
             PROVE  x \in ToSet(Merged') \/ \E i \in Ahead(t)' : datas[t][i] = x
  BY <1>1 DEF TopKept, Top
<1>2. CASE x \in ToSet(Merged)
  BY <1>2, MergedMore
<1>3. CASE \E i \in Ahead(t) : datas[t][i] = x
  <2>1. PICK i \in Ahead(t) : datas[t][i] = x
    BY <1>3
  <2>2. CASE i \in Ahead(t)'
    BY <2>1, <2>2
  <2>3. CASE i \notin Ahead(t)'
    <3>1. r.point[t + 1] # point[t + 1] /\ i = point[t + 1] + 1
      BY <2>3, AheadAfter
    <3>2. h[t] # NULL
      BY <3>1, TakingFacts DEF Movement
    <3>3. h[t] = x
      BY <1>1, <2>1, <3>1, <3>2 DEF HeadsOf
    <3>4. PICK w \in 0..end : h[w] = r.min /\
              \A k \in 0..end : k # w /\ r.point[k + 1] # point[k + 1] => \E j \in 0..end : Beats(h, j, k)
      BY TakingFacts, Zenon DEF Winner
    <3>5. CASE t = w
      BY <3>3, <3>4, <3>5, MergedMore
    <3>6. CASE t # w
      <4>1. PICK j \in 0..end : Beats(h, j, t)
        BY <3>1, <3>4, <3>6
      <4> DEFINE y == h[j]
      <4>2. /\ j # t /\ y # NULL /\ y.key = x.key
            /\ \/ Newer(y.version, x.version)
               \/ ~Newer(x.version, y.version) /\ j > t
        BY <3>3, <4>1 DEF Beats
      <4>3. y \in ToSet(seen[j])
        BY <1>1, <4>2 DEF HeadsOf
      <4>4. y \in Items /\ x \in Items
        <5>1. ToSet(seen[j]) \subseteq Items /\ ToSet(seen[t]) \subseteq Items
          BY ReadyFacts DEF Taking
        <5> QED
          BY <4>3, <5>1
      <4> HIDE DEF y
      <4>5. Newer(x.version, y.version) \/ (x.version = y.version /\ t > j)
        BY <4>2, <4>3 DEF Top
      <4>6. Newer(x.version, y.version) => ~Newer(y.version, x.version) /\ x.version # y.version
        BY <4>4, ItemVersions
      <4>7. Newer(y.version, x.version) => y.version # x.version
        BY <4>4, ItemVersions
      <4>8. j > t => ~(t > j)
        BY <1>1
      <4> QED
        BY <4>2, <4>5, <4>6, <4>7, <4>8
    <3> QED
      BY <3>5, <3>6
  <2> QED
    BY <2>2, <2>3
<1> QED
  BY <1>1, <1>2, <1>3 DEF TopKept

\* Comparator is transitive.
LEMMA ItemsOrder2 ==
  ASSUME NEW d \in Items, NEW e \in Items, NEW f \in Items,
         \/ Comparator(d, e) = -1 /\ Comparator(e, f) # 1
         \/ Comparator(d, e) # 1 /\ Comparator(e, f) = -1
  PROVE  Comparator(d, f) = -1
<1>1. CASE Comparator(d, e) = -1 /\ Comparator(e, f) # 1
  BY <1>1, ItemsOrder
<1>2. CASE Comparator(d, e) # 1 /\ Comparator(e, f) = -1
  <2>1. Comparator(d, e) \in {-1, 0, 1} /\ Comparator(e, f) # 1
    BY <1>2, ItemsOrder
  <2>2. CASE Comparator(d, e) = -1
    BY <2>1, <2>2, ItemsOrder
  <2>3. CASE Comparator(d, e) = 0
    BY <1>2, <2>3, SameOrder
  <2> QED
    BY <1>2, <2>1, <2>2, <2>3
<1> QED
  BY <1>1, <1>2

\* What is behind the head of a table.
LEMMA BehindHead ==
  ASSUME NEW a, NEW s, Array(a, s), NEW q \in Nat, q + 1 \in 1..Len(s),
         NEW i \in 1..Len(s), i > q + 1
  PROVE  /\ a[q + 1] \in Items /\ a[i] \in Items
         /\ Comparator(a[q + 1], a[i]) # 1
         /\ ~(Cardinality(ToSet(s)) < Len(s)) => Comparator(a[q + 1], a[i]) = -1
<1>1. /\ s \in Seq(Items)
      /\ \A x \in 1..Len(s) : a[x] \in ToSet(s)
      /\ \A x, y \in 1..Len(s) : x < y => Comparator(a[x], a[y]) # 1
      /\ ~(Cardinality(ToSet(s)) < Len(s)) =>
           \A x, y \in 1..Len(s) : x < y => Comparator(a[x], a[y]) = -1
  BY DEF Array
<1>2. ToSet(s) \subseteq Items
  BY <1>1, ToSetIs
<1>3. q + 1 < i
  OBVIOUS
<1> QED
  BY <1>1, <1>2, <1>3

\* A table that nextdata gave once has no key twice.
LEMMA NoRepeat ==
  ASSUME Shape, Merging, begin = 0, Once, NEW t \in 0..end
  PROVE  ~(Cardinality(ToSet(seen[t])) < Len(seen[t]))
<1>1. t \in Ids
  BY SizesAssumption DEF Merging, Going, Ids
<1>2. seen[t] # NULL
  BY ReadyFacts
<1> QED
  BY <1>1, <1>2 DEF Once, Repeats, Seen

\* A greater item may be put behind.
LEMMA RisingMore ==
  ASSUME NEW m \in Seq(Items), Rising(m), NEW x \in Items, m # <<>> => Comparator(Last(m), x) = -1
  PROVE  Rising(Append(m, x)) /\ Append(m, x) # <<>> /\ Last(Append(m, x)) = x
<1> DEFINE n == Len(m)
           q == Append(m, x)
<1>1. n \in Nat /\ (n = 0 <=> m = <<>>)
  BY LenProperties, EmptySeq
<1>2. q \in Seq(Items) /\ Len(q) = n + 1 /\ (\A i \in 1..n : q[i] = m[i]) /\ q[n + 1] = x
  BY AppendProperties
<1>3. \A i \in 1..n - 1 : Comparator(m[i], m[i + 1]) = -1
  BY DEF Rising
<1>4. Last(m) = m[n]
  BY DEF Last
<1>5. Last(q) = q[Len(q)]
  BY DEF Last
<1> HIDE DEF n, q
<1>6. Last(q) = x
  BY <1>2, <1>5
<1>7. q # <<>>
  <2>1. Len(<<>>) = 0
    BY EmptySeq
  <2> QED
    BY <1>1, <1>2, <2>1
<1>8. ASSUME NEW i \in 1..Len(q) - 1 PROVE Comparator(q[i], q[i + 1]) = -1
  <2>0. i \in 1..n
    BY <1>1, <1>2, <1>8
  <2>1. CASE i \in 1..n - 1
    <3>1. i \in 1..n /\ i + 1 \in 1..n
      BY <1>1, <2>1
    <3> QED
      BY <1>2, <1>3, <2>1, <3>1
  <2>2. CASE i = n
    <3>1. n # 0 /\ n \in 1..n
      BY <1>1, <2>0, <2>2
    <3>2. q[i] = m[n] /\ q[i + 1] = x
      BY <1>2, <2>2, <3>1
    <3>3. Comparator(m[n], x) = -1
      BY <1>1, <1>4, <3>1
    <3> QED
      BY <3>2, <3>3
  <2> QED
    BY <1>1, <2>0, <2>1, <2>2
<1>9. Rising(q)
  BY <1>8 DEF Rising
<1> QED
  BY <1>6, <1>7, <1>9 DEF q

\* Nothing left is smaller than the item taken, or equal to it.
LEMMA LeftIsGreater ==
  ASSUME NEW h, NEW r, Taking(h, r), Once, NEW t \in 0..end, NEW i \in Ahead(t)'
  PROVE  Comparator(r.min, datas[t][i]) = -1
<1> DEFINE q == point[t + 1]
           a == datas[t]
           s == seen[t]
<1>1. /\ Array(a, s) /\ q \in Nat /\ HeadsOf(h) /\ r.min \in Items
      /\ ~(Cardinality(ToSet(s)) < Len(s))
  BY ReadyFacts, NoRepeat, TakingFacts DEF Taking, Merging
<1>2. i \in Ahead(t)
  BY AheadAfter
<1>3. h[t] # NULL
  BY <1>1, <1>2 DEF HeadsOf
<1>4. q + 1 \in Ahead(t) /\ h[t] = a[q + 1] /\ h[t] \in Items
  BY <1>1, <1>3 DEF HeadsOf
<1>5. i \in 1..Len(s) /\ i > q /\ q + 1 \in 1..Len(s)
  BY <1>2, <1>4 DEF Ahead
<1>6. /\ Comparator(r.min, h[t]) # 1
      /\ r.point[t + 1] = q => Comparator(r.min, h[t]) = -1
  BY <1>3, TakingFacts DEF Movement
<1>7. r.point[t + 1] # q => i > q + 1
  BY AheadAfter
<1> HIDE DEF q, a, s
<1>8. CASE i = q + 1
  <2>1. r.point[t + 1] = q
    BY <1>1, <1>7, <1>8
  <2> QED
    BY <1>4, <1>6, <1>8, <2>1 DEF a
<1>9. CASE i > q + 1
  <2>1. a[q + 1] \in Items /\ a[i] \in Items /\ Comparator(a[q + 1], a[i]) = -1
    BY <1>1, <1>5, <1>9, BehindHead
  <2>2. Comparator(r.min, a[i]) = -1
    BY <1>1, <1>4, <1>6, <2>1, ItemsOrder2
  <2> QED
    BY <2>2 DEF a
<1> QED
  BY <1>1, <1>5, <1>8, <1>9

\* What is put is greater than what was put, and smaller than what is ahead.
LEMMA InOrderAfter ==
  ASSUME NEW h, NEW r, Taking(h, r)
  PROVE  InOrder'
<1>1. UNCHANGED <<datas, seen, end>> /\ InOrder /\ HeadsOf(h) /\ end \in Nat /\ r.min \in Items
      /\ Merged' = Append(Merged, r.min) /\ r.min # NULL
  BY TakingFacts DEF Taking, Merging
<1>2. Once' <=> Once
  BY <1>1 DEF Once, Repeats, Seen, Ids
<1> SUFFICES ASSUME Once PROVE InOrder'
  BY <1>2 DEF InOrder
<1>3. Merged \in Seq(Items)
  BY MergedMore
<1>4. Rising(Merged)
  BY <1>1 DEF InOrder
<1>5. Merged # <<>> => Comparator(Last(Merged), r.min) = -1
  <2> SUFFICES ASSUME Merged # <<>> PROVE Comparator(Last(Merged), r.min) = -1
    OBVIOUS
  <2>1. PICK w \in 0..end : h[w] = r.min
    BY TakingFacts, Zenon DEF Winner
  <2>2. point[w + 1] + 1 \in Ahead(w) /\ r.min = datas[w][point[w + 1] + 1]
    BY <1>1, <2>1 DEF HeadsOf
  <2>3. Comparator(Last(Merged), datas[w][point[w + 1] + 1]) = -1
    BY <1>1, <2>2 DEF InOrder
  <2> QED
    BY <2>2, <2>3
<1>6. PICK m : m = Merged
  OBVIOUS
<1>7. PICK x : x = r.min
  OBVIOUS
<1>8. m \in Seq(Items) /\ Rising(m) /\ x \in Items /\ (m # <<>> => Comparator(Last(m), x) = -1)
  BY <1>1, <1>3, <1>4, <1>5, <1>6, <1>7, Zenon
<1>9. Rising(Append(m, x)) /\ Append(m, x) # <<>> /\ Last(Append(m, x)) = x
  BY <1>8, RisingMore
<1>10. Merged' = Append(m, x)
  BY <1>1, <1>6, <1>7
<1>11. \A t \in 0..end : \A i \in Ahead(t)' : Comparator(x, datas[t][i]) = -1
  BY <1>7, LeftIsGreater
<1>12. Rising(Merged') /\ Last(Merged') = x
  BY <1>9, <1>10, Zenon
<1> QED
  BY <1>1, <1>11, <1>12 DEF InOrder

\* A round of the merge keeps the invariant.
LEMMA MergeKeeps ==
  ASSUME CInv, Shape', Merge
  PROVE  CInv'
<1>0. pc = "merge" /\ findsmallest.min # NULL /\ point' = findsmallest.point
      /\ UNCHANGED <<head, datas, begin, end, at, pc, held, seen>>
  BY DEF Merge
<1> SUFFICES ASSUME begin = 0 PROVE CInv'
  BY <1>0 DEF CInv
<1>1. Shape /\ Merging
  BY <1>0, MergePhase
<1>2. PICK h \in [0..end -> Items \cup {NULL}] : HeadsOf(h) /\ Found(h, end + 1, point, findsmallest)
  BY <1>1, HeadsAre
<1>3. PICK r : r = findsmallest
  OBVIOUS
<1>4. r.min \in Items
  BY <1>0, <1>2, <1>3 DEF Found
<1>5. Added(r.min)
  BY <1>1, <1>3, <1>4, MergeAdds
<1>6. Taking(h, r)
  BY <1>0, <1>1, <1>2, <1>3, <1>5 DEF Taking, Added, Merging
<1>7. Kept' /\ TopKept' /\ InOrder'
  BY <1>6, KeptAfter, TopKeptAfter, InOrderAfter
<1>8. end \in 1..N - 1 /\ N \in Nat /\ end' = end
  BY <1>0, <1>1, SizesAssumption DEF Merging, Going
<1>9. point' = r.point /\ r.point \in [1..end' + 1 -> Nat]
  BY <1>0, <1>3, <1>6, <1>8, TakingFacts
<1>10. \A t \in 0..end : point'[t + 1] <= Len(datas'[t])
  <2> SUFFICES ASSUME NEW t \in 0..end PROVE r.point[t + 1] <= Len(datas[t])
    BY <1>0, <1>9
  <2>1. point[t + 1] \in Nat /\ point[t + 1] <= Len(datas[t]) /\ Len(datas[t]) \in Nat
    BY <1>1, ReadyFacts
  <2>2. r.point[t + 1] = point[t + 1] \/ (r.point[t + 1] = point[t + 1] + 1 /\ h[t] # NULL)
    BY <1>6, <2>1, TakingFacts DEF Movement
  <2>3. h[t] # NULL => point[t + 1] < Len(datas[t])
    BY <1>2 DEF HeadsOf
  <2> QED
    BY <2>1, <2>2, <2>3
<1>11. \A t \in 0..end : t \in 0..N - 1
  BY <1>8
<1>12. \A t \in 0..end : Ready(t)'
  <2> SUFFICES ASSUME NEW t \in 0..end PROVE Ready(t)'
    OBVIOUS
  <2>1. Ready(t) /\ status'[t] = status[t] /\ buckets'[t] = buckets[t]
    BY <1>1, <1>5, <1>11 DEF Merging, Added
  <2> QED
    BY <1>0, <2>1 DEF Ready, InMemory, From
<1>13. \A t \in 0..N - 2 : OnDisk(t)'
  <2> SUFFICES ASSUME NEW t \in 0..N - 2 PROVE OnDisk(t)'
    OBVIOUS
  <2>1. OnDisk(t) /\ t \in 0..N - 1
    BY <1>1, <1>8 DEF Merging
  <2>2. disk'[t] = disk[t]
    BY <1>5, <2>1 DEF Added
  <2> QED
    BY <1>0, <2>1, <2>2 DEF OnDisk
<1>14. Going'
  BY <1>0, <1>1 DEF Merging, Going, Ids
<1>15. Merging'
  BY <1>5, <1>7, <1>8, <1>9, <1>10, <1>12, <1>13, <1>14 DEF Merging, Added
<1> QED
  BY <1>0, <1>15 DEF CInv

-----------------------------------------------------------------------------
(* The end of the merge and the removal. *)

\* So does one that reads behind the tables and dies, ...
LEMMA MergeDiesKeeps ==
  ASSUME CInv, Shape', MergeDies
  PROVE  CInv'
<1>0. /\ pc = "merge" /\ pc' = "fault"
      /\ UNCHANGED <<head, ids, current_id, status, buckets, datas, disk, point, begin, end, at, held, seen>>
  BY DEF MergeDies, Fault
<1> SUFFICES ASSUME begin = 0 PROVE CInv'
  BY <1>0 DEF CInv
<1>1. Merging
  BY <1>0, MergePhase
<1>2. Merging'
  <2>1. Going' /\ Outputs'
    BY <1>0, <1>1 DEF Merging, Going, Outputs, Ids
  <2>2. \A t \in 0..N - 2 : OnDisk(t)'
    BY <1>0, <1>1 DEF Merging, OnDisk
  <2>3. \A t \in 0..end : Ready(t)'
    BY <1>0, <1>1 DEF Merging, Ready, InMemory, From
  <2>4. Merged' = Merged
    BY <1>0 DEF Merged
  <2>5. Kept' /\ TopKept'
    BY <1>0, <1>1, <2>4 DEF Merging, Kept, TopKept, Top, Ahead
  <2>6. InOrder'
    BY <1>0, <1>1, <2>4 DEF Merging, InOrder, Once, Repeats, Seen, Ahead, Ids
  <2> QED
    BY <1>0, <1>1, <2>1, <2>2, <2>3, <2>5, <2>6 DEF Merging
<1> QED
  BY <1>0, <1>2 DEF CInv

\* When findsmallest finds nothing, all was taken.
LEMMA AllTaken ==
  ASSUME Shape, Merging, begin = 0, findsmallest.min = NULL
  PROVE  \A t \in 0..end : Ahead(t) = {}
<1>1. PICK h \in [0..end -> Items \cup {NULL}] : HeadsOf(h) /\ Found(h, end + 1, point, findsmallest)
  BY HeadsAre
<1>2. end \in Nat
  BY SizesAssumption DEF Merging, Going
<1>3. \A i \in 0..(end + 1) - 1 : h[i] = NULL
  BY <1>1 DEF Found
<1>4. \A i \in 0..end : i \in 0..(end + 1) - 1
  BY <1>2
<1> QED
  BY <1>1, <1>3, <1>4 DEF HeadsOf

\* ... the end, which flushes the last table, ...
LEMMA MergeEndKeeps ==
  ASSUME CInv, Shape', MergeEnd
  PROVE  CInv'
<1>0. /\ pc = "merge" /\ pc' = "remove" /\ findsmallest.min = NULL /\ at' = begin
      /\ UNCHANGED <<head, ids, current_id, buckets, datas, point, begin, end, held, seen>>
  BY DEF MergeEnd
<1> SUFFICES ASSUME begin = 0 PROVE CInv'
  BY <1>0 DEF CInv
<1>1. Shape /\ Merging
  BY <1>0, MergePhase
<1>2. PICK o : o = Output
  OBVIOUS
<1>3. o = current_id - 1 /\ o \in Ids /\ o \in N..current_id - 1 /\ disk[o] \in File
  BY <1>1, <1>2, MergeOutput
<1>4. disk' = [disk EXCEPT ![o] = Flushed(@)]
  BY <1>2 DEF MergeEnd
<1>5. disk'[o] = Flushed(disk[o]) /\ \A u \in Ids : u # o => disk'[u] = disk[u]
  BY <1>1, <1>3, <1>4 DEF Shape
<1>6. disk'[o] \in File /\ disk'[o].items = disk[o].items /\ disk'[o].key_num = Len(disk'[o].items)
  BY <1>3, <1>5, FlushedIs
<1>7. N \in Nat /\ end \in 1..N - 1 /\ MaxNew \in Nat /\ current_id \in Nat /\ N < current_id
      /\ current_id <= N + MaxNew
  BY <1>1, SizesAssumption DEF Merging, Going, Outputs
<1>8. \A u \in N..current_id - 1 : u \in Ids /\ (u # o => u \in N..current_id - 2)
  <2>1. \A u \in N..current_id - 1 : u \in Ids
    BY <1>7, PlacesIn DEF Ids
  <2>2. \A u \in N..current_id - 1 : u # o => u \in N..current_id - 2
    BY <1>3, <1>7
  <2> QED
    BY <2>1, <2>2
<1>9. \A u \in N..current_id - 1 :
        /\ disk'[u] \in File /\ disk'[u].items = disk[u].items /\ Len(disk'[u].items) <= MAX
        /\ disk'[u].key_num = Len(disk'[u].items)
  <2> SUFFICES ASSUME NEW u \in N..current_id - 1
               PROVE  /\ disk'[u] \in File /\ disk'[u].items = disk[u].items /\ Len(disk'[u].items) <= MAX
                      /\ disk'[u].key_num = Len(disk'[u].items)
    OBVIOUS
  <2>1. disk[u] \in File /\ Len(disk[u].items) <= MAX
    BY <1>1 DEF Merging, Outputs
  <2>2. CASE u = o
    BY <1>6, <2>1, <2>2
  <2>3. CASE u # o
    BY <1>1, <1>5, <1>8, <2>1, <2>3 DEF Merging
  <2> QED
    BY <2>2, <2>3
<1>10. Outputs'
  BY <1>0, <1>7, <1>9 DEF Outputs
<1>11. Merged' = Merged
  <2> DEFINE f == [i \in 1..current_id - N |-> disk[N + i - 1].items]
             g == [i \in 1..current_id - N |-> disk'[N + i - 1].items]
  <2>1. \A i \in 1..current_id - N : N + i - 1 \in N..current_id - 1
    BY <1>7, Places
  <2>2. f = g
    BY <1>9, <2>1
  <2>3. Merged = FlattenSeq(f) /\ Merged' = FlattenSeq(g)
    BY <1>0 DEF Merged
  <2> HIDE DEF f, g
  <2> QED
    BY <2>2, <2>3
<1>12. \A t \in 0..end : Ahead(t) = {}
  BY <1>0, <1>1, AllTaken
<1>13. \A t \in 0..end : seen[t] \in Seq(Items) /\ From(t)'
  BY <1>0, <1>1, ReadyFacts DEF Merging, Ready, From
<1>14. \A t \in 0..end : \A x \in ToSet(seen[t]) :
         /\ \E y \in ToSet(Merged) : y.key = x.key
         /\ Top(x, t) => x \in ToSet(Merged)
  BY <1>1, <1>12 DEF Merging, Kept, TopKept
<1>15. Once => Rising(Merged)
  BY <1>1 DEF Merging, InOrder
<1>16. Going'
  BY <1>0, <1>1 DEF Merging, Going, Ids
<1>17. /\ at' = 0 /\ at' \in 0..end' /\ ids' \in Seq(Int) /\ Len(ids') = current_id' - at'
       /\ \A i \in 1..Len(ids') : ids'[i] = at' + i - 1
  <2>1. ids = [i \in 1..current_id |-> i - 1]
    BY <1>1 DEF Merging
  <2>2. ids \in Seq(Int) /\ Len(ids) = current_id
    BY <1>7, <2>1, ListIs
  <2>3. \A i \in 1..current_id : ids[i] = i - 1 /\ i - 1 = 0 + i - 1
    BY <2>1
  <2>4. current_id = current_id - 0 /\ 0 \in 0..end
    BY <1>7
  <2> QED
    BY <1>0, <2>2, <2>3, <2>4
<1>18. Once' <=> Once
  BY <1>0 DEF Once, Repeats, Seen, Ids
<1>19. \A t \in 0..end : \A x \in ToSet(seen[t]) :
         /\ \E y \in ToSet(Merged') : y.key = x.key
         /\ Top(x, t)' => x \in ToSet(Merged')
  BY <1>0, <1>11, <1>14 DEF Top
<1>20. Removed'
  BY <1>0, <1>9, <1>10, <1>11, <1>13, <1>15, <1>16, <1>17, <1>18, <1>19 DEF Removed
<1> QED
  BY <1>0, <1>20 DEF CInv

\* What the invariant says while old tables are removed.
LEMMA RemovePhase ==
  ASSUME CInv, pc = "remove", begin = 0
  PROVE  Shape /\ Removed
BY DEF CInv

\* The list without its first table.
LEMMA WithoutFirst ==
  ASSUME NEW s \in Seq(Int), NEW a \in Nat, Len(s) > 0, \A i \in 1..Len(s) : s[i] = a + i - 1
  PROVE  /\ RemoveAt(s, 1) \in Seq(Int) /\ Len(RemoveAt(s, 1)) = Len(s) - 1
         /\ \A i \in 1..Len(s) - 1 : RemoveAt(s, 1)[i] = (a + 1) + i - 1
<1> DEFINE n == Len(s)
           q == SubSeq(s, 1, 0) \o SubSeq(s, 2, n)
<1>1. RemoveAt(s, 1) = q
  BY DEF RemoveAt
<1>2. n \in Nat /\ n > 0
  BY LenProperties
<1>3. SubSeq(s, 1, 0) = <<>>
  BY SubSeqProperties
<1>4. /\ SubSeq(s, 2, n) \in Seq(Int) /\ Len(SubSeq(s, 2, n)) = n - 1
      /\ \A i \in 1..n - 1 : SubSeq(s, 2, n)[i] = s[i + 1]
  <2>1. 2 \in 1..Len(s) + 1 /\ n \in 1 .. Len(s) /\ n - 2 + 1 = n - 1 /\ 2 <= n + 1
    BY <1>2
  <2>2. SubSeq(s, 2, n) \in Seq(Int) /\ Len(SubSeq(s, 2, n)) = n - 1
    BY <1>2, <2>1, SubSeqProperties
  <2>3. \A i \in 1..n - 1 : SubSeq(s, 1 + 1, 1 + (n - 1))[i] = s[1 + i]
    BY <1>2, Slice
  <2>4. 1 + 1 = 2 /\ 1 + (n - 1) = n /\ \A i \in 1..n - 1 : 1 + i = i + 1
    BY <1>2
  <2>5. \A i \in 1..n - 1 : SubSeq(s, 2, n)[i] = s[i + 1]
    BY <2>3, <2>4, Zenon
  <2> QED
    BY <2>2, <2>5
<1>5. q = SubSeq(s, 2, n)
  BY <1>3, <1>4, ConcatEmptySeq
<1> HIDE DEF q
<1>6. \A i \in 1..n - 1 : i + 1 \in 1..n /\ a + (i + 1) - 1 = (a + 1) + i - 1
  BY <1>2
<1> QED
  BY <1>1, <1>4, <1>5, <1>6

\* ... and the removal of a table from the list and from the disk.
LEMMA RemoveKeeps ==
  ASSUME CInv, Shape', RemoveNext
  PROVE  CInv'
<1>0. pc = "remove" /\ at' = at + 1 /\ pc' = (IF at = end THEN "done" ELSE "remove")
      /\ UNCHANGED <<head, current_id, status, point, begin, end, held, seen>>
  BY DEF RemoveNext
<1> SUFFICES ASSUME begin = 0 PROVE CInv'
  BY <1>0 DEF CInv
<1>1. Shape /\ Removed
  BY <1>0, RemovePhase
<1>2. /\ N \in Nat /\ end \in 1..N - 1 /\ MaxNew \in Nat /\ current_id \in Nat /\ N < current_id
      /\ current_id <= N + MaxNew
      /\ at \in 0..end /\ ids \in Seq(Int) /\ Len(ids) = current_id - at
      /\ \A i \in 1..Len(ids) : ids[i] = at + i - 1
  BY <1>0, <1>1, SizesAssumption DEF Removed, Going, Outputs
<1>3. PICK a : a = at
  OBVIOUS
<1>4. Sst(begin) = a
  <2>1. 1 \in 1..Len(ids) /\ at + 1 - 1 = at /\ begin + 1 = 1
    BY <1>2
  <2> QED
    BY <1>2, <1>3, <2>1 DEF Sst
<1>5. disk' = [disk EXCEPT ![a] = NULL] /\ ids' = RemoveAt(ids, 1)
  <2>1. begin + 1 = 1
    OBVIOUS
  <2> QED
    BY <1>4, <2>1, Zenon DEF RemoveNext
<1>6. \A u \in N..current_id - 1 : u \in Ids /\ u # a
  BY <1>2, <1>3, PlacesIn DEF Ids
<1>7. \A u \in N..current_id - 1 : disk'[u] = disk[u]
  BY <1>1, <1>5, <1>6 DEF Shape
<1>8. Outputs'
  BY <1>0, <1>1, <1>7 DEF Removed, Outputs
<1>9. Merged' = Merged
  <2> DEFINE f == [i \in 1..current_id - N |-> disk[N + i - 1].items]
             g == [i \in 1..current_id - N |-> disk'[N + i - 1].items]
  <2>1. \A i \in 1..current_id - N : N + i - 1 \in N..current_id - 1
    BY <1>2, Places
  <2>2. f = g
    BY <1>7, <2>1
  <2>3. Merged = FlattenSeq(f) /\ Merged' = FlattenSeq(g)
    BY <1>0 DEF Merged
  <2> HIDE DEF f, g
  <2> QED
    BY <2>2, <2>3
<1>10. Going'
  BY <1>0, <1>1 DEF Removed, Going, Ids
<1>11. pc' = "remove" => /\ at' \in 0..end'
                         /\ ids' \in Seq(Int) /\ Len(ids') = current_id' - at'
                         /\ \A i \in 1..Len(ids') : ids'[i] = at' + i - 1
  <2> SUFFICES ASSUME at # end
               PROVE  /\ at + 1 \in 0..end /\ ids' \in Seq(Int) /\ Len(ids') = current_id - (at + 1)
                      /\ \A i \in 1..Len(ids') : ids'[i] = (at + 1) + i - 1
    BY <1>0
  <2>1. at + 1 \in 0..end /\ at \in Nat /\ Len(ids) > 0
    BY <1>2
  <2>2. /\ RemoveAt(ids, 1) \in Seq(Int) /\ Len(RemoveAt(ids, 1)) = Len(ids) - 1
        /\ \A i \in 1..Len(ids) - 1 : RemoveAt(ids, 1)[i] = (a + 1) + i - 1
    <3>1. PICK s : s = ids
      OBVIOUS
    <3>2. s \in Seq(Int) /\ a \in Nat /\ Len(s) > 0 /\ \A i \in 1..Len(s) : s[i] = a + i - 1
      BY <1>2, <1>3, <2>1, <3>1
    <3>3. /\ RemoveAt(s, 1) \in Seq(Int) /\ Len(RemoveAt(s, 1)) = Len(s) - 1
          /\ \A i \in 1..Len(s) - 1 : RemoveAt(s, 1)[i] = (a + 1) + i - 1
      BY ONLY <3>2, WithoutFirst
    <3> QED
      BY <3>1, <3>3
  <2>3. Len(ids) - 1 = current_id - (at + 1)
    BY <1>2
  <2> QED
    BY <1>3, <1>5, <2>1, <2>2, <2>3
<1>12. \A t \in 0..end : seen'[t] \in Seq(Items) /\ From(t)'
  BY <1>0, <1>1 DEF Removed, From
<1>13. \A u \in N..current_id - 1 : disk'[u].key_num = Len(disk'[u].items)
  BY <1>1, <1>7 DEF Removed
<1>14. \A t \in 0..end : \A x \in ToSet(seen[t]) :
         /\ \E y \in ToSet(Merged') : y.key = x.key
         /\ Top(x, t)' => x \in ToSet(Merged')
  BY <1>0, <1>1, <1>9 DEF Removed, Top
<1>15. Once' => Rising(Merged')
  BY <1>0, <1>1, <1>9 DEF Removed, Once, Repeats, Seen, Ids
<1>16. Removed'
  BY <1>0, <1>8, <1>10, <1>11, <1>12, <1>13, <1>14, <1>15 DEF Removed
<1>17. pc' \in {"remove", "done"}
  BY <1>0
<1> QED
  BY <1>0, <1>16, <1>17 DEF CInv

\* No step adds or drops a table number.
LEMMA ShapeKeeps ==
  ASSUME Shape, Next
  PROVE  Shape'
<1>1. CASE \E b, e \in 0..N : Call(b, e)
  BY <1>1 DEF Shape, Ids, Call
<1>2. CASE sstmanager_checkcompact
  BY <1>2 DEF Shape, Ids, sstmanager_checkcompact, Call
<1>3. CASE Start
  BY <1>3 DEF Shape, Ids, Start, Fault
<1>4. CASE Precompact
  BY <1>4 DEF Shape, Ids, Precompact
<1>5. CASE Create
  BY <1>5 DEF Shape, Ids, Create, createsst
<1>6. CASE Merge
  <2>1. UNCHANGED <<datas, seen, held>>
    BY <1>6 DEF Merge
  <2>2. DOMAIN disk' = DOMAIN disk /\ DOMAIN status' = DOMAIN status /\ DOMAIN buckets' = DOMAIN buckets
    <3>1. CASE MAX > KeyNum(Output)
      BY <1>6, <3>1 DEF Merge
    <3>2. CASE ~(MAX > KeyNum(Output))
      BY <1>6, <3>2 DEF Merge, createsst
    <3> QED
      BY <3>1, <3>2
  <2> QED
    BY <2>1, <2>2 DEF Shape, Ids
<1>7. CASE MergeDies
  BY <1>7 DEF Shape, Ids, MergeDies, Fault
<1>8. CASE MergeEnd
  BY <1>8 DEF Shape, Ids, MergeEnd
<1>9. CASE RemoveNext
  BY <1>9 DEF Shape, Ids, RemoveNext
<1> QED
  BY <1>1, <1>2, <1>3, <1>4, <1>5, <1>6, <1>7, <1>8, <1>9 DEF Next

\* A step that changes nothing keeps the invariant.
LEMMA StutterKeeps ==
  ASSUME CInv, UNCHANGED vars
  PROVE  CInv'
<1>0. UNCHANGED <<head, ids, current_id, status, buckets, datas, disk, point, begin, end, at, pc, held, seen>>
  BY DEF vars
<1>1. Merged' = Merged
  BY <1>0 DEF Merged
<1>2. Shape' = Shape
  BY <1>0 DEF Shape, Ids
<1>3. \A k : Untouched(k)' = Untouched(k)
  BY <1>0 DEF Untouched, OnDisk, InMemory, Ready, From, Ids
<1>4. Going' = Going /\ Unread' = Unread /\ Outputs' = Outputs
  BY <1>0 DEF Going, Unread, Outputs, Ids
<1>5. Once' = Once
  BY <1>0 DEF Once, Repeats, Seen, Ids
<1>6. Kept' = Kept /\ TopKept' = TopKept
  BY <1>0, <1>1 DEF Kept, TopKept, Top, Ahead
<1>7. InOrder' = InOrder
  BY <1>0, <1>1, <1>5 DEF InOrder, Ahead
<1>8. Merging' = Merging
  BY <1>0, <1>4, <1>6, <1>7 DEF Merging, OnDisk, Ready, InMemory, From
<1>9. Removed' = Removed
  BY <1>0, <1>1, <1>4, <1>5 DEF Removed, From, Top
<1> QED
  BY <1>0, <1>2, <1>3, <1>4, <1>8, <1>9 DEF CInv

\* The invariant is inductive.
LEMMA NextKeepsCInv == CInv /\ [Next]_vars => CInv'
<1> SUFFICES ASSUME CInv, [Next]_vars PROVE CInv'
  OBVIOUS
<1>1. CASE UNCHANGED vars
  BY <1>1, StutterKeeps
<1>2. CASE Next
  <2>0. Shape'
    BY <1>2, ShapeKeeps DEF CInv
  <2>1. ASSUME NEW b \in 0..N, NEW e \in 0..N, Call(b, e) PROVE CInv'
    <3>1. e \in Nat
      BY SizesAssumption
    <3> QED
      BY <2>0, <2>1, <3>1, CallKeeps
  <2>2. CASE sstmanager_checkcompact
    BY <2>0, <2>2, CheckKeeps
  <2>3. CASE Start
    BY <2>0, <2>3, StartKeeps
  <2>4. CASE Precompact
    BY <2>0, <2>4, PrecompactKeeps
  <2>5. CASE Create
    BY <2>0, <2>5, CreateKeeps
  <2>6. CASE Merge
    BY <2>0, <2>6, MergeKeeps
  <2>7. CASE MergeDies
    BY <2>0, <2>7, MergeDiesKeeps
  <2>8. CASE MergeEnd
    BY <2>0, <2>8, MergeEndKeeps
  <2>9. CASE RemoveNext
    BY <2>0, <2>9, RemoveKeeps
  <2> QED
    BY <1>2, <2>1, <2>2, <2>3, <2>4, <2>5, <2>6, <2>7, <2>8, <2>9 DEF Next
<1> QED
  BY <1>1, <1>2

-----------------------------------------------------------------------------
(* What follows from the invariant. *)

\* In the merge and after it, the invariant has the order of the items put.
LEMMA CInvMergedInOrder == CInv => MergedInOrder
<1> SUFFICES ASSUME CInv, Clean
             PROVE  /\ Rising(Merged)
                    /\ \A t \in N..current_id - 1 : Len(disk[t].items) <= MAX
  BY DEF MergedInOrder, Rising
<1>1. begin = 0 /\ Once
  BY DEF Clean, Once
<1>2. (\E k : Untouched(k)) \/ Merging \/ Removed
  BY <1>1, Zenon DEF CInv
<1>3. CASE \E k : Untouched(k)
  <2>1. current_id = N /\ N \in Nat
    BY <1>3, SizesAssumption DEF Untouched
  <2>2. \A t : t \notin N..current_id - 1
    BY <2>1
  <2> DEFINE s == [i \in 1..current_id - N |-> disk[N + i - 1].items]
  <2>3. s \in [1..0 -> Seq(Items)]
    BY <2>1
  <2>4. Merged = FlattenSeq(s)
    BY DEF Merged
  <2> HIDE DEF s
  <2>5. Merged = <<>>
    BY <2>3, <2>4, FlatNone
  <2>6. Rising(<<>>)
    <3>1. Len(<<>>) = 0
      BY EmptySeq
    <3>2. \A i \in 1..Len(<<>>) - 1 : FALSE
      BY <3>1
    <3> QED
      BY <3>2 DEF Rising
  <2> QED
    BY <2>2, <2>5, <2>6
<1>4. CASE Merging
  BY <1>1, <1>4 DEF Merging, InOrder, Outputs
<1>5. CASE Removed
  BY <1>1, <1>5 DEF Removed, Outputs
<1> QED
  BY <1>2, <1>3, <1>4, <1>5

\* A key that was seen is in an old file until it is in a complete new one.
LEMMA CInvNoKeyLost == CInv => NoKeyLost
<1> SUFFICES ASSUME CInv, Clean, NEW t \in 0..N - 2, NEW d \in held[t], seen[t] # NULL, Visited(t, d.key)
             PROVE  \E u \in Ids : disk[u] # NULL /\ \E i \in 1..disk[u].key_num : disk[u].items[i].key = d.key
  BY DEF NoKeyLost
<1>1. begin = 0 /\ Once /\ N \in Nat /\ MaxNew \in Nat
  BY SizesAssumption DEF Clean, Once
<1>2. t \in Ids /\ t \in 0..N - 1
  BY <1>1 DEF Ids
<1>3. OnDisk(t) \/ Removed
  <2>1. (\E k : Untouched(k)) \/ Merging \/ Removed
    BY <1>1, Zenon DEF CInv
  <2> QED
    BY <2>1 DEF Untouched, Merging
\* A file that holds the key in its readable part.
<1>4. ASSUME NEW u \in Ids, disk[u] \in File, disk[u].key_num = Len(disk[u].items),
             NEW y \in ToSet(disk[u].items), y.key = d.key
      PROVE  disk[u] # NULL /\ \E i \in 1..disk[u].key_num : disk[u].items[i].key = d.key
  <2>1. disk[u] # NULL /\ disk[u].items \in Seq(Items)
    BY <1>4, NotNull DEF File
  <2>2. ToSet(disk[u].items) = {disk[u].items[i] : i \in 1..Len(disk[u].items)}
    BY <2>1, ToSetIs
  <2>3. PICK i \in 1..Len(disk[u].items) : disk[u].items[i] = y
    BY <1>4, <2>2
  <2> QED
    BY <1>4, <2>1, <2>3
<1>5. CASE OnDisk(t)
  <2>1. disk[t] \in File /\ disk[t].key_num = Len(disk[t].items) /\ d \in ToSet(disk[t].items)
    BY <1>5 DEF OnDisk
  <2> QED
    BY <1>2, <1>4, <2>1
<1>6. CASE Removed
  <2>1. t \in 0..end
    <3>1. end \in 1..N - 1 /\ ~(t > end)
      BY <1>2, <1>6 DEF Removed, Going
    <3> QED
      BY <1>1, <3>1
  <2>2. PICK x \in ToSet(seen[t]) : x.key = d.key
    BY DEF Visited, Seen
  <2>3. PICK y \in ToSet(Merged) : y.key = d.key
    BY <1>6, <2>1, <2>2 DEF Removed
  <2>4. Outputs
    BY <1>6 DEF Removed
  <2>5. PICK u \in N..current_id - 1 : y \in ToSet(disk[u].items)
    BY <2>3, <2>4, MergedIs
  <2>6. u \in Ids
    BY <1>1, <2>4 DEF Outputs, Ids
  <2>7. disk[u] \in File /\ disk[u].key_num = Len(disk[u].items)
    BY <1>6, <2>4, <2>5 DEF Removed, Outputs
  <2> QED
    BY <1>4, <2>3, <2>5, <2>6, <2>7
<1> QED
  BY <1>3, <1>5, <1>6

\* An item that was seen of a table whose versions are plain was held by it.
LEMMA SeenWasHeld ==
  ASSUME NEW t, held[t] \in Contents, From(t), \A d \in held[t] : Plain(d.version),
         NEW y \in ToSet(seen[t])
  PROVE  y \in held[t]
<1>1. \A d \in held[t] : Reread(d) = d
  <2> SUFFICES ASSUME NEW d \in held[t] PROVE Reread(d) = d
    OBVIOUS
  <2>1. GetLong(d.version) = d.version
    BY DEF Plain
  <2>2. d \in data_t
    BY ContentsAre DEF Items
  <2>3. Reread(d) = [d EXCEPT !.version = d.version]
    BY <2>1, Zenon DEF Reread
  <2>4. [d EXCEPT !.version = d.version] = d
    BY <2>2 DEF data_t
  <2> QED
    BY <2>3, <2>4
<1> QED
  BY <1>1 DEF From

\* What NewestKept calls the latest item is the invariant's Top.
LEMMA CInvNewestKept == CInv => NewestKept
<1> SUFFICES ASSUME CInv, pc \in {"remove", "done"}, current_id > N, Clean,
                    \A t \in begin..end : \A d \in held[t] : Plain(d.version)
             PROVE  \A x \in Inputs :
                      (\A y \in Inputs : y.item.key = x.item.key => y = x \/ Later(x, y))
                        => x.item \in ToSet(Merged)
  BY DEF NewestKept
<1>1. begin = 0 /\ N \in Nat
  BY SizesAssumption DEF Clean
<1>2. Removed /\ Shape
  <2>1. Removed \/ Untouched(0)
    BY <1>1 DEF CInv
  <2>2. ~Untouched(0)
    BY <1>1 DEF Untouched
  <2> QED
    BY <2>1, <2>2 DEF CInv
<1>3. \A t \in 0..end : /\ held[t] \in Contents /\ From(t) /\ seen[t] \in Seq(Items) /\ seen[t] # NULL
                        /\ \A d \in held[t] : Plain(d.version)
  <2> SUFFICES ASSUME NEW t \in 0..end
               PROVE  /\ held[t] \in Contents /\ From(t) /\ seen[t] \in Seq(Items) /\ seen[t] # NULL
                      /\ \A d \in held[t] : Plain(d.version)
    OBVIOUS
  <2>1. t \in 0..N - 1
    BY <1>1, <1>2 DEF Removed, Going
  <2> QED
    BY <1>1, <1>2, <2>1, NotNull DEF Removed, Shape
<1>4. \A t \in 0..end : \A y \in ToSet(seen[t]) : y \in held[t]
  BY <1>3, SeenWasHeld
<1>5. \A t \in 0..end : \A x, y \in held[t] : x.key = y.key => x = y
  BY <1>3, ContentsAre
\* An input was seen, and what was seen is an input.
<1>6. \A x \in Inputs : x.table \in 0..end /\ x.item \in ToSet(seen[x.table])
  <2> SUFFICES ASSUME NEW x \in Inputs PROVE x.table \in 0..end /\ x.item \in ToSet(seen[x.table])
    OBVIOUS
  <2>1. x.table \in 0..end /\ x.item \in held[x.table] /\ Visited(x.table, x.item.key)
    BY <1>1 DEF Inputs
  <2>2. PICK y \in ToSet(seen[x.table]) : y.key = x.item.key
    BY <2>1 DEF Visited, Seen
  <2>3. y = x.item
    BY <1>4, <1>5, <2>1, <2>2
  <2> QED
    BY <2>1, <2>2, <2>3
<1>7. \A t \in 0..end : \A y \in ToSet(seen[t]) : [item |-> y, table |-> t] \in Inputs
  <2> SUFFICES ASSUME NEW t \in 0..end, NEW y \in ToSet(seen[t])
               PROVE  [item |-> y, table |-> t] \in Inputs
    OBVIOUS
  <2>1. y \in held[t] /\ t \in begin..end
    BY <1>1, <1>4
  <2>2. Visited(t, y.key)
    BY <1>3 DEF Visited, Seen
  <2>3. y \in UNION {held[u] : u \in begin..end}
    BY <2>1
  <2>4. [item |-> y, table |-> t] \in [item : UNION {held[u] : u \in begin..end}, table : begin..end]
    BY <2>1, <2>3
  <2>5. PICK z : z = [item |-> y, table |-> t]
    OBVIOUS
  <2>6. z.item = y /\ z.table = t
    BY <2>5
  <2>7. z \in Inputs
    BY <2>1, <2>2, <2>4, <2>5, <2>6 DEF Inputs
  <2> QED
    BY <2>5, <2>7
<1>8. ASSUME NEW x \in Inputs, \A y \in Inputs : y.item.key = x.item.key => y = x \/ Later(x, y)
      PROVE  x.item \in ToSet(Merged)
  <2> DEFINE t == x.table
             d == x.item
  <2>1. t \in 0..end /\ d \in ToSet(seen[t])
    BY <1>6
  <2>2. Top(d, t)
    <3> SUFFICES ASSUME NEW u \in 0..end, NEW y \in ToSet(seen[u]), y.key = d.key
                 PROVE  \/ y = d /\ u = t
                        \/ Newer(d.version, y.version)
                        \/ d.version = y.version /\ t > u
      BY DEF Top
    <3>1. [item |-> y, table |-> u] \in Inputs
      BY <1>7
    <3>2. [item |-> y, table |-> u] = x \/ Later(x, [item |-> y, table |-> u])
      BY <1>8, <3>1
    <3> QED
      BY <3>2 DEF Later
  <2>3. Top(d, t) => d \in ToSet(Merged)
    BY <1>2, <2>1 DEF Removed
  <2> QED
    BY <2>2, <2>3
<1> QED
  BY <1>8

-----------------------------------------------------------------------------
(* The inductive invariant holds through sstmanager_compact                *)
(* (sstmanager.c:402-468), up to the process death that may stop it.       *)
THEOREM Invariance == Spec => []CInv
<1> QED
  BY InitCInv, NextKeepsCInv, PTL DEF Spec

(* Of tables that hashtable_nextdata gave without repetition the merge     *)
(* writes one strictly increasing sequence, in tables of at most max items *)
(* (sstmanager.c:346-400), for any contents and any number of tables.      *)
THEOREM MergedInOrderHolds == Spec => []MergedInOrder
<1> QED
  BY Invariance, CInvMergedInOrder, PTL

(* findsmallest keeps of every visited key the item of the greatest        *)
(* version, of equal ones that of the latest table (sstmanager.c:371-385). *)
THEOREM NewestKeptHolds == Spec => []NewestKept
<1> QED
  BY Invariance, CInvNewestKept, PTL

(* Wherever sstmanager_compact stops, a visited key is in the readable     *)
(* part of a file: an old table is removed only when the new ones have     *)
(* their heads (sstmanager.c:460-461).                                     *)
THEOREM NoKeyLostHolds == Spec => []NoKeyLost
<1> QED
  BY Invariance, CInvNoKeyLost, PTL
=================================================================================
