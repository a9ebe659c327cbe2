-------------------------- MODULE BloomFilterProofs --------------------------
(* Proofs about Murmur for data of any length, cut into any pieces at any   *)
(* addresses, on every platform; then about the filters, for any number of  *)
(* keys, filters and saves and any sizes whose bits an int can count.       *)
EXTENDS BloomFilter, BufferProofs, SequenceTheorems, TLAPS

\* The k-th block of four bytes of the data.
BlockOf(k) == [j \in 1..4 |-> 4 * (k - 1) + j]

\* What has been mixed in and what waits in the carry are together the bytes
\* taken so far, in order.
Taken ==
  /\ \A k \in 1..Len(h1) : h1[k] = BlockOf(k)
  /\ ptr = 4 * Len(h1) + n
  /\ \A j \in 1..n : c[4 - n + j] = 4 * Len(h1) + j

\* The leading bytes end where blocks may begin: with an empty carry where
\* words are read anywhere, else at an aligned address.  A piece too short to
\* get there has no block.
Missing == IF unaligned THEN (4 - n) % 4 ELSE (4 - addr) % 4

Leading ==
  /\ pc = "lead" => \/ todo = Missing /\ todo <= len
                    \/ todo = 0 /\ len < 4
  /\ pc = "blocks" => 4 * todo <= len
  /\ pc = "blocks" /\ todo > 0 => IF unaligned THEN n = 0 ELSE addr = 0
  /\ pc = "tail" => todo = len

HashInv == HashTypeOK /\ Taken /\ Leading

-----------------------------------------------------------------------------
\* Division by 4, as the prover needs it told.
LEMMA Quarter ==
  ASSUME NEW q \in Nat, NEW r \in 0..3
  PROVE  (4 * q + r) \div 4 = q /\ (4 * q + r) % 4 = r
OBVIOUS

LEMMA Wholes ==
  ASSUME NEW l \in Nat
  PROVE  l \div 4 \in Nat /\ 4 * (l \div 4) <= l /\ (l < 4 => l \div 4 = 0)
OBVIOUS

\* How far a position is from the next multiple of 4.
LEMMA Distance ==
  ASSUME NEW r \in 0..3
  PROVE  /\ (4 - r) % 4 = IF r = 0 THEN 0 ELSE 4 - r
         /\ (r + 1) % 4 = IF r = 3 THEN 0 ELSE r + 1
BY r \in {0, 1, 2, 3}

LEMMA InitHashInv == HashInit => HashInv
<1> SUFFICES ASSUME HashInit PROVE HashInv
  OBVIOUS
<1>1. unaligned \in BOOLEAN
  <2>1. \A p \in Platforms : UNALIGNED_SAFE(p) \in BOOLEAN
    BY DEF UNALIGNED_SAFE
  <2>2. PICK p \in Platforms : unaligned = UNALIGNED_SAFE(p)
    BY DEF HashInit
  <2> QED
    BY <2>1, <2>2
<1>2. HashTypeOK
  BY <1>1 DEF HashInit, HashTypeOK, Empty
<1>3. Taken /\ Leading
  BY DEF HashInit, Taken, Leading
<1> QED
  BY <1>2, <1>3 DEF HashInv

\* A block appended behind the others.
LEMMA AppendBlock ==
  ASSUME HashTypeOK, Taken, NEW word \in [1..4 -> Nat \cup {NoByte}],
         word = BlockOf(Len(h1) + 1)
  PROVE  /\ Append(h1, word) \in Seq([1..4 -> Nat \cup {NoByte}])
         /\ Len(Append(h1, word)) = Len(h1) + 1
         /\ \A k \in 1..Len(h1) + 1 : Append(h1, word)[k] = BlockOf(k)
BY DEF HashTypeOK, Taken

\* One byte moves from the data into the carry, or completes a block.
LEMMA TakeByteKeeps ==
  ASSUME HashTypeOK, Taken, TakeByte, len > 0, todo > 0
  PROVE  /\ h1' \in Seq([1..4 -> Nat \cup {NoByte}])
         /\ c' \in [1..4 -> Nat \cup {NoByte}] /\ n' \in 0..3
         /\ ptr' \in Nat /\ addr' \in 0..3 /\ len' \in Nat /\ todo' \in Nat
         /\ Taken'
         /\ n' = (n + 1) % 4 /\ addr' = (addr + 1) % 4
         /\ len' = len - 1 /\ todo' = todo - 1
<1> DEFINE word == <<c[2], c[3], c[4], ptr + 1>>
<1>1. /\ ptr' = ptr + 1 /\ addr' = (addr + 1) % 4
      /\ len' = len - 1 /\ todo' = todo - 1
  BY DEF TakeByte
<1>2. /\ ptr' \in Nat /\ addr' \in 0..3 /\ len' \in Nat /\ todo' \in Nat
  BY <1>1 DEF HashTypeOK
<1>3. word \in [1..4 -> Nat \cup {NoByte}]
  BY DEF HashTypeOK
<1>4. CASE n = 3
  <2>1. h1' = Append(h1, word) /\ c' = Empty /\ n' = 0
    BY <1>4 DEF TakeByte, DOBLOCK
  <2>2. word = BlockOf(Len(h1) + 1)
    <3>1. /\ c[2] = 4 * Len(h1) + 1 /\ c[3] = 4 * Len(h1) + 2
          /\ c[4] = 4 * Len(h1) + 3 /\ ptr + 1 = 4 * Len(h1) + 4
      BY <1>4 DEF Taken, HashTypeOK
    <3>2. Len(h1) \in Nat
      BY DEF HashTypeOK
    <3> QED
      BY <3>1, <3>2 DEF BlockOf
  <2>3. /\ h1' \in Seq([1..4 -> Nat \cup {NoByte}]) /\ Len(h1') = Len(h1) + 1
        /\ \A k \in 1..Len(h1') : h1'[k] = BlockOf(k)
    BY <2>1, <2>2, <1>3, AppendBlock
  <2>4. c' \in [1..4 -> Nat \cup {NoByte}] /\ n' \in 0..3 /\ n' = (n + 1) % 4
    BY <2>1, <1>4 DEF Empty
  <2>5. ptr' = 4 * Len(h1') + n' /\ \A j \in 1..n' : c'[4 - n' + j] = 4 * Len(h1') + j
    BY <1>1, <1>4, <2>1, <2>3 DEF Taken, HashTypeOK
  <2> QED
    BY <1>1, <1>2, <2>3, <2>4, <2>5 DEF Taken
<1>5. CASE n # 3
  <2>1. h1' = h1 /\ c' = word /\ n' = n + 1
    BY <1>5 DEF TakeByte
  <2>2. c' \in [1..4 -> Nat \cup {NoByte}] /\ n' \in 0..3 /\ n' = (n + 1) % 4
    <3>1. n \in 0..3 /\ (n + 1) % 4 = n + 1
      BY <1>5, Distance DEF HashTypeOK
    <3> QED
      BY <2>1, <1>3, <1>5, <3>1
  <2>3. \A j \in 1..n' : c'[4 - n' + j] = 4 * Len(h1') + j
    <3>1. /\ c'[1] = c[2] /\ c'[2] = c[3] /\ c'[3] = c[4] /\ c'[4] = ptr + 1
      BY <2>1
    <3>2. n \in {0, 1, 2}
      BY <1>5 DEF HashTypeOK
    <3>3. ptr + 1 = 4 * Len(h1') + n' /\ Len(h1') = Len(h1) /\ Len(h1) \in Nat
      BY <2>1 DEF Taken, HashTypeOK
    <3>4. \A j \in 1..n : c[4 - n + j] = 4 * Len(h1) + j
      BY DEF Taken
    <3>5. CASE n = 0
      BY <2>1, <3>1, <3>3, <3>5
    <3>6. CASE n = 1
      BY <2>1, <3>1, <3>3, <3>4, <3>6
    <3>7. CASE n = 2
      BY <2>1, <3>1, <3>3, <3>4, <3>7
    <3> QED
      BY <3>2, <3>5, <3>6, <3>7
  <2>4. ptr' = 4 * Len(h1') + n'
    BY <1>1, <2>1 DEF Taken, HashTypeOK
  <2> QED
    BY <1>1, <1>2, <2>1, <2>2, <2>3, <2>4 DEF Taken, HashTypeOK
<1> QED
  BY <1>4, <1>5

\* A whole block, with the carry's bytes in front where the carry holds any.
LEMMA NextBlockKeeps ==
  ASSUME HashInv, NextBlock
  PROVE  HashInv'
<1> DEFINE k == IF unaligned THEN 0 ELSE n
           word == [j \in 1..4 |-> IF j <= k THEN c[4 - k + j] ELSE READ_UINT32[j - k]]
<1> USE DEF HashInv
<1>1. /\ pc = "blocks" /\ todo > 0
      /\ h1' = Append(h1, word)
      /\ c' = IF k = 0 THEN c ELSE READ_UINT32
      /\ ptr' = ptr + 4 /\ len' = len - 4 /\ todo' = todo - 1
      /\ UNCHANGED <<unaligned, n, addr, pc>>
  BY DEF NextBlock, DOBLOCK
<1>2. k = n /\ n \in 0..3 /\ Len(h1) \in Nat /\ ptr \in Nat
  BY <1>1 DEF Leading, HashTypeOK
<1> HIDE DEF k
<1>3. word = BlockOf(Len(h1) + 1)
  <2>1. ASSUME NEW j \in 1..4
        PROVE  (IF j <= k THEN c[4 - k + j] ELSE READ_UINT32[j - k]) = 4 * Len(h1) + j
    BY <1>2, <2>1 DEF Taken, READ_UINT32
  <2> QED
    BY <2>1, <1>2 DEF BlockOf
<1>4. word \in [1..4 -> Nat \cup {NoByte}]
  BY <1>2, <1>3 DEF BlockOf
<1> HIDE DEF word
<1>5. /\ h1' \in Seq([1..4 -> Nat \cup {NoByte}]) /\ Len(h1') = Len(h1) + 1
      /\ \A i \in 1..Len(h1') : h1'[i] = BlockOf(i)
  BY <1>1, <1>3, <1>4, AppendBlock
<1>6. c' \in [1..4 -> Nat \cup {NoByte}]
  BY <1>1, <1>2 DEF HashTypeOK, READ_UINT32
<1>7. \A j \in 1..n' : c'[4 - n' + j] = 4 * Len(h1') + j
  BY <1>1, <1>2, <1>5 DEF Taken, READ_UINT32
<1>8. ptr' = 4 * Len(h1') + n'
  BY <1>1, <1>2, <1>5 DEF Taken
<1>9. /\ len' \in Nat /\ todo' \in Nat /\ 4 * todo' <= len'
  BY <1>1 DEF HashTypeOK, Leading
<1>10. HashTypeOK'
  BY <1>1, <1>2, <1>5, <1>6, <1>9 DEF HashTypeOK
<1>11. Taken'
  BY <1>5, <1>7, <1>8 DEF Taken
<1>12. Leading'
  BY <1>1, <1>9 DEF Leading
<1> QED
  BY <1>10, <1>11, <1>12

\* Every step keeps the invariant.
LEMMA NextHashInv == HashInv /\ [HashStep]_hashVars => HashInv'
<1> SUFFICES ASSUME HashInv, [HashStep]_hashVars PROVE HashInv'
  OBVIOUS
<1>1. CASE UNCHANGED hashVars
  BY <1>1 DEF hashVars, HashInv, HashTypeOK, Taken, Leading, Missing
<1>2. ASSUME NEW l \in 0..MaxFed, NEW a \in 0..3, Process(l, a) PROVE HashInv'
  <2>1. Taken'
    BY <1>2 DEF Process, HashInv, Taken
  <2>2. HashTypeOK' /\ Leading'
    BY <1>2, MaxFedAssumption DEF Process, HashInv, HashTypeOK, Leading, Missing
  <2> QED
    BY <2>1, <2>2 DEF HashInv
<1>3. CASE LeadByte
  <2>1. len > 0 /\ todo > 0 /\ TakeByte /\ pc = "lead" /\ UNCHANGED <<unaligned, pc>>
    BY <1>3 DEF LeadByte, HashInv, HashTypeOK, Leading
  <2>2. HashTypeOK' /\ Taken'
    BY <2>1, TakeByteKeeps DEF HashInv, HashTypeOK
  <2>3. n' = (n + 1) % 4 /\ addr' = (addr + 1) % 4 /\ len' = len - 1 /\ todo' = todo - 1
    BY <2>1, TakeByteKeeps DEF HashInv
  <2>4. todo = Missing /\ todo <= len
    BY <2>1 DEF HashInv, Leading
  <2>5. todo' = Missing' /\ todo' <= len'
    <3>1. /\ n \in 0..3 /\ addr \in 0..3 /\ n' \in 0..3 /\ addr' \in 0..3
          /\ todo \in Nat /\ len \in Nat
      BY <2>2 DEF HashInv, HashTypeOK
    <3>2. CASE unaligned
      BY <2>1, <2>3, <2>4, <3>1, <3>2, Distance DEF Missing
    <3>3. CASE ~unaligned
      BY <2>1, <2>3, <2>4, <3>1, <3>3, Distance DEF Missing
    <3> QED
      BY <3>2, <3>3
  <2> QED
    BY <2>1, <2>2, <2>5 DEF HashInv, Leading
<1>4. CASE LeadEnd
  <2>1. HashTypeOK' /\ Taken'
    BY <1>4 DEF LeadEnd, HashInv, HashTypeOK, Taken
  <2>2. Leading'
    <3>1. /\ pc = "lead" /\ todo = 0 /\ pc' = "blocks" /\ todo' = len \div 4
          /\ UNCHANGED <<unaligned, n, addr, len>>
      BY <1>4 DEF LeadEnd
    <3>2. n \in 0..3 /\ addr \in 0..3 /\ len \in Nat
      BY DEF HashInv, HashTypeOK
    <3>3. todo = Missing \/ len < 4
      BY <3>1 DEF HashInv, Leading
    <3>4. len < 4 \/ IF unaligned THEN n = 0 ELSE addr = 0
      BY <3>1, <3>2, <3>3, Distance DEF Missing
    <3> QED
      BY <3>1, <3>2, <3>4, Wholes DEF Leading
  <2> QED
    BY <2>1, <2>2 DEF HashInv
<1>5. CASE NextBlock
  BY <1>5, NextBlockKeeps
<1>6. CASE BlocksEnd
  BY <1>6 DEF BlocksEnd, HashInv, HashTypeOK, Taken, Leading
<1>7. CASE TailByte
  <2>1. len > 0 /\ todo > 0 /\ TakeByte /\ pc = "tail" /\ UNCHANGED <<unaligned, pc>>
    BY <1>7 DEF TailByte, HashInv, HashTypeOK, Leading
  <2>2. HashTypeOK' /\ Taken' /\ len' = len - 1 /\ todo' = todo - 1
    BY <2>1, TakeByteKeeps DEF HashInv, HashTypeOK
  <2> QED
    BY <2>1, <2>2 DEF HashInv, Leading
<1>8. CASE ProcessReturn
  <2>1. Taken'
    <3>1. c' = [c EXCEPT ![1] = NoByte] /\ UNCHANGED <<h1, n, ptr>>
      BY <1>8 DEF ProcessReturn
    <3>2. n \in 0..3 /\ c \in [1..4 -> Nat \cup {NoByte}] /\ Len(h1) \in Nat
      BY DEF HashInv, HashTypeOK
    <3>3. \A j \in 1..n : 4 - n + j \in 2..4 /\ c'[4 - n + j] = c[4 - n + j]
      BY <3>1, <3>2
    <3> QED
      BY <3>1, <3>3 DEF HashInv, Taken
  <2>2. HashTypeOK' /\ Leading'
    BY <1>8 DEF ProcessReturn, HashInv, HashTypeOK, Leading
  <2> QED
    BY <2>1, <2>2 DEF HashInv
<1> QED
  BY <1>1, <1>2, <1>3, <1>4, <1>5, <1>6, <1>7, <1>8 DEF HashStep

LEMMA HashInvariant == HashSpec => []HashInv
BY InitHashInv, NextHashInv, PTL DEF HashSpec

LEMMA HashedAsAtOnce ==
  ASSUME HashInv
  PROVE  SameAsAtOnce
<1>1. /\ Len(h1) \in Nat /\ n \in 0..3 /\ ptr = 4 * Len(h1) + n
      /\ h1 \in Seq([1..4 -> Nat \cup {NoByte}])
  BY DEF HashInv, HashTypeOK, Taken
<1>2. ptr \div 4 = Len(h1) /\ ptr % 4 = n
  BY <1>1, Quarter
<1>3. h1 = [k \in 1..Len(h1) |-> BlockOf(k)]
  BY <1>1 DEF HashInv, Taken
<1>4. [j \in 1..n |-> c[4 - n + j]] = [j \in 1..n |-> 4 * Len(h1) + j]
  BY <1>1 DEF HashInv, Taken
<1> QED
  BY <1>2, <1>3, <1>4 DEF SameAsAtOnce, PMurHash32_Result, AtOnce, BlockOf

\* Between two calls the blocks and the carry give the hash of all the bytes
\* fed, as if they had come in one piece (PMurHash.c:20-23).
THEOREM FeedsAlike == HashSpec => []SameAsAtOnce
BY HashedAsAtOnce, HashInvariant, PTL

\* Where words have to be aligned, every block is read at an aligned address,
\* whatever the addresses of the pieces (PMurHash.c:209-216).
THEOREM ReadsAreAligned == HashSpec => []ReadsAligned
<1>1. HashInv => ReadsAligned
  BY DEF HashInv, Leading, ReadsAligned
<1> QED
  BY <1>1, HashInvariant, PTL

-----------------------------------------------------------------------------
(* The filters.  FilterSpec feeds the hash as HashSpec does. *)

\* No more bytes are fed than a caller has.
FedBound == ptr + len <= MaxFed

\* A filter as create_bfilter makes it, small enough for its numbers to be
\* written as ints.
Shape(f) ==
  /\ f \in bloom_filter
  /\ f.num_buckets = 32 * f.filter_size /\ f.num_buckets <= INT_MAX
  /\ f.bits \subseteq 0..f.num_buckets - 1

\* Filter f answers for every key of S.
Holds(f, S) ==
  \A l \in S : /\ l \in 0..MaxFed /\ f.num_buckets > 0
              /\ HashNumber(AtOnce(l)) % f.num_buckets \in f.bits

FiltersSound ==
  /\ DOMAIN filter = Filters /\ DOMAIN added = Filters
  /\ \A f \in Filters : IF filter[f] = NULL THEN added[f] = {}
                       ELSE Shape(filter[f]) /\ Holds(filter[f], added[f])

\* Where one filter of the buffer ends the next one begins, and each that is
\* read back answers for the keys of the filter that was saved.
SavedSound ==
  /\ IsBuffer(buf) /\ saved \in Seq(SUBSET Nat)
  /\ \E offs \in [1..Len(saved) + 1 -> 0..buf.NUL] :
       /\ offs[1] = buf.SEEK /\ offs[Len(saved) + 1] = buf.NUL
       /\ \A i \in 1..Len(saved) :
            LET f == buffer_getfilter(At(buf, offs[i]))
            IN /\ offs[i + 1] = offs[i] + 8 + 4 * f.filter_size
               /\ Shape(f) /\ Holds(f, saved[i])

FilterInv == FedBound /\ FiltersSound /\ SavedSound

-----------------------------------------------------------------------------
\* The bytes of a filter hold its bits.
LEMMA WordBits ==
  ASSUME NEW f, Shape(f)
  PROVE  /\ WordBytes(f) \in Seq(Byte) /\ Len(WordBytes(f)) = 4 * f.filter_size
         /\ \A i \in 1..4 * f.filter_size, k \in 0..7 :
              (WordBytes(f)[i] \div 2 ^ k) % 2 = 1 <=> 8 * (i - 1) + k \in f.bits
<1>1. /\ 2 ^ 0 = 1 /\ 2 ^ 1 = 2 /\ 2 ^ 2 = 4 /\ 2 ^ 3 = 8
      /\ 2 ^ 4 = 16 /\ 2 ^ 5 = 32 /\ 2 ^ 6 = 64 /\ 2 ^ 7 = 128
  OBVIOUS
<1>2. f.filter_size \in Nat
  BY DEF Shape, bloom_filter
<1>3. ASSUME NEW i \in 1..4 * f.filter_size
      PROVE  /\ WordBytes(f)[i] \in Byte
             /\ \A k \in 0..7 :
                  (WordBytes(f)[i] \div 2 ^ k) % 2 = 1 <=> 8 * (i - 1) + k \in f.bits
  <2> DEFINE In(k) == IF 8 * (i - 1) + k \in f.bits THEN 2 ^ k ELSE 0
             x == WordBytes(f)[i]
  <2>1. x = In(0) + In(1) + In(2) + In(3) + In(4) + In(5) + In(6) + In(7)
    BY DEF WordBytes
  <2>2. /\ In(0) \in {0, 1} /\ In(1) \in {0, 2} /\ In(2) \in {0, 4} /\ In(3) \in {0, 8}
        /\ In(4) \in {0, 16} /\ In(5) \in {0, 32} /\ In(6) \in {0, 64} /\ In(7) \in {0, 128}
    BY <1>1
  <2>3. x \in Nat /\ x <= 255
    <3> HIDE DEF In, x
    <3> QED
      BY <2>1, <2>2
  <2>4. \A k \in 0..7 : (x \div 2 ^ k) % 2 = 1 <=> In(k) = 2 ^ k
    <3> HIDE DEF In, x
    <3>1. ASSUME NEW k, k = 0 PROVE (x \div 2 ^ k) % 2 = 1 <=> In(k) = 2 ^ k
      <4>1. (x \div 1) % 2 = 1 <=> In(0) = 1
        BY <2>1, <2>2
      <4>2. 2 ^ k = 1
        BY <1>1, <3>1
      <4> QED
        BY <4>1, <4>2, <3>1
    <3>2. ASSUME NEW k, k = 1 PROVE (x \div 2 ^ k) % 2 = 1 <=> In(k) = 2 ^ k
      <4>1. (x \div 2) % 2 = 1 <=> In(1) = 2
        BY <2>1, <2>2
      <4>2. 2 ^ k = 2
        BY <1>1, <3>2
      <4> QED
        BY <4>1, <4>2, <3>2
    <3>3. ASSUME NEW k, k = 2 PROVE (x \div 2 ^ k) % 2 = 1 <=> In(k) = 2 ^ k
      <4>1. (x \div 4) % 2 = 1 <=> In(2) = 4
        BY <2>1, <2>2
      <4>2. 2 ^ k = 4
        BY <1>1, <3>3
      <4> QED
        BY <4>1, <4>2, <3>3
    <3>4. ASSUME NEW k, k = 3 PROVE (x \div 2 ^ k) % 2 = 1 <=> In(k) = 2 ^ k
      <4>1. (x \div 8) % 2 = 1 <=> In(3) = 8
        BY <2>1, <2>2
      <4>2. 2 ^ k = 8
        BY <1>1, <3>4
      <4> QED
        BY <4>1, <4>2, <3>4
    <3>5. ASSUME NEW k, k = 4 PROVE (x \div 2 ^ k) % 2 = 1 <=> In(k) = 2 ^ k
      <4>1. (x \div 16) % 2 = 1 <=> In(4) = 16
        BY <2>1, <2>2
      <4>2. 2 ^ k = 16
        BY <1>1, <3>5
      <4> QED
        BY <4>1, <4>2, <3>5
    <3>6. ASSUME NEW k, k = 5 PROVE (x \div 2 ^ k) % 2 = 1 <=> In(k) = 2 ^ k
      <4>1. (x \div 32) % 2 = 1 <=> In(5) = 32
        BY <2>1, <2>2
      <4>2. 2 ^ k = 32
        BY <1>1, <3>6
      <4> QED
        BY <4>1, <4>2, <3>6
    <3>7. ASSUME NEW k, k = 6 PROVE (x \div 2 ^ k) % 2 = 1 <=> In(k) = 2 ^ k
      <4>1. (x \div 64) % 2 = 1 <=> In(6) = 64
        BY <2>1, <2>2
      <4>2. 2 ^ k = 64
        BY <1>1, <3>7
      <4> QED
        BY <4>1, <4>2, <3>7
    <3>8. ASSUME NEW k, k = 7 PROVE (x \div 2 ^ k) % 2 = 1 <=> In(k) = 2 ^ k
      <4>1. (x \div 128) % 2 = 1 <=> In(7) = 128
        BY <2>1, <2>2
      <4>2. 2 ^ k = 128
        BY <1>1, <3>8
      <4> QED
        BY <4>1, <4>2, <3>8
    <3> QED
      BY <3>1, <3>2, <3>3, <3>4, <3>5, <3>6, <3>7, <3>8
  <2>5. \A k \in 0..7 : In(k) = 2 ^ k <=> 8 * (i - 1) + k \in f.bits
    <3>1. ASSUME NEW k \in 0..7 PROVE 2 ^ k # 0
      <4>1. k = 0 => 2 ^ k = 1
        BY <1>1
      <4>2. k = 1 => 2 ^ k = 2
        BY <1>1
      <4>3. k = 2 => 2 ^ k = 4
        BY <1>1
      <4>4. k = 3 => 2 ^ k = 8
        BY <1>1
      <4>5. k = 4 => 2 ^ k = 16
        BY <1>1
      <4>6. k = 5 => 2 ^ k = 32
        BY <1>1
      <4>7. k = 6 => 2 ^ k = 64
        BY <1>1
      <4>8. k = 7 => 2 ^ k = 128
        BY <1>1
      <4> QED
        BY <4>1, <4>2, <4>3, <4>4, <4>5, <4>6, <4>7, <4>8
    <3> QED
      BY <3>1
  <2>6. x \in Byte
    BY <2>3 DEF Byte
  <2>7. \A k \in 0..7 : (x \div 2 ^ k) % 2 = 1 <=> 8 * (i - 1) + k \in f.bits
    <3> HIDE DEF In, x
    <3> QED
      BY <2>4, <2>5, Zenon
  <2> QED
    BY <2>6, <2>7, Zenon
<1>4. WordBytes(f) \in [1..4 * f.filter_size -> Byte]
  BY <1>3 DEF WordBytes
<1>5. WordBytes(f) \in Seq(Byte) /\ Len(WordBytes(f)) = 4 * f.filter_size
  BY <1>2, <1>4, FunctionIsSeq
<1> QED
  BY <1>3, <1>5

LEMMA ShapeNumbers ==
  ASSUME NEW f, Shape(f)
  PROVE  /\ f.filter_size \in Nat /\ f.num_buckets \in Nat
         /\ f.num_buckets = 32 * f.filter_size
         /\ f.num_buckets <= INT_MAX /\ f.filter_size <= INT_MAX
<1>1. /\ f.filter_size \in Nat /\ f.num_buckets \in Nat
      /\ f.num_buckets = 32 * f.filter_size /\ f.num_buckets <= INT_MAX
  BY DEF Shape, bloom_filter
<1>2. INT_MAX \in Nat
  BY SMT DEF INT_MAX
<1> QED
  BY <1>1, <1>2

\* Bit x of a filter whose bytes lie 8 behind SEEK.
BitAt(b, x) == (b.buf[b.SEEK + 8 + (x \div 8 + 1)] \div 2 ^ (x % 8)) % 2 = 1

LEMMA GetFilter ==
  ASSUME NEW b, IsBuffer(b), NEW size \in Nat, buffer_getint(b) = size,
         b.SEEK + 8 + 4 * size <= Len(b.buf)
  PROVE  buffer_getfilter(b) =
           [filter_size |-> size, num_buckets |-> buffer_getint(Skip(b, 4)),
            bits |-> {x \in 0..32 * size - 1 : BitAt(b, x)}]
<1> DEFINE bytes == buffer_getnstr(Skip(b, 8), 4 * size)
<1>1. /\ IsBuffer(Skip(b, 8)) /\ Skip(b, 8).buf = b.buf /\ Skip(b, 8).SEEK = b.SEEK + 8
      /\ 4 * size \in Nat /\ b.SEEK \in Nat
  BY SkipIsBuffer DEF IsBuffer, Readable
<1>2. \A i \in 1..4 * size : bytes[i] = b.buf[b.SEEK + 8 + i]
  <2>1. Skip(b, 8).SEEK + 4 * size <= Len(Skip(b, 8).buf)
    BY <1>1
  <2>2. \A i \in 1..4 * size : bytes[i] = Skip(b, 8).buf[Skip(b, 8).SEEK + i]
    BY <1>1, <2>1, GetBytes, Zenon DEF IsBuffer
  <2> QED
    BY <1>1, <2>2, Zenon
<1>3. buffer_getfilter(b) =
        [filter_size |-> size, num_buckets |-> buffer_getint(Skip(b, 4)),
         bits |-> {x \in 0..32 * size - 1 : (bytes[x \div 8 + 1] \div 2 ^ (x % 8)) % 2 = 1}]
  BY DEF buffer_getfilter
<1> HIDE DEF bytes
<1>4. \A x \in 0..32 * size - 1 : bytes[x \div 8 + 1] = b.buf[b.SEEK + 8 + (x \div 8 + 1)]
  <2>1. \A x \in 0..32 * size - 1 : x \div 8 + 1 \in 1..4 * size
    OBVIOUS
  <2> QED
    BY <1>2, <2>1, Zenon
<1>5. {x \in 0..32 * size - 1 : (bytes[x \div 8 + 1] \div 2 ^ (x % 8)) % 2 = 1}
        = {x \in 0..32 * size - 1 : BitAt(b, x)}
  BY <1>4, Zenon DEF BitAt
<1> QED
  BY <1>3, <1>5, Zenon

\* The bytes of f lie at SEEK.
Encoded(b, f) ==
  /\ b.SEEK + 8 + 4 * f.filter_size <= Len(b.buf)
  /\ \A i \in 1..4 : b.buf[b.SEEK + i] = IntBytes(f.filter_size)[i]
  /\ \A i \in 1..4 : b.buf[b.SEEK + 4 + i] = IntBytes(f.num_buckets)[i]
  /\ \A i \in 1..4 * f.filter_size : b.buf[b.SEEK + 8 + i] = WordBytes(f)[i]

\* A filter is read back as it was written.
LEMMA ReadsWritten ==
  ASSUME NEW b, IsBuffer(b), NEW f, Shape(f), Encoded(b, f)
  PROVE  buffer_getfilter(b) = f
<1> DEFINE size == f.filter_size
<1>1. /\ size \in Nat /\ size <= INT_MAX /\ f.num_buckets = 32 * size
      /\ f.num_buckets \in Nat /\ f.num_buckets <= INT_MAX
  BY ShapeNumbers
<1>2. f.bits \subseteq 0..32 * size - 1
  BY <1>1 DEF Shape
<1>3. b.buf \in Seq(Byte) /\ b.SEEK \in Nat /\ Len(b.buf) \in Nat
  BY DEF IsBuffer, Readable
<1>4. b.SEEK + 8 + 4 * size <= Len(b.buf)
  BY Zenon DEF Encoded
<1>5. buffer_getint(b) = size
  <2>1. b.SEEK + 4 <= Len(b.buf)
    <3>1. size \in Nat /\ b.SEEK \in Nat /\ Len(b.buf) \in Nat /\ b.SEEK + 8 + 4 * size <= Len(b.buf)
      BY <1>1, <1>3, <1>4, Zenon
    <3> HIDE DEF size
    <3> QED
      BY <3>1
  <2>2. \A i \in 1..4 : b.buf[b.SEEK + i] = IntBytes(size)[i]
    BY Zenon DEF Encoded
  <2> QED
    BY <1>1, <2>1, <2>2, IntReadBack, Zenon DEF IsBuffer
<1>6. buffer_getint(Skip(b, 4)) = f.num_buckets
  <2>1. /\ IsBuffer(Skip(b, 4)) /\ Skip(b, 4).buf = b.buf /\ Skip(b, 4).SEEK = b.SEEK + 4
    BY SkipIsBuffer
  <2>2. \A i \in 1..4 : b.buf[b.SEEK + 4 + i] = IntBytes(f.num_buckets)[i]
    BY Zenon DEF Encoded
  <2>3. b.SEEK + 4 + 4 <= Len(b.buf)
    <3>1. size \in Nat /\ b.SEEK \in Nat /\ Len(b.buf) \in Nat /\ b.SEEK + 8 + 4 * size <= Len(b.buf)
      BY <1>1, <1>3, <1>4, Zenon
    <3> HIDE DEF size
    <3> QED
      BY <3>1
  <2> QED
    BY <1>1, <2>1, <2>2, <2>3, IntReadBack, Zenon DEF IsBuffer
<1>7. {x \in 0..32 * size - 1 : BitAt(b, x)} = f.bits
  <2>1. ASSUME NEW x \in 0..32 * size - 1
        PROVE  BitAt(b, x) <=> x \in f.bits
    <3>1. /\ x \div 8 + 1 \in 1..4 * size /\ x % 8 \in 0..7
          /\ 8 * ((x \div 8 + 1) - 1) + (x % 8) = x
      BY <1>1
    <3>2. b.buf[b.SEEK + 8 + (x \div 8 + 1)] = WordBytes(f)[x \div 8 + 1]
      BY <3>1, Zenon DEF Encoded
    <3>3. (WordBytes(f)[x \div 8 + 1] \div 2 ^ (x % 8)) % 2 = 1
            <=> 8 * ((x \div 8 + 1) - 1) + (x % 8) \in f.bits
      BY <3>1, WordBits, Zenon
    <3> QED
      BY <3>1, <3>2, <3>3, Zenon DEF BitAt
  <2> HIDE DEF size
  <2> QED
    BY <1>2, <2>1, Zenon
<1>8. buffer_getfilter(b) = [filter_size |-> size, num_buckets |-> f.num_buckets, bits |-> f.bits]
  <2> HIDE DEF size
  <2> QED
    BY <1>1, <1>4, <1>5, <1>6, <1>7, GetFilter, Zenon
<1>9. f = [filter_size |-> size, num_buckets |-> f.num_buckets, bits |-> f.bits]
  BY DEF Shape, bloom_filter
<1> QED
  BY <1>8, <1>9, Zenon

\* What is written behind a filter does not change it.
LEMMA ReadsAsBefore ==
  ASSUME NEW b, IsBuffer(b), NEW b2, IsBuffer(b2), Continues(b, b2), b2.SEEK = b.SEEK,
         NEW size \in Nat, buffer_getfilter(b).filter_size = size,
         b.SEEK + 8 + 4 * size <= Len(b.buf)
  PROVE  buffer_getfilter(b2) = buffer_getfilter(b)
<1> DEFINE i == b.SEEK
<1>1. i \in Nat /\ b2.SEEK = i /\ Len(b.buf) \in Nat /\ Len(b2.buf) \in Nat
  BY DEF IsBuffer, Readable
<1>2. i + 8 + 4 * size <= Len(b.buf)
  OBVIOUS
<1> HIDE DEF i
<1>3. /\ i + 4 <= Len(b.buf) /\ i + 4 + 4 <= Len(b.buf)
      /\ i + 4 <= Len(b2.buf) /\ i + 4 + 4 <= Len(b2.buf) /\ i + 8 + 4 * size <= Len(b2.buf)
  <2>1. Len(b.buf) <= Len(b2.buf)
    BY DEF Continues
  <2> QED
    BY <1>1, <1>2, <2>1
<1>4. \A k \in 1..8 + 4 * size : b2.buf[i + k] = b.buf[i + k]
  <2>1. \A k \in 1..8 + 4 * size : i + k \in 1..Len(b.buf)
    BY <1>1, <1>2
  <2> QED
    BY <2>1, Zenon DEF Continues
<1>5. buffer_getint(b2) = buffer_getint(b)
  <2>1. b2.buf[i + 1] = b.buf[i + 1] /\ b2.buf[i + 2] = b.buf[i + 2]
        /\ b2.buf[i + 3] = b.buf[i + 3] /\ b2.buf[i + 4] = b.buf[i + 4]
    BY <1>4
  <2>2. buffer_getint(b) = IntAt(b.buf, i)
    BY <1>3, GetInt, Zenon DEF i, IsBuffer
  <2>3. buffer_getint(b2) = IntAt(b2.buf, i)
    BY <1>1, <1>3, GetInt, Zenon DEF IsBuffer
  <2> QED
    BY <2>1, <2>2, <2>3, Zenon DEF IntAt
<1>6. buffer_getint(Skip(b2, 4)) = buffer_getint(Skip(b, 4))
  <2>1. /\ IsBuffer(Skip(b, 4)) /\ Skip(b, 4).buf = b.buf /\ Skip(b, 4).SEEK = i + 4
    BY SkipIsBuffer DEF i
  <2>2. /\ IsBuffer(Skip(b2, 4)) /\ Skip(b2, 4).buf = b2.buf /\ Skip(b2, 4).SEEK = i + 4
    BY <1>1, SkipIsBuffer
  <2>3. /\ b2.buf[i + 4 + 1] = b.buf[i + 4 + 1] /\ b2.buf[i + 4 + 2] = b.buf[i + 4 + 2]
        /\ b2.buf[i + 4 + 3] = b.buf[i + 4 + 3] /\ b2.buf[i + 4 + 4] = b.buf[i + 4 + 4]
    <3>1. \A k \in 1..4 : 4 + k \in 1..8 + 4 * size /\ i + 4 + k = i + (4 + k)
      BY <1>1
    <3> QED
      BY <1>4, <3>1
  <2>4. buffer_getint(Skip(b, 4)) = IntAt(b.buf, i + 4)
    BY <1>3, <2>1, GetInt, Zenon DEF IsBuffer
  <2>5. buffer_getint(Skip(b2, 4)) = IntAt(b2.buf, i + 4)
    BY <1>3, <2>2, GetInt, Zenon DEF IsBuffer
  <2> QED
    BY <2>3, <2>4, <2>5, Zenon DEF IntAt
<1>7. size = buffer_getint(b)
  BY DEF buffer_getfilter
<1>8. {x \in 0..32 * size - 1 : BitAt(b2, x)} = {x \in 0..32 * size - 1 : BitAt(b, x)}
  <2>1. ASSUME NEW x \in 0..32 * size - 1
        PROVE  b2.buf[i + 8 + (x \div 8 + 1)] = b.buf[i + 8 + (x \div 8 + 1)]
    <3>1. /\ 8 + (x \div 8 + 1) \in 1..8 + 4 * size
          /\ i + 8 + (x \div 8 + 1) = i + (8 + (x \div 8 + 1))
      BY <1>1
    <3> QED
      BY <1>4, <3>1, Zenon
  <2> QED
    BY <1>1, <2>1, Zenon DEF BitAt, i
<1>9. buffer_getfilter(b) =
        [filter_size |-> size, num_buckets |-> buffer_getint(Skip(b, 4)),
         bits |-> {x \in 0..32 * size - 1 : BitAt(b, x)}]
  BY <1>7, GetFilter, Zenon
<1>10. buffer_getfilter(b2) =
         [filter_size |-> size, num_buckets |-> buffer_getint(Skip(b2, 4)),
          bits |-> {x \in 0..32 * size - 1 : BitAt(b2, x)}]
  BY <1>1, <1>3, <1>5, <1>7, GetFilter, Zenon
<1> QED
  BY <1>6, <1>8, <1>9, <1>10, Zenon

\* A filter is appended to the buffer, to be read from where the buffer ended.
LEMMA PutFilter ==
  ASSUME NEW b, IsBuffer(b), NEW f, Shape(f)
  PROVE  LET b2 == buffer_putfilter(b, f)
         IN /\ IsBuffer(b2) /\ b2.SEEK = b.SEEK /\ b2.NUL = b.NUL + 8 + 4 * f.filter_size
            /\ Continues(b, b2) /\ buffer_getfilter(At(b2, b.NUL)) = f
<1> DEFINE l == f.filter_size * 4 + 8
           b0 == IF l > b.buflen THEN buffer_extendby(b, l + EXTEND) ELSE b
           i1 == IntBytes(f.filter_size)
           i2 == IntBytes(f.num_buckets)
           w == WordBytes(f)
           b1 == buffer_putint(b0, f.filter_size)
           bb == buffer_putint(b1, f.num_buckets)
           b2 == buffer_putfilter(b, f)
<1>1. /\ i1 \in Seq(Byte) /\ Len(i1) = 4 /\ i2 \in Seq(Byte) /\ Len(i2) = 4
      /\ w \in Seq(Byte) /\ Len(w) = 4 * f.filter_size
  <2>1. i1 \in Seq(Byte) /\ Len(i1) = 4
    BY ShapeNumbers, IntBytesLength
  <2>2. i2 \in Seq(Byte) /\ Len(i2) = 4
    BY ShapeNumbers, IntBytesLength
  <2>3. w \in Seq(Byte) /\ Len(w) = 4 * f.filter_size
    BY WordBits, Zenon
  <2> QED
    BY <2>1, <2>2, <2>3, Zenon
<1>2. IsBuffer(b0) /\ b0.buf = b.buf /\ b0.SEEK = b.SEEK
  <2>1. CASE l > b.buflen
    BY <2>1, ExtendKeeps
  <2>2. CASE ~(l > b.buflen)
    BY <2>2
  <2> QED
    BY <2>1, <2>2
<1>3. IsBuffer(b1) /\ b1.buf = b0.buf \o i1 /\ b1.SEEK = b0.SEEK
  <2> HIDE DEF b0
  <2> QED
    BY <1>1, <1>2, ExtendedBytes DEF buffer_putint
<1>4. IsBuffer(bb) /\ bb.buf = b1.buf \o i2 /\ bb.SEEK = b1.SEEK
  <2> HIDE DEF b1
  <2> QED
    BY <1>1, <1>3, ExtendedBytes DEF buffer_putint
<1>5. IsBuffer(b2) /\ b2.buf = bb.buf \o w /\ b2.SEEK = bb.SEEK
  <2>1. b2 = buffer_putnstr(bb, w)
    BY DEF buffer_putfilter
  <2> HIDE DEF bb, b2, w
  <2>2. b2 = Appended(buffer_extendby(bb, Len(w) + 1), w)
    BY <2>1 DEF buffer_putnstr
  <2> QED
    BY <1>1, <1>4, <2>2, ExtendedBytes DEF w
<1> HIDE DEF l, b0, i1, i2, w, b1, bb, b2
<1>6. /\ b.buf \in Seq(Byte) /\ b.NUL = Len(b.buf) /\ b2.NUL = Len(b2.buf)
      /\ f.filter_size \in Nat
  BY <1>5, ShapeNumbers DEF IsBuffer, Readable
<1>7. b2.buf = ((b.buf \o i1) \o i2) \o w /\ b2.SEEK = b.SEEK
  BY <1>2, <1>3, <1>4, <1>5
<1>8. /\ Len(b2.buf) = Len(b.buf) + Len(i1) + Len(i2) + Len(w)
      /\ \A i \in 1..Len(b.buf) : b2.buf[i] = b.buf[i]
      /\ \A i \in 1..Len(i1) : b2.buf[Len(b.buf) + i] = i1[i]
      /\ \A i \in 1..Len(i2) : b2.buf[Len(b.buf) + Len(i1) + i] = i2[i]
      /\ \A i \in 1..Len(w) : b2.buf[Len(b.buf) + Len(i1) + Len(i2) + i] = w[i]
  <2> DEFINE s == b.buf
             x == b2.buf
  <2>1. s \in Seq(Byte) /\ i1 \in Seq(Byte) /\ i2 \in Seq(Byte) /\ w \in Seq(Byte)
    BY <1>1, <1>6
  <2>2. x = ((s \o i1) \o i2) \o w
    BY <1>7
  <2> HIDE DEF s, x
  <2>3. /\ Len(x) = Len(s) + Len(i1) + Len(i2) + Len(w)
        /\ \A i \in 1..Len(s) : x[i] = s[i]
        /\ \A i \in 1..Len(i1) : x[Len(s) + i] = i1[i]
        /\ \A i \in 1..Len(i2) : x[Len(s) + Len(i1) + i] = i2[i]
        /\ \A i \in 1..Len(w) : x[Len(s) + Len(i1) + Len(i2) + i] = w[i]
    BY <2>1, <2>2
  <2> QED
    BY <2>3, Zenon DEF s, x
<1>9. Len(b.buf) \in Nat /\ b2.NUL = b.NUL + 8 + 4 * f.filter_size
  BY <1>1, <1>6, <1>8
<1>10. Continues(b, b2)
  <2>1. b.NUL \in Nat /\ b.NUL <= b2.NUL
    <3>1. b.NUL \in Nat
      BY <1>6, <1>9, Zenon
    <3> QED
      BY <1>6, <1>9, <3>1
  <2>2. Len(b.buf) <= Len(b2.buf)
    BY <1>6, <2>1, Zenon
  <2> QED
    BY <1>8, <2>2, Zenon DEF Continues
<1>11. buffer_getfilter(At(b2, b.NUL)) = f
  <2>1. /\ IsBuffer(At(b2, b.NUL)) /\ At(b2, b.NUL).buf = b2.buf /\ At(b2, b.NUL).SEEK = b.NUL
    BY <1>5, <1>6, <1>9, AtIsBuffer
  <2>2. \A i \in 1..4 : b2.buf[b.NUL + i] = i1[i]
    BY <1>1, <1>6, <1>8
  <2>3. \A i \in 1..4 : b2.buf[b.NUL + 4 + i] = i2[i]
    BY <1>1, <1>6, <1>8
  <2>4. \A i \in 1..4 * f.filter_size : b2.buf[b.NUL + 8 + i] = w[i]
    <3>1. \A i \in 1..4 * f.filter_size : b2.buf[Len(b.buf) + 4 + 4 + i] = w[i]
      BY <1>1, <1>8
    <3>2. \A i \in 1..4 * f.filter_size : Len(b.buf) + 4 + 4 + i = b.NUL + 8 + i
      BY <1>6, <1>9
    <3> QED
      BY <3>1, <3>2
  <2>5. b.NUL + 8 + 4 * f.filter_size <= Len(b2.buf)
    BY <1>6, <1>9
  <2>6. Encoded(At(b2, b.NUL), f)
    BY <2>1, <2>2, <2>3, <2>4, <2>5 DEF Encoded, i1, i2, w
  <2> QED
    BY <2>1, <2>6, ReadsWritten
<1> QED
  BY <1>5, <1>7, <1>9, <1>10, <1>11 DEF b2

-----------------------------------------------------------------------------
(* The invariant of the filters. *)

LEMMA FedBoundKept == HashInv /\ FedBound /\ [HashStep]_hashVars => FedBound'
<1> SUFFICES ASSUME HashInv, FedBound, [HashStep]_hashVars PROVE FedBound'
  OBVIOUS
<1>1. ptr \in Nat /\ len \in Nat /\ MaxFed \in Nat
  BY MaxFedAssumption DEF HashInv, HashTypeOK
<1> QED
  BY <1>1 DEF FedBound, HashStep, Process, LeadByte, LeadEnd, NextBlock, BlocksEnd, TailByte,
              ProcessReturn, TakeByte, hashVars

LEMMA InitFilterInv == FilterInit => FilterInv
<1> SUFFICES ASSUME FilterInit PROVE FilterInv
  OBVIOUS
<1>1. FedBound
  BY MaxFedAssumption DEF FilterInit, HashInit, FedBound
<1>2. FiltersSound
  BY DEF FilterInit, FiltersSound
<1>3. SavedSound
  <2>1. buf = [buf |-> <<>>, SEEK |-> 0, NUL |-> 0, buflen |-> 0] /\ saved = <<>>
    BY DEF FilterInit, buffer_new
  <2>2. IsBuffer(buf) /\ buf.SEEK = 0 /\ buf.NUL = 0
    BY <2>1 DEF IsBuffer, Readable
  <2>3. saved \in Seq(SUBSET Nat) /\ Len(saved) = 0
    BY <2>1
  <2> DEFINE offs == [i \in 1..Len(saved) + 1 |-> 0]
  <2>4. offs \in [1..Len(saved) + 1 -> 0..buf.NUL] /\ offs[1] = buf.SEEK
        /\ offs[Len(saved) + 1] = buf.NUL
    BY <2>2, <2>3
  <2>5. 1..Len(saved) = {}
    BY <2>3
  <2> HIDE DEF offs
  <2> QED
    BY <2>2, <2>3, <2>4, <2>5 DEF SavedSound
<1> QED
  BY <1>1, <1>2, <1>3 DEF FilterInv

\* A step that changes one filter, or what it was given, leaves the others sound.
LEMMA OneFilterChanged ==
  ASSUME FiltersSound, NEW f \in Filters, DOMAIN filter' = Filters, DOMAIN added' = Filters,
         \A g \in Filters \ {f} : filter'[g] = filter[g] /\ added'[g] = added[g],
         IF filter'[f] = NULL THEN added'[f] = {}
         ELSE Shape(filter'[f]) /\ Holds(filter'[f], added'[f])
  PROVE  FiltersSound'
BY DEF FiltersSound, Shape, Holds

LEMMA NewFilterShape ==
  ASSUME NEW size \in Sizes
  PROVE  Shape(create_bfilter(size))
<1> DEFINE words == size \div 32 + (IF (size % 4) * 8 # 0 THEN 1 ELSE 0)
<1>1. INT_MAX \in Nat /\ size \in Nat /\ size + 32 <= INT_MAX
  <2>1. INT_MAX \in Nat
    BY SMT DEF INT_MAX
  <2> QED
    BY <2>1, FilterSizeAssumption
<1>2. words \in Nat /\ words * 32 <= INT_MAX /\ words * 32 = 32 * words
  <2>1. size \div 32 \in Nat /\ 32 * (size \div 32) <= size
    BY <1>1
  <2> QED
    BY <1>1, <2>1
<1>3. create_bfilter(size) = [filter_size |-> words, num_buckets |-> words * 32, bits |-> {}]
  BY DEF create_bfilter
<1> HIDE DEF words
<1> QED
  BY <1>2, <1>3 DEF Shape, bloom_filter

LEMMA CreateKeeps ==
  ASSUME FilterInv, NEW f \in Filters, NEW size \in Sizes, Create(f, size)
  PROVE  FiltersSound'
<1>1. Shape(create_bfilter(size)) /\ create_bfilter(size) # NULL
  BY NewFilterShape, NoFilterAssumption DEF Shape
<1>2. added[f] = {} /\ DOMAIN filter = Filters /\ DOMAIN added = Filters
  BY DEF Create, FilterInv, FiltersSound
<1>3. /\ filter' = [filter EXCEPT ![f] = create_bfilter(size)] /\ added' = added
  BY DEF Create
<1>4. Holds(create_bfilter(size), {})
  BY DEF Holds
<1> QED
  BY <1>1, <1>2, <1>3, <1>4, OneFilterChanged DEF FilterInv

LEMMA AddKeeps ==
  ASSUME HashInv, FilterInv, pc = "idle", NEW f \in Filters, Add(f)
  PROVE  FiltersSound'
<1> DEFINE g == filter[f]
           input == HashNumber(PMurHash32_Result(ptr))
<1>1. /\ Shape(g) /\ Holds(g, added[f]) /\ DOMAIN filter = Filters /\ DOMAIN added = Filters
  BY DEF Add, FilterInv, FiltersSound
<1>2. CASE g.num_buckets = 0
  <2>1. UNCHANGED <<filter, added>>
    BY <1>2 DEF Add
  <2> QED
    BY <2>1 DEF FilterInv, FiltersSound
<1>3. CASE g.num_buckets # 0
  <2>1. /\ filter' = [filter EXCEPT ![f] = bfilter_add(@, input)]
        /\ added' = [added EXCEPT ![f] = @ \cup {ptr}]
    BY <1>3 DEF Add
  <2>2. input = HashNumber(AtOnce(ptr)) /\ ptr \in 0..MaxFed
    <3>1. PMurHash32_Result(ptr) = AtOnce(ptr)
      BY HashedAsAtOnce DEF SameAsAtOnce
    <3>2. ptr \in Nat /\ len \in Nat /\ ptr + len <= MaxFed
      BY DEF HashInv, HashTypeOK, FilterInv, FedBound
    <3> QED
      BY <3>1, <3>2, MaxFedAssumption
  <2>3. input \in Nat
    BY <2>2, HashNumberAssumption
  <2> DEFINE m == g.num_buckets
             new == bfilter_add(g, input)
  <2>4. m \in Nat /\ m > 0
    BY <1>1, <1>3, ShapeNumbers
  <2>5. input % m \in 0..m - 1
    <3> HIDE DEF input, m
    <3> QED
      BY <2>3, <2>4
  <2>6. /\ new = [g EXCEPT !.bits = @ \cup {input % m}] /\ g \in bloom_filter
    BY <1>1 DEF bfilter_add, SETBIT, Shape
  <2>7. new \in bloom_filter /\ new.num_buckets = m /\ new.filter_size = g.filter_size
        /\ new.bits = g.bits \cup {input % m}
    <3> HIDE DEF input, new, g, m
    <3>1. input % m \in Nat
      BY <2>4, <2>5
    <3> QED
      BY <2>6, <3>1 DEF bloom_filter, m
  <2> HIDE DEF new
  <2>8. Shape(new)
    BY <1>1, <2>5, <2>7 DEF Shape
  <2>9. Holds(new, added[f] \cup {ptr})
    BY <1>1, <2>2, <2>4, <2>7 DEF Holds
  <2>10. filter'[f] = new /\ added'[f] = added[f] \cup {ptr} /\ new # NULL
    BY <1>1, <2>1, <2>7, NoFilterAssumption DEF new
  <2>11. /\ DOMAIN filter' = Filters /\ DOMAIN added' = Filters
         /\ \A h \in Filters \ {f} : filter'[h] = filter[h] /\ added'[h] = added[h]
    BY <1>1, <2>1
  <2> QED
    BY <2>8, <2>9, <2>10, <2>11, OneFilterChanged DEF FilterInv
<1> QED
  BY <1>2, <1>3

LEMMA IntersectKeeps ==
  ASSUME FilterInv, NEW f \in Filters, NEW g \in Filters, Intersect(f, g)
  PROVE  FiltersSound'
<1> DEFINE a == filter[f]
           b == filter[g]
           new == [a EXCEPT !.bits = @ \cup b.bits]
<1>1. /\ Shape(a) /\ Holds(a, added[f]) /\ Shape(b) /\ Holds(b, added[g])
      /\ a.filter_size = b.filter_size /\ DOMAIN filter = Filters /\ DOMAIN added = Filters
  BY DEF Intersect, FilterInv, FiltersSound
<1>2. /\ filter' = [filter EXCEPT ![f].bits = @ \cup filter[g].bits]
      /\ added' = [added EXCEPT ![f] = @ \cup added[g]]
  BY DEF Intersect
<1>3. filter'[f] = new /\ added'[f] = added[f] \cup added[g]
      /\ DOMAIN filter' = Filters /\ DOMAIN added' = Filters
      /\ \A h \in Filters \ {f} : filter'[h] = filter[h] /\ added'[h] = added[h]
  BY <1>1, <1>2
<1>4. /\ new \in bloom_filter /\ new.num_buckets = a.num_buckets
      /\ new.filter_size = a.filter_size /\ new.bits = a.bits \cup b.bits
  <2>1. a \in bloom_filter /\ b \in bloom_filter
    BY <1>1 DEF Shape
  <2> HIDE DEF a, b
  <2> QED
    BY <2>1 DEF bloom_filter
<1>5. b.num_buckets = a.num_buckets
  BY <1>1, ShapeNumbers
<1> HIDE DEF a, b, new
<1>6. Shape(new)
  BY <1>1, <1>4, <1>5 DEF Shape
<1>7. Holds(new, added[f] \cup added[g])
  BY <1>1, <1>4, <1>5 DEF Holds
<1>8. new # NULL
  BY <1>4, NoFilterAssumption
<1> QED
  BY <1>3, <1>6, <1>7, <1>8, OneFilterChanged DEF FilterInv

LEMMA DestroyKeeps ==
  ASSUME FilterInv, NEW f \in Filters, Destroy(f)
  PROVE  FiltersSound'
<1>1. /\ filter' = [filter EXCEPT ![f] = NULL] /\ added' = [added EXCEPT ![f] = {}]
      /\ DOMAIN filter = Filters /\ DOMAIN added = Filters
  BY DEF Destroy, FilterInv, FiltersSound
<1> QED
  BY <1>1, OneFilterChanged DEF FilterInv

LEMMA SavedUnchanged ==
  ASSUME SavedSound, UNCHANGED <<buf, saved>>
  PROVE  SavedSound'
BY Zenon DEF SavedSound

\* A filter is saved behind the ones that are in the buffer.
LEMMA SaveKeeps ==
  ASSUME FilterInv, NEW f \in Filters, Save(f)
  PROVE  SavedSound'
<1> DEFINE g == filter[f]
           k == Len(saved)
<1>1. /\ Shape(g) /\ Holds(g, added[f]) /\ buf' = buffer_putfilter(buf, g)
      /\ saved' = Append(saved, added[f]) /\ IsBuffer(buf)
  BY DEF Save, FilterInv, FiltersSound, SavedSound
<1>2. PICK offs \in [1..k + 1 -> 0..buf.NUL] :
        /\ offs[1] = buf.SEEK /\ offs[k + 1] = buf.NUL
        /\ \A i \in 1..k :
             LET h == buffer_getfilter(At(buf, offs[i]))
             IN /\ offs[i + 1] = offs[i] + 8 + 4 * h.filter_size
                /\ Shape(h) /\ Holds(h, saved[i])
  BY Zenon DEF FilterInv, SavedSound
<1>3. /\ IsBuffer(buf') /\ buf'.SEEK = buf.SEEK /\ buf'.NUL = buf.NUL + 8 + 4 * g.filter_size
      /\ Continues(buf, buf') /\ buffer_getfilter(At(buf', buf.NUL)) = g
  <2> HIDE DEF g
  <2> QED
    BY <1>1, PutFilter, Zenon
<1>4. /\ added[f] \in SUBSET Nat /\ saved \in Seq(SUBSET Nat) /\ k \in Nat
  BY <1>1 DEF Holds, FilterInv, SavedSound
<1>5. /\ saved' \in Seq(SUBSET Nat) /\ Len(saved') = k + 1 /\ saved'[k + 1] = added[f]
      /\ \A i \in 1..k : saved'[i] = saved[i]
  BY <1>1, <1>4
<1>6. /\ g.filter_size \in Nat /\ buf.NUL \in Nat /\ buf'.NUL \in Nat /\ buf.NUL <= buf'.NUL
  <2>1. g.filter_size \in Nat
    BY <1>1, ShapeNumbers
  <2>2. buf.NUL \in Nat
    BY <1>1 DEF IsBuffer, Readable
  <2> HIDE DEF g
  <2> QED
    BY <1>3, <2>1, <2>2
<1> DEFINE offs2 == [i \in 1..k + 2 |-> IF i = k + 2 THEN buf'.NUL ELSE offs[i]]
<1> HIDE DEF g, k
<1>7. /\ offs2 \in [1..Len(saved') + 1 -> 0..buf'.NUL]
      /\ offs2[k + 2] = buf'.NUL /\ \A i \in 1..k + 1 : offs2[i] = offs[i]
  <2>1. Len(saved') + 1 = k + 2
    BY <1>4, <1>5
  <2>2. \A i \in 1..k + 2 : i # k + 2 => i \in 1..k + 1
    BY <1>4
  <2>3. \A i \in 1..k + 1 : offs[i] \in 0..buf'.NUL
    BY <1>6
  <2>4. \A i \in 1..k + 1 : i \in 1..k + 2 /\ i # k + 2
    BY <1>4
  <2>5. buf'.NUL \in 0..buf'.NUL /\ k + 2 \in 1..k + 2
    BY <1>4, <1>6
  <2> QED
    BY <2>1, <2>2, <2>3, <2>4, <2>5
<1>8. ASSUME NEW i \in 1..k + 1
      PROVE  LET h == buffer_getfilter(At(buf', offs2[i]))
             IN /\ offs2[i + 1] = offs2[i] + 8 + 4 * h.filter_size
                /\ Shape(h) /\ Holds(h, saved'[i])
  <2>1. CASE i = k + 1
    <3>1. offs2[i] = buf.NUL /\ offs2[i + 1] = buf.NUL + 8 + 4 * g.filter_size
      <4>1. i + 1 = k + 2
        BY <1>4, <2>1
      <4> QED
        BY <1>2, <1>3, <1>7, <2>1, <4>1
    <3> HIDE DEF offs2
    <3> QED
      BY <1>1, <1>3, <1>5, <2>1, <3>1, Zenon DEF g
  <2>2. CASE i # k + 1
    <3> DEFINE o == offs[i]
               a == At(buf, o)
               a2 == At(buf', o)
               h == buffer_getfilter(a)
    <3>1. i \in 1..k /\ i + 1 \in 1..k + 1
      BY <1>4, <2>2
    <3>2. /\ offs[i + 1] = o + 8 + 4 * h.filter_size
          /\ Shape(h) /\ Holds(h, saved[i])
      BY <1>2, <3>1, Zenon
    <3>3. o \in Nat /\ offs[i + 1] \in Nat /\ offs[i + 1] <= buf.NUL
      BY <1>2, <1>6, <3>1
    <3>4. h.filter_size \in Nat
      <4> HIDE DEF h
      <4> QED
        BY <3>2, ShapeNumbers
    <3>5. /\ IsBuffer(a) /\ a.buf = buf.buf /\ a.SEEK = o
      <4> HIDE DEF o
      <4> QED
        BY <1>1, <3>3, AtIsBuffer
    <3>6. /\ IsBuffer(a2) /\ a2.buf = buf'.buf /\ a2.SEEK = o
      <4> HIDE DEF o
      <4> QED
        BY <1>3, <3>3, AtIsBuffer
    <3>7. Continues(a, a2) /\ a2.SEEK = a.SEEK
      <4> HIDE DEF a, a2, o
      <4> QED
        BY <1>3, <3>5, <3>6, Zenon DEF Continues
    <3>8. a.SEEK + 8 + 4 * h.filter_size <= Len(a.buf)
      <4>1. o + 8 + 4 * h.filter_size <= buf.NUL /\ buf.NUL = Len(buf.buf)
        BY <1>1, <3>2, <3>3 DEF IsBuffer, Readable
      <4> HIDE DEF a, o, h
      <4> QED
        BY <3>5, <4>1, Zenon
    <3>9. buffer_getfilter(a2) = h
      <4> HIDE DEF a, a2
      <4> QED
        BY <3>4, <3>5, <3>6, <3>7, <3>8, ReadsAsBefore
    <3>10. offs2[i] = o /\ offs2[i + 1] = offs[i + 1] /\ saved'[i] = saved[i]
      BY <1>5, <1>7, <3>1, Zenon
    <3> HIDE DEF offs2, h, o
    <3> QED
      BY <3>2, <3>9, <3>10, Zenon
  <2> QED
    BY <2>1, <2>2
<1>9. offs2[1] = buf'.SEEK /\ offs2[Len(saved') + 1] = buf'.NUL
  <2>1. 1 \in 1..k + 1 /\ Len(saved') + 1 = k + 2
    BY <1>4, <1>5
  <2> QED
    BY <1>2, <1>3, <1>7, <2>1
<1>10. 1..Len(saved') = 1..k + 1
  BY <1>5
<1> HIDE DEF offs2
<1> QED
  BY <1>3, <1>5, <1>7, <1>8, <1>9, <1>10, Zenon DEF SavedSound

\* The first filter of the buffer is the first that was saved.
LEMMA LoadReads ==
  ASSUME FilterInv, NEW f \in Filters, Load(f)
  PROVE  FiltersSound' /\ SavedSound'
<1> DEFINE k == Len(saved)
           g == buffer_getfilter(buf)
<1>1. PICK offs \in [1..k + 1 -> 0..buf.NUL] :
        /\ offs[1] = buf.SEEK /\ offs[k + 1] = buf.NUL
        /\ \A i \in 1..k :
             LET h == buffer_getfilter(At(buf, offs[i]))
             IN /\ offs[i + 1] = offs[i] + 8 + 4 * h.filter_size
                /\ Shape(h) /\ Holds(h, saved[i])
  BY Zenon DEF FilterInv, SavedSound
<1>2. /\ IsBuffer(buf) /\ saved \in Seq(SUBSET Nat) /\ k \in Nat
      /\ buf.SEEK \in Nat /\ buf.NUL \in Nat /\ buf.SEEK < buf.NUL
  BY DEF FilterInv, SavedSound, IsBuffer, Readable, Load
<1>3. /\ filter' = [filter EXCEPT ![f] = g] /\ buf' = Skip(buf, 8 + 4 * buffer_getint(buf))
      /\ added' = [added EXCEPT ![f] = saved[1]] /\ saved' = Tail(saved)
  BY DEF Load
<1>4. k >= 1
  <2>1. k = 0 => offs[1] = offs[k + 1]
    BY <1>2
  <2> QED
    BY <1>1, <1>2, <2>1
<1> HIDE DEF k
<1>5. /\ offs[2] = buf.SEEK + 8 + 4 * g.filter_size
      /\ Shape(g) /\ Holds(g, saved[1])
  <2> DEFINE a == At(buf, buf.SEEK)
             h == buffer_getfilter(a)
  <2>1. 1 \in 1..k /\ 1 + 1 = 2 /\ 2 \in 1..k + 1
    BY <1>2, <1>4
  <2>2. /\ offs[2] = buf.SEEK + 8 + 4 * h.filter_size /\ Shape(h) /\ Holds(h, saved[1])
    BY <1>1, <2>1, Zenon
  <2>3. IsBuffer(a) /\ a.buf = buf.buf /\ a.SEEK = buf.SEEK
    BY <1>2, AtIsBuffer
  <2>4. Continues(a, buf)
    <3>1. Len(buf.buf) <= Len(buf.buf)
      BY <1>2 DEF IsBuffer, Readable
    <3> HIDE DEF a
    <3> QED
      BY <2>3, <3>1, Zenon DEF Continues
  <2>5. h.filter_size \in Nat
    <3> HIDE DEF h
    <3> QED
      BY <2>2, ShapeNumbers
  <2>6. a.SEEK + 8 + 4 * h.filter_size <= Len(a.buf)
    <3>1. offs[2] \in 0..buf.NUL /\ buf.NUL = Len(buf.buf)
      BY <1>1, <1>2, <2>1 DEF IsBuffer, Readable
    <3>2. buf.SEEK + 8 + 4 * h.filter_size <= Len(buf.buf)
      <4> HIDE DEF h
      <4> QED
        BY <1>2, <2>2, <3>1
    <3> HIDE DEF a, h
    <3> QED
      BY <2>3, <3>2, Zenon
  <2>7. g = h
    <3> HIDE DEF a
    <3> QED
      BY <1>2, <2>3, <2>4, <2>5, <2>6, ReadsAsBefore
  <2> HIDE DEF g, h
  <2> QED
    BY <2>2, <2>7, Zenon
<1>6. buffer_getint(buf) = g.filter_size /\ g.filter_size \in Nat
  <2>1. buffer_getint(buf) = g.filter_size
    BY DEF buffer_getfilter
  <2> HIDE DEF g
  <2> QED
    BY <1>5, <2>1, ShapeNumbers
<1> HIDE DEF g
<1>7. FiltersSound'
  <2>1. DOMAIN filter = Filters /\ DOMAIN added = Filters /\ FiltersSound
    BY DEF FilterInv, FiltersSound
  <2>2. /\ filter'[f] = g /\ added'[f] = saved[1]
        /\ DOMAIN filter' = Filters /\ DOMAIN added' = Filters
        /\ \A h \in Filters \ {f} : filter'[h] = filter[h] /\ added'[h] = added[h]
    BY <1>3, <2>1
  <2>3. g # NULL
    BY <1>5, NoFilterAssumption DEF Shape
  <2> QED
    BY <1>5, <2>1, <2>2, <2>3, OneFilterChanged
<1>8. SavedSound'
  <2>1. /\ IsBuffer(buf') /\ buf'.buf = buf.buf /\ buf'.NUL = buf.NUL /\ buf'.SEEK = offs[2]
    <3>1. 8 + 4 * g.filter_size \in Nat
      BY <1>6
    <3>2. buf' = Skip(buf, 8 + 4 * g.filter_size)
      BY <1>3, <1>6
    <3>3. buf.SEEK + (8 + 4 * g.filter_size) = offs[2]
      BY <1>2, <1>5, <1>6
    <3> QED
      BY <1>2, <3>1, <3>2, <3>3, SkipIsBuffer
  <2>2. /\ saved' \in Seq(SUBSET Nat) /\ Len(saved') = k - 1
        /\ \A i \in 1..k - 1 : saved'[i] = saved[i + 1]
    BY <1>2, <1>3, <1>4 DEF k
  <2>3. \A o : At(buf', o) = At(buf, o)
    BY <1>3 DEF At, Skip
  <2> DEFINE offs2 == [i \in 1..k |-> offs[i + 1]]
  <2>4. /\ offs2 \in [1..Len(saved') + 1 -> 0..buf'.NUL]
        /\ \A i \in 1..k : offs2[i] = offs[i + 1]
    <3>1. Len(saved') + 1 = k /\ \A i \in 1..k : i + 1 \in 1..k + 1
      BY <1>2, <2>2
    <3> QED
      BY <2>1, <3>1
  <2>5. offs2[1] = buf'.SEEK /\ offs2[Len(saved') + 1] = buf'.NUL
    <3>1. 1 \in 1..k /\ k \in 1..k /\ Len(saved') + 1 = k /\ 1 + 1 = 2
      BY <1>2, <1>4, <2>2
    <3> QED
      BY <1>1, <2>1, <2>4, <3>1, Zenon
  <2>6. ASSUME NEW i \in 1..Len(saved')
        PROVE  LET h == buffer_getfilter(At(buf', offs2[i]))
               IN /\ offs2[i + 1] = offs2[i] + 8 + 4 * h.filter_size
                  /\ Shape(h) /\ Holds(h, saved'[i])
    <3>1. i \in 1..k - 1 /\ i \in 1..k /\ i + 1 \in 1..k
      BY <1>2, <2>2
    <3>2. offs2[i] = offs[i + 1] /\ offs2[i + 1] = offs[(i + 1) + 1] /\ saved'[i] = saved[i + 1]
      BY <2>2, <2>4, <3>1, Zenon
    <3> HIDE DEF offs2
    <3> QED
      BY <1>1, <2>3, <3>1, <3>2, Zenon
  <2> HIDE DEF offs2
  <2> QED
    BY <2>1, <2>2, <2>4, <2>5, <2>6, Zenon DEF SavedSound
<1> QED
  BY <1>7, <1>8

LEMMA NextFilterInv ==
  HashInv /\ FilterInv /\ [FilterNext]_<<hashVars, filterVars>> => HashInv' /\ FilterInv'
<1> SUFFICES ASSUME HashInv, FilterInv, [FilterNext]_<<hashVars, filterVars>>
             PROVE  HashInv' /\ FilterInv'
  OBVIOUS
<1>1. [HashStep]_hashVars
  BY DEF FilterNext
<1>2. HashInv' /\ FedBound'
  BY <1>1, NextHashInv, FedBoundKept DEF FilterInv
<1>3. FiltersSound' /\ SavedSound'
  <2>1. CASE UNCHANGED filterVars
    <3>1. UNCHANGED <<filter, added>> /\ UNCHANGED <<buf, saved>>
      BY <2>1 DEF filterVars
    <3>2. FiltersSound'
      BY <3>1 DEF FilterInv, FiltersSound
    <3> QED
      BY <3>1, <3>2, SavedUnchanged DEF FilterInv
  <2>2. ASSUME pc = "idle", NEW f \in Filters, NEW size \in Sizes, Create(f, size)
        PROVE  FiltersSound' /\ SavedSound'
    <3>1. UNCHANGED <<buf, saved>>
      BY <2>2 DEF Create
    <3> QED
      BY <2>2, <3>1, CreateKeeps, SavedUnchanged DEF FilterInv
  <2>3. ASSUME pc = "idle", NEW f \in Filters, Add(f)
        PROVE  FiltersSound' /\ SavedSound'
    <3>1. UNCHANGED <<buf, saved>>
      BY <2>3 DEF Add
    <3> QED
      BY <2>3, <3>1, AddKeeps, SavedUnchanged DEF FilterInv
  <2>4. ASSUME pc = "idle", NEW f \in Filters, NEW g \in Filters, Intersect(f, g)
        PROVE  FiltersSound' /\ SavedSound'
    <3>1. UNCHANGED <<buf, saved>>
      BY <2>4 DEF Intersect
    <3> QED
      BY <2>4, <3>1, IntersectKeeps, SavedUnchanged DEF FilterInv
  <2>5. ASSUME pc = "idle", NEW f \in Filters, Save(f)
        PROVE  FiltersSound' /\ SavedSound'
    <3>1. FiltersSound'
      BY <2>5 DEF Save, FilterInv, FiltersSound
    <3> QED
      BY <2>5, <3>1, SaveKeeps
  <2>6. ASSUME pc = "idle", NEW f \in Filters, Load(f)
        PROVE  FiltersSound' /\ SavedSound'
    BY <2>6, LoadReads
  <2>7. ASSUME pc = "idle", NEW f \in Filters, Destroy(f)
        PROVE  FiltersSound' /\ SavedSound'
    <3>1. UNCHANGED <<buf, saved>>
      BY <2>7 DEF Destroy
    <3> QED
      BY <2>7, <3>1, DestroyKeeps, SavedUnchanged DEF FilterInv
  <2> QED
    BY <2>1, <2>2, <2>3, <2>4, <2>5, <2>6, <2>7 DEF FilterNext, FilterStep
<1> QED
  BY <1>2, <1>3 DEF FilterInv

\* The filters leave the hash computation alone: what is proved of HashSpec holds beside them.
LEMMA FiltersFeedTheHash == FilterSpec => HashSpec
<1>1. FilterInit => HashInit
  BY DEF FilterInit
<1>2. [FilterNext]_<<hashVars, filterVars>> => [HashStep]_hashVars
  BY DEF FilterNext
<1> QED
  BY <1>1, <1>2, PTL DEF FilterSpec, HashSpec

\* A filter never denies a key it was given: whatever pieces the key was hashed
\* in, and whatever the filter was merged with, saved and loaded since, the bit
\* that bfilter_check reads is set (tinybloom.c:56-77, buffer.c:149-159, 263-279).
THEOREM KeysFound == FilterSpec => []KeysAreFound
<1>1. FilterInit => HashInv /\ FilterInv
  BY InitHashInv, InitFilterInv DEF FilterInit
<1>2. ASSUME FilterInv PROVE KeysAreFound
  BY <1>2 DEF KeysAreFound, FilterInv, FiltersSound, Holds, bfilter_check, GETBIT
<1> QED
  BY <1>1, <1>2, NextFilterInv, PTL DEF FilterSpec
=============================================================================
