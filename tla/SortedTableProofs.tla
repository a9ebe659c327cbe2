--------------------------- MODULE SortedTableProofs ---------------------------
(* Proofs about SortedTable for any keys, hashes, versions and capacities:    *)
(* what a put and a sort do to the array, that the bytes of a complete file   *)
(* are those of its items, and that a search of the array finds its key.      *)
EXTENDS SortedTable, BufferProofs, FiniteSetTheorems

-----------------------------------------------------------------------------
(* The bytes of an item. *)

\* p lies behind place off of s.
Part(s, off, p) == off + Len(p) <= Len(s) /\ \A i \in 1..Len(p) : s[off + i] = p[i]

ItemAt(s, off, d) ==
  /\ Part(s, off, IntBytes(Len(d.key) + Len(d.value)))
  /\ Part(s, off + 4, IntBytes(Len(d.key)))
  /\ Part(s, off + 8, IntBytes(Len(d.value)))
  /\ Part(s, off + 12, <<TypeByte(d.type)>>)
  /\ Part(s, off + 13, d.version)
  /\ Part(s, off + 21, d.key)
  /\ Part(s, off + 21 + Len(d.key), d.value)

\* The item as it is read back.
Reread(d) == [d EXCEPT !.version = GetLong(@)]

LEMMA PartNew ==
  ASSUME NEW s \in Seq(Byte), NEW p \in Seq(Byte)
  PROVE  Part(s \o p, Len(s), p)
BY DEF Part

LEMMA PartKept ==
  ASSUME NEW s \in Seq(Byte), NEW t \in Seq(Byte), NEW off \in Nat, NEW p \in Seq(Byte),
         Part(s, off, p)
  PROVE  Part(s \o t, off, p)
<1>1. off + Len(p) <= Len(s) /\ \A i \in 1..Len(p) : s[off + i] = p[i]
  BY DEF Part
<1>2. \A i \in 1..Len(p) : off + i \in 1..Len(s)
  BY <1>1
<1>3. Len(s \o t) = Len(s) + Len(t) /\ \A i \in 1..Len(s) : (s \o t)[i] = s[i]
  OBVIOUS
<1>4. off + Len(p) <= Len(s \o t)
  BY <1>1, <1>3
<1>5. \A i \in 1..Len(p) : (s \o t)[off + i] = p[i]
  BY <1>1, <1>2, <1>3
<1> QED
  BY <1>4, <1>5 DEF Part

LEMMA PartBehind ==
  ASSUME NEW s \in Seq(Byte), NEW t \in Seq(Byte), NEW off \in Nat, NEW p \in Seq(Byte),
         Part(s, off, p)
  PROVE  Part(t \o s, Len(t) + off, p)
<1>1. off + Len(p) <= Len(s) /\ \A i \in 1..Len(p) : s[off + i] = p[i]
  BY DEF Part
<1>2. \A i \in 1..Len(p) : off + i \in 1..Len(s)
  BY <1>1
<1>3. Len(t \o s) = Len(t) + Len(s) /\ \A i \in 1..Len(s) : (t \o s)[Len(t) + i] = s[i]
  OBVIOUS
<1>4. Len(t) + off + Len(p) <= Len(t \o s)
  BY <1>1, <1>3
<1>5. \A i \in 1..Len(p) : (t \o s)[Len(t) + off + i] = p[i]
  <2>1. \A i \in 1..Len(p) : Len(t) + off + i = Len(t) + (off + i)
    OBVIOUS
  <2> QED
    BY <1>1, <1>2, <1>3, <2>1
<1> QED
  BY <1>4, <1>5 DEF Part

\* What Skip and the reading functions make of a part.
LEMMA ReadPart ==
  ASSUME NEW b, Readable(b), NEW k \in Nat, NEW p \in Seq(Byte), Part(b.buf, b.SEEK + k, p)
  PROVE  buffer_getnstr(Skip(b, k), Len(p)) = p
<1>1. b.buf \in Seq(Byte) /\ b.SEEK \in Nat /\ Skip(b, k).buf = b.buf /\ Skip(b, k).SEEK = b.SEEK + k
  BY DEF Readable, Skip
<1>2. b.SEEK + k + Len(p) <= Len(b.buf) /\ \A i \in 1..Len(p) : b.buf[b.SEEK + k + i] = p[i]
  BY DEF Part
<1> DEFINE s == b.buf
           off == b.SEEK + k
<1>3. s \in Seq(Byte) /\ off \in Nat /\ off + Len(p) <= Len(s) /\ \A i \in 1..Len(p) : s[off + i] = p[i]
  BY <1>1, <1>2
<1>4. buffer_getnstr(Skip(b, k), Len(p)) = SubSeq(s, off + 1, off + Len(p))
  BY <1>1 DEF buffer_getnstr
<1> HIDE DEF s, off
<1>5. SubSeq(s, off + 1, off + Len(p)) = p
  <2>1. SubSeq(s, off + 1, off + Len(p)) \in Seq(Byte)
    BY <1>3
  <2>2. Len(SubSeq(s, off + 1, off + Len(p))) = Len(p)
    BY <1>3
  <2>3. \A i \in 1..Len(p) : SubSeq(s, off + 1, off + Len(p))[i] = p[i]
    <3>1. \A i \in 1..Len(p) : SubSeq(s, off + 1, off + Len(p))[i] = s[off + i]
      BY <1>3, Slice
    <3> QED
      BY <1>3, <3>1
  <2> QED
    BY <2>1, <2>2, <2>3, SeqEqual
<1> QED
  BY <1>4, <1>5

LEMMA SkipReadable ==
  ASSUME NEW b, Readable(b), NEW k \in Nat
  PROVE  Readable(Skip(b, k)) /\ Skip(b, k).buf = b.buf /\ Skip(b, k).SEEK = b.SEEK + k
BY DEF Readable, Skip

LEMMA ReadInt ==
  ASSUME NEW b, Readable(b), NEW k \in Nat, NEW val \in Nat, val <= INT_MAX,
         Part(b.buf, b.SEEK + k, IntBytes(val))
  PROVE  buffer_getint(Skip(b, k)) = val
<1>1. Len(IntBytes(val)) = 4
  BY IntBytesLength
<1>2. b.SEEK + k + 4 <= Len(b.buf) /\ \A i \in 1..4 : b.buf[b.SEEK + k + i] = IntBytes(val)[i]
  BY <1>1 DEF Part
<1>3. Readable(Skip(b, k)) /\ Skip(b, k).buf = b.buf /\ Skip(b, k).SEEK = b.SEEK + k
  BY SkipReadable
<1>4. /\ Skip(b, k).SEEK + 4 <= Len(Skip(b, k).buf)
      /\ \A i \in 1..4 : Skip(b, k).buf[Skip(b, k).SEEK + i] = IntBytes(val)[i]
  BY <1>2, <1>3, Zenon
<1> QED
  BY <1>3, <1>4, IntReadBack, Zenon

\* What is known of an item that is put.
LEMMA ItemFacts ==
  ASSUME NEW d \in Items
  PROVE  /\ d \in Records
         /\ d.key \in Keys /\ d.value \in Values /\ d.type \in {"s", "d"}
         /\ d.key \in Seq(Byte) /\ d.value \in Seq(Byte) /\ d.version \in [1..8 -> Byte]
         /\ d.version \in Seq(Byte) /\ Len(d.version) = 8
         /\ Len(d.key) \in Nat /\ Len(d.value) \in Nat
         /\ Len(d.key) + Len(d.value) <= INT_MAX
         /\ Len(d.key) <= INT_MAX /\ Len(d.value) <= INT_MAX
<1>1. PICK k \in Keys, v \in Values, t \in {"s", "d"}, now \in Times : d = create_data(k, v, t, now)
  BY DEF Items
<1>2. /\ d.key = k /\ d.value = v /\ d.type = t /\ d.version = now /\ d.hash_value = Hash[k]
      /\ d = [key |-> k, value |-> v, type |-> t, version |-> now, hash_value |-> Hash[k]]
  BY <1>1 DEF create_data
<1>3. now \in [1..8 -> Byte] /\ Hash[k] \in Nat
  BY TimesAssumption, HashAssumption
<1>4. d \in Records
  BY <1>2, <1>3 DEF Records, data_t
<1>5. \A s \in Seq(Byte \ {0}) : s \in Seq(Byte) /\ Len(s) \in Nat
  <2>1. Byte \ {0} \subseteq Byte
    OBVIOUS
  <2> QED
    BY <2>1, SeqMonotonic, LenProperties
<1>6. k \in Seq(Byte) /\ v \in Seq(Byte) /\ Len(k) \in Nat /\ Len(v) \in Nat
  BY <1>5, StringAssumption
<1>7. Len(k) + Len(v) <= INT_MAX
  BY IntAssumption
<1>8. INT_MAX \in Nat
  BY SMT DEF INT_MAX
<1>9. Len(k) <= INT_MAX /\ Len(v) <= INT_MAX
  BY <1>6, <1>7, <1>8
<1>10. now \in Seq(Byte) /\ Len(now) = 8
  BY <1>3, FunctionIsSeq
<1> QED
  BY <1>2, <1>3, <1>4, <1>6, <1>7, <1>9, <1>10

\* b holds w behind s, which it held before.
Grown(s, b, w) == IsBuffer(b) /\ s \in Seq(Byte) /\ w \in Seq(Byte) /\ b.buf = s \o w

LEMMA PutBytes ==
  ASSUME NEW s, NEW b, NEW w, Grown(s, b, w), NEW p \in Seq(Byte), NEW l
  PROVE  Grown(s, Appended(buffer_extendby(b, l), p), w \o p)
<1> DEFINE b2 == Appended(buffer_extendby(b, l), p)
<1>1. IsBuffer(b) /\ s \in Seq(Byte) /\ w \in Seq(Byte) /\ b.buf = s \o w
  BY DEF Grown
<1>2. IsBuffer(b2) /\ b2.buf = b.buf \o p
  BY <1>1, ExtendedBytes
<1> HIDE DEF b2
<1>3. (s \o w) \o p = s \o (w \o p) /\ w \o p \in Seq(Byte)
  BY <1>1, ConcatAssociative, ConcatProperties
<1>4. Grown(s, b2, w \o p)
  BY <1>1, <1>2, <1>3 DEF Grown
<1> QED
  BY <1>4 DEF b2

\* One more part behind those that s has.
LEMMA MoreParts ==
  ASSUME NEW s \in Seq(Byte), NEW p \in Seq(Byte)
  PROVE  /\ s \o p \in Seq(Byte) /\ Len(s \o p) = Len(s) + Len(p)
         /\ Part(s \o p, Len(s), p)
         /\ \A off \in Nat, q \in Seq(Byte) : Part(s, off, q) => Part(s \o p, off, q)
BY PartNew, PartKept, ConcatProperties

LEMMA ItemParts ==
  ASSUME NEW d \in Items
  PROVE  /\ IntBytes(Len(d.key) + Len(d.value)) \in Seq(Byte)
         /\ Len(IntBytes(Len(d.key) + Len(d.value))) = 4
         /\ IntBytes(Len(d.key)) \in Seq(Byte) /\ Len(IntBytes(Len(d.key))) = 4
         /\ IntBytes(Len(d.value)) \in Seq(Byte) /\ Len(IntBytes(Len(d.value))) = 4
         /\ <<TypeByte(d.type)>> \in Seq(Byte) /\ Len(<<TypeByte(d.type)>>) = 1
         /\ d.version \in Seq(Byte) /\ Len(d.version) = 8
         /\ d.key \in Seq(Byte) /\ d.value \in Seq(Byte)
<1> DEFINE kl == Len(d.key)
           vl == Len(d.value)
<1>1. kl \in Nat /\ vl \in Nat /\ kl + vl <= INT_MAX /\ kl <= INT_MAX /\ vl <= INT_MAX
  BY ItemFacts, Zenon
<1>2. <<TypeByte(d.type)>> \in Seq(Byte) /\ Len(<<TypeByte(d.type)>>) = 1
  BY DEF TypeByte, Byte
<1>3. d.version \in Seq(Byte) /\ Len(d.version) = 8 /\ d.key \in Seq(Byte) /\ d.value \in Seq(Byte)
  BY ItemFacts, Zenon
<1> HIDE DEF kl, vl
<1>4. kl + vl \in Nat
  BY <1>1
<1>5. IntBytes(kl + vl) \in Seq(Byte) /\ Len(IntBytes(kl + vl)) = 4
  BY <1>1, <1>4, IntBytesLength
<1>6. IntBytes(kl) \in Seq(Byte) /\ Len(IntBytes(kl)) = 4
  BY <1>1, IntBytesLength
<1>7. IntBytes(vl) \in Seq(Byte) /\ Len(IntBytes(vl)) = 4
  BY <1>1, IntBytesLength
<1> QED
  BY <1>2, <1>3, <1>5, <1>6, <1>7, Zenon DEF kl, vl

\* buffer_putdata appends the bytes of the item.
LEMMA PutItem ==
  ASSUME NEW b, IsBuffer(b), NEW d \in Items
  PROVE  /\ IsBuffer(buffer_putdata(b, d))
         /\ \E w \in Seq(Byte) : /\ buffer_putdata(b, d).buf = b.buf \o w
                                 /\ Len(w) = DataBytes(d) /\ ItemAt(w, 0, d)
<1> DEFINE l == Len(d.key) + Len(d.value)
           b0 == IF b.NUL + l + 21 >= b.buflen THEN buffer_extendby(b, EXTEND) ELSE b
           i1 == IntBytes(l)
           i2 == IntBytes(Len(d.key))
           i3 == IntBytes(Len(d.value))
           t == <<TypeByte(d.type)>>
           v == d.version
           k == d.key
           x == d.value
           c1 == Appended(buffer_extendby(b0, 4), i1)
           c2 == Appended(buffer_extendby(c1, 4), i2)
           c3 == Appended(buffer_extendby(c2, 4), i3)
           c4 == Appended(buffer_extendby(c3, 2), t)
           c5 == Appended(buffer_extendby(c4, 8), v)
           c6 == Appended(buffer_extendby(c5, Len(k) + 1), k)
           c7 == Appended(buffer_extendby(c6, Len(x) + 1), x)
           w1 == <<>> \o i1
           w2 == w1 \o i2
           w3 == w2 \o i3
           w4 == w3 \o t
           w5 == w4 \o v
           w6 == w5 \o k
           w7 == w6 \o x
<1>1. buffer_putdata(b, d) = c7
  BY DEF buffer_putdata, buffer_putint, buffer_putc, buffer_putlong, buffer_putnstr
<1>2. /\ i1 \in Seq(Byte) /\ Len(i1) = 4 /\ i2 \in Seq(Byte) /\ Len(i2) = 4
      /\ i3 \in Seq(Byte) /\ Len(i3) = 4 /\ t \in Seq(Byte) /\ Len(t) = 1
      /\ v \in Seq(Byte) /\ Len(v) = 8 /\ k \in Seq(Byte) /\ x \in Seq(Byte)
  BY ItemParts, Zenon
<1>3. Grown(b.buf, b0, <<>>)
  <2>1. b.buf \in Seq(Byte)
    BY DEF IsBuffer, Readable
  <2>2. IsBuffer(b0) /\ b0.buf = b.buf
    <3>1. CASE b.NUL + l + 21 >= b.buflen
      BY <3>1, ExtendKeeps
    <3>2. CASE ~(b.NUL + l + 21 >= b.buflen)
      BY <3>2
    <3> QED
      BY <3>1, <3>2
  <2> HIDE DEF b0
  <2>3. <<>> \in Seq(Byte) /\ b.buf \o <<>> = b.buf
    BY <2>1, EmptySeq, ConcatEmptySeq
  <2> QED
    BY <2>1, <2>2, <2>3 DEF Grown
<1> HIDE DEF l, b0, i1, i2, i3, t, v, k, x
<1>4. /\ Grown(b.buf, c1, w1) /\ w1 \in Seq(Byte) /\ Len(w1) = 4
      /\ Part(w1, 0, i1)
  <2>1. Grown(b.buf, c1, w1)
    BY <1>2, <1>3, PutBytes
  <2>2. w1 = i1
    BY <1>2, ConcatEmptySeq
  <2>3. 0 + Len(i1) = Len(i1) /\ \A i \in 1..Len(i1) : 0 + i = i
    BY <1>2
  <2>4. Part(i1, 0, i1)
    BY <1>2, <2>3 DEF Part
  <2> QED
    BY <1>2, <2>1, <2>2, <2>4
<1> HIDE DEF c1, w1
<1>5. /\ Grown(b.buf, c2, w2) /\ w2 \in Seq(Byte) /\ Len(w2) = 8
      /\ Part(w2, 0, i1) /\ Part(w2, 4, i2)
  <2>1. Grown(b.buf, c2, w2)
    BY <1>2, <1>4, PutBytes
  <2>2. /\ w2 \in Seq(Byte) /\ Len(w2) = Len(w1) + Len(i2) /\ Part(w2, Len(w1), i2)
        /\ \A off \in Nat, q \in Seq(Byte) : Part(w1, off, q) => Part(w2, off, q)
    BY <1>2, <1>4, MoreParts, Zenon
  <2> HIDE DEF w2, c2
  <2>3. 8 = Len(w1) + Len(i2)
    BY <1>2, <1>4
  <2>4. /\ Part(w2, 0, i1)
    BY <1>2, <1>4, <2>2
  <2> QED
    BY <1>4, <2>1, <2>2, <2>3, <2>4
<1> HIDE DEF c2, w2
<1>6. /\ Grown(b.buf, c3, w3) /\ w3 \in Seq(Byte) /\ Len(w3) = 12
      /\ Part(w3, 0, i1) /\ Part(w3, 4, i2) /\ Part(w3, 8, i3)
  <2>1. Grown(b.buf, c3, w3)
    BY <1>2, <1>5, PutBytes
  <2>2. /\ w3 \in Seq(Byte) /\ Len(w3) = Len(w2) + Len(i3) /\ Part(w3, Len(w2), i3)
        /\ \A off \in Nat, q \in Seq(Byte) : Part(w2, off, q) => Part(w3, off, q)
    BY <1>2, <1>5, MoreParts, Zenon
  <2> HIDE DEF w3, c3
  <2>3. 12 = Len(w2) + Len(i3)
    BY <1>2, <1>5
  <2>4. /\ Part(w3, 0, i1) /\ Part(w3, 4, i2)
    BY <1>2, <1>5, <2>2
  <2> QED
    BY <1>5, <2>1, <2>2, <2>3, <2>4
<1> HIDE DEF c3, w3
<1>7. /\ Grown(b.buf, c4, w4) /\ w4 \in Seq(Byte) /\ Len(w4) = 13
      /\ Part(w4, 0, i1) /\ Part(w4, 4, i2) /\ Part(w4, 8, i3) /\ Part(w4, 12, t)
  <2>1. Grown(b.buf, c4, w4)
    BY <1>2, <1>6, PutBytes
  <2>2. /\ w4 \in Seq(Byte) /\ Len(w4) = Len(w3) + Len(t) /\ Part(w4, Len(w3), t)
        /\ \A off \in Nat, q \in Seq(Byte) : Part(w3, off, q) => Part(w4, off, q)
    BY <1>2, <1>6, MoreParts, Zenon
  <2> HIDE DEF w4, c4
  <2>3. 13 = Len(w3) + Len(t)
    BY <1>2, <1>6
  <2>4. /\ Part(w4, 0, i1) /\ Part(w4, 4, i2) /\ Part(w4, 8, i3)
    BY <1>2, <1>6, <2>2
  <2> QED
    BY <1>6, <2>1, <2>2, <2>3, <2>4
<1> HIDE DEF c4, w4
<1>8. /\ Grown(b.buf, c5, w5) /\ w5 \in Seq(Byte) /\ Len(w5) = 21
      /\ Part(w5, 0, i1) /\ Part(w5, 4, i2) /\ Part(w5, 8, i3) /\ Part(w5, 12, t)
      /\ Part(w5, 13, v)
  <2>1. Grown(b.buf, c5, w5)
    BY <1>2, <1>7, PutBytes
  <2>2. /\ w5 \in Seq(Byte) /\ Len(w5) = Len(w4) + Len(v) /\ Part(w5, Len(w4), v)
        /\ \A off \in Nat, q \in Seq(Byte) : Part(w4, off, q) => Part(w5, off, q)
    BY <1>2, <1>7, MoreParts, Zenon
  <2> HIDE DEF w5, c5
  <2>3. 21 = Len(w4) + Len(v)
    BY <1>2, <1>7
  <2>4. /\ Part(w5, 0, i1) /\ Part(w5, 4, i2) /\ Part(w5, 8, i3) /\ Part(w5, 12, t)
    BY <1>2, <1>7, <2>2
  <2> QED
    BY <1>7, <2>1, <2>2, <2>3, <2>4
<1> HIDE DEF c5, w5
<1>9. /\ Grown(b.buf, c6, w6) /\ w6 \in Seq(Byte) /\ Len(w6) = 21 + Len(k)
      /\ Part(w6, 0, i1) /\ Part(w6, 4, i2) /\ Part(w6, 8, i3) /\ Part(w6, 12, t)
      /\ Part(w6, 13, v) /\ Part(w6, 21, k)
  <2>1. Grown(b.buf, c6, w6)
    BY <1>2, <1>8, PutBytes
  <2>2. /\ w6 \in Seq(Byte) /\ Len(w6) = Len(w5) + Len(k) /\ Part(w6, Len(w5), k)
        /\ \A off \in Nat, q \in Seq(Byte) : Part(w5, off, q) => Part(w6, off, q)
    BY <1>2, <1>8, MoreParts, Zenon
  <2> HIDE DEF w6, c6
  <2>3. 21 + Len(k) = Len(w5) + Len(k)
    BY <1>2, <1>8
  <2>4. /\ Part(w6, 0, i1) /\ Part(w6, 4, i2) /\ Part(w6, 8, i3) /\ Part(w6, 12, t)
        /\ Part(w6, 13, v)
    BY <1>2, <1>8, <2>2
  <2> QED
    BY <1>8, <2>1, <2>2, <2>3, <2>4
<1> HIDE DEF c6, w6
<1>10. /\ Grown(b.buf, c7, w7) /\ w7 \in Seq(Byte) /\ Len(w7) = 21 + Len(k) + Len(x)
      /\ Part(w7, 0, i1) /\ Part(w7, 4, i2) /\ Part(w7, 8, i3) /\ Part(w7, 12, t)
      /\ Part(w7, 13, v) /\ Part(w7, 21, k) /\ Part(w7, 21 + Len(k), x)
  <2>1. Grown(b.buf, c7, w7)
    BY <1>2, <1>9, PutBytes
  <2>2. /\ w7 \in Seq(Byte) /\ Len(w7) = Len(w6) + Len(x) /\ Part(w7, Len(w6), x)
        /\ \A off \in Nat, q \in Seq(Byte) : Part(w6, off, q) => Part(w7, off, q)
    BY <1>2, <1>9, MoreParts, Zenon
  <2> HIDE DEF w7, c7
  <2>3. 21 + Len(k) + Len(x) = Len(w6) + Len(x)
    BY <1>2, <1>9
  <2>4. /\ Part(w7, 0, i1) /\ Part(w7, 4, i2) /\ Part(w7, 8, i3) /\ Part(w7, 12, t)
        /\ Part(w7, 13, v) /\ Part(w7, 21, k)
    BY <1>2, <1>9, <2>2
  <2> QED
    BY <1>9, <2>1, <2>2, <2>3, <2>4
<1> HIDE DEF c7, w7
<1>11. ItemAt(w7, 0, d)
  <2>1. 0 + 4 = 4 /\ 0 + 8 = 8 /\ 0 + 12 = 12 /\ 0 + 13 = 13 /\ 0 + 21 = 21
    OBVIOUS
  <2> QED
    BY <1>10, <2>1 DEF ItemAt, i1, i2, i3, t, v, k, x, l
<1>12. Len(w7) = DataBytes(d)
  BY <1>10 DEF DataBytes, k, x
<1> QED
  BY <1>1, <1>10, <1>11, <1>12 DEF Grown

LEMMA ItemBehind ==
  ASSUME NEW s \in Seq(Byte), NEW t \in Seq(Byte), NEW off \in Nat, NEW d \in Items, ItemAt(s, off, d)
  PROVE  ItemAt(t \o s, Len(t) + off, d) /\ ItemAt(s \o t, off, d)
<1>1. /\ IntBytes(Len(d.key) + Len(d.value)) \in Seq(Byte) /\ IntBytes(Len(d.key)) \in Seq(Byte)
      /\ IntBytes(Len(d.value)) \in Seq(Byte) /\ <<TypeByte(d.type)>> \in Seq(Byte)
      /\ d.version \in Seq(Byte) /\ d.key \in Seq(Byte) /\ d.value \in Seq(Byte)
  BY ItemParts, Zenon
<1>2. \A k \in Nat, p \in Seq(Byte) : Part(s, off + k, p) =>
        Part(t \o s, Len(t) + off + k, p) /\ Part(s \o t, off + k, p)
  <2> SUFFICES ASSUME NEW k \in Nat, NEW p \in Seq(Byte), Part(s, off + k, p)
               PROVE  Part(t \o s, Len(t) + off + k, p) /\ Part(s \o t, off + k, p)
    OBVIOUS
  <2>1. off + k \in Nat /\ Len(t) + off + k = Len(t) + (off + k)
    OBVIOUS
  <2>2. Part(t \o s, Len(t) + (off + k), p)
    BY <2>1, PartBehind
  <2>3. Part(s \o t, off + k, p)
    BY <2>1, PartKept
  <2> QED
    BY <2>1, <2>2, <2>3
<1>3. off + 0 = off /\ Len(t) + off + 0 = Len(t) + off /\ Len(t) + off \in Nat
      /\ off + 21 + Len(d.key) = off + (21 + Len(d.key)) /\ 21 + Len(d.key) \in Nat
      /\ Len(t) + off + 21 + Len(d.key) = Len(t) + off + (21 + Len(d.key))
  <2> DEFINE kl == Len(d.key)
             tl == Len(t)
  <2>1. kl \in Nat /\ tl \in Nat
    BY <1>1, LenProperties
  <2> HIDE DEF kl, tl
  <2>2. off + 0 = off /\ tl + off + 0 = tl + off /\ tl + off \in Nat
        /\ off + 21 + kl = off + (21 + kl) /\ 21 + kl \in Nat
        /\ tl + off + 21 + kl = tl + off + (21 + kl)
    BY <2>1
  <2> QED
    BY <2>2, Zenon DEF kl, tl
<1>4. \A p \in Seq(Byte) : Part(s, off, p) => Part(t \o s, Len(t) + off, p) /\ Part(s \o t, off, p)
  <2>1. 0 \in Nat
    OBVIOUS
  <2> QED
    BY <1>2, <1>3, <2>1
<1>5. ItemAt(t \o s, Len(t) + off, d)
  BY <1>1, <1>2, <1>3, <1>4 DEF ItemAt
<1>6. ItemAt(s \o t, off, d)
  BY <1>1, <1>2, <1>3, <1>4 DEF ItemAt
<1> QED
  BY <1>5, <1>6

\* What the item becomes when its bytes are read back.
LEMMA RereadFacts ==
  ASSUME NEW d \in Items
  PROVE  /\ Reread(d) \in Records /\ Shown(Reread(d)) = Shown(d)
         /\ Reread(d).hash_value = d.hash_value /\ Reread(d).key = d.key
         /\ Reread(d).value = d.value /\ Reread(d).type = d.type
         /\ Reread(d).version = GetLong(d.version)
         /\ Reread(d) = [key |-> d.key, value |-> d.value, type |-> d.type,
                         version |-> GetLong(d.version), hash_value |-> Hash[d.key]]
<1>1. /\ d \in Records /\ d.version \in [1..8 -> Byte]
  BY ItemFacts
<1>2. d \in data_t /\ d.hash_value = Hash[d.key]
  BY <1>1 DEF Records
<1>3. GetLong(d.version) \in [1..8 -> Byte]
  <2>1. 255 \in Byte
    BY DEF Byte
  <2> QED
    BY <1>1, <2>1 DEF GetLong
<1>4. Reread(d) = [key |-> d.key, value |-> d.value, type |-> d.type,
                   version |-> GetLong(d.version), hash_value |-> Hash[d.key]]
  BY <1>2 DEF Reread, data_t
<1>5. Reread(d) \in Records
  BY <1>2, <1>3, <1>4 DEF Records, data_t
<1> QED
  BY <1>2, <1>4, <1>5 DEF Shown

\* buffer_getdata gives the item back whose bytes lie at SEEK.
LEMMA GetItem ==
  ASSUME NEW b, Readable(b), NEW d \in Items, ItemAt(b.buf, b.SEEK, d)
  PROVE  /\ buffer_getint(b) = Len(d.key) + Len(d.value)
         /\ buffer_getdata(b) = Reread(d)
         /\ b.SEEK + DataBytes(d) <= Len(b.buf)
<1> DEFINE kl == Len(d.key)
           vl == Len(d.value)
<1>1. /\ kl \in Nat /\ vl \in Nat /\ kl + vl <= INT_MAX /\ kl <= INT_MAX /\ vl <= INT_MAX
      /\ d.key \in Seq(Byte) /\ d.value \in Seq(Byte)
      /\ d.version \in Seq(Byte) /\ Len(d.version) = 8 /\ d.type \in {"s", "d"}
  BY ItemFacts, Zenon
<1>2. b.SEEK \in Nat /\ b.buf \in Seq(Byte)
  BY DEF Readable
<1>3. /\ Part(b.buf, b.SEEK, IntBytes(kl + vl)) /\ Part(b.buf, b.SEEK + 4, IntBytes(kl))
      /\ Part(b.buf, b.SEEK + 8, IntBytes(vl)) /\ Part(b.buf, b.SEEK + 12, <<TypeByte(d.type)>>)
      /\ Part(b.buf, b.SEEK + 13, d.version) /\ Part(b.buf, b.SEEK + 21, d.key)
      /\ Part(b.buf, b.SEEK + 21 + kl, d.value)
  BY Zenon DEF ItemAt
<1> HIDE DEF kl, vl
<1>4. buffer_getint(b) = kl + vl
  <2>1. kl + vl \in Nat
    BY <1>1
  <2>2. Len(IntBytes(kl + vl)) = 4
    BY <1>1, <2>1, IntBytesLength
  <2>3. b.SEEK + 4 <= Len(b.buf) /\ \A i \in 1..4 : b.buf[b.SEEK + i] = IntBytes(kl + vl)[i]
    BY <1>3, <2>2 DEF Part
  <2> QED
    BY <1>1, <2>1, <2>3, IntReadBack, Zenon
<1>5. buffer_getint(Skip(b, 4)) = kl
  BY <1>1, <1>3, 4 \in Nat, ReadInt
<1>6. buffer_getint(Skip(b, 8)) = vl
  BY <1>1, <1>3, 8 \in Nat, ReadInt
<1>7. buffer_getnstr(Skip(b, 21), kl) = d.key
  BY <1>1, <1>3, 21 \in Nat, ReadPart DEF kl
<1>8. buffer_getnstr(Skip(b, 21 + kl), vl) = d.value
  <2>1. 21 + kl \in Nat /\ b.SEEK + 21 + kl = b.SEEK + (21 + kl)
    <3> DEFINE at == b.SEEK
    <3>1. kl \in Nat /\ at \in Nat
      BY <1>1, <1>2, Zenon
    <3> HIDE DEF at
    <3>2. 21 + kl \in Nat /\ at + 21 + kl = at + (21 + kl)
      BY ONLY <3>1, SMT
    <3> QED
      BY <3>2, Zenon DEF at
  <2>2. Part(b.buf, b.SEEK + (21 + kl), d.value)
    BY <1>3, <2>1, Zenon
  <2> QED
    BY <1>1, <2>1, <2>2, ReadPart DEF vl
<1>9. buffer_getlong(Skip(b, 13)) = GetLong(d.version)
  <2>1. buffer_getnstr(Skip(b, 13), Len(d.version)) = d.version
    BY <1>1, <1>3, 13 \in Nat, ReadPart, Zenon
  <2>2. buffer_getnstr(Skip(b, 13), 8) = d.version
    BY <1>1, <2>1, Zenon
  <2> QED
    BY <2>2, Zenon DEF buffer_getlong
<1>10. buffer_getchar(Skip(b, 12)) = TypeByte(d.type)
  <2>1. Len(<<TypeByte(d.type)>>) = 1 /\ <<TypeByte(d.type)>>[1] = TypeByte(d.type)
    OBVIOUS
  <2>2. b.buf[b.SEEK + 12 + 1] = TypeByte(d.type)
    BY <1>3, <2>1 DEF Part
  <2>3. Skip(b, 12).buf = b.buf /\ Skip(b, 12).SEEK = b.SEEK + 12
    BY 12 \in Nat, SkipReadable
  <2> QED
    BY <2>2, <2>3 DEF buffer_getchar
<1>11. (IF TypeByte(d.type) = 115 THEN "s" ELSE "d") = d.type
  BY <1>1 DEF TypeByte
<1>12. buffer_getdata(b) = Reread(d)
  <2>1. buffer_getdata(b) = [key |-> d.key, value |-> d.value, type |-> d.type,
                             version |-> GetLong(d.version), hash_value |-> Hash[d.key]]
    BY <1>5, <1>6, <1>7, <1>8, <1>9, <1>10, <1>11 DEF buffer_getdata
  <2> QED
    BY <2>1, RereadFacts
<1>13. b.SEEK + DataBytes(d) <= Len(b.buf)
  <2>1. b.SEEK + 21 + kl + vl <= Len(b.buf)
    BY <1>3 DEF Part, vl
  <2>2. DataBytes(d) = 21 + kl + vl
    BY DEF DataBytes, kl, vl
  <2> HIDE DEF kl, vl
  <2> QED
    BY <1>1, <1>2, <2>1, <2>2
<1> QED
  BY <1>4, <1>12, <1>13 DEF kl, vl

-----------------------------------------------------------------------------
(* The items of a file, one behind the other. *)

Holds(s, items) ==
  /\ s \in Seq(Byte) /\ items \in Seq(Items)
  /\ \E offs \in [0..Len(items) -> Nat] :
       /\ offs[0] = 0 /\ offs[Len(items)] = Len(s)
       /\ \A i \in 1..Len(items) : /\ offs[i] = offs[i - 1] + DataBytes(items[i])
                                   /\ ItemAt(s, offs[i - 1], items[i])

LEMMA HoldsNone == Holds(<<>>, <<>>)
<1> DEFINE offs == [i \in 0..0 |-> 0]
<1>1. <<>> \in Seq(Byte) /\ <<>> \in Seq(Items) /\ Len(<<>>) = 0
  BY EmptySeq
<1>2. offs \in [0..0 -> Nat] /\ offs[0] = 0
  OBVIOUS
<1>3. \A i \in 1..0 : FALSE
  OBVIOUS
<1> HIDE DEF offs
<1> QED
  BY <1>1, <1>2, <1>3 DEF Holds

LEMMA HoldsMore ==
  ASSUME NEW s, NEW items, Holds(s, items), NEW d \in Items, NEW w \in Seq(Byte),
         Len(w) = DataBytes(d), ItemAt(w, 0, d)
  PROVE  Holds(s \o w, Append(items, d))
<1>1. s \in Seq(Byte) /\ items \in Seq(Items) /\ Len(s) \in Nat /\ Len(items) \in Nat
  BY DEF Holds
<1> DEFINE n == Len(items)
           more == Append(items, d)
<1>2. PICK offs \in [0..n -> Nat] :
        /\ offs[0] = 0 /\ offs[n] = Len(s)
        /\ \A i \in 1..n : /\ offs[i] = offs[i - 1] + DataBytes(items[i])
                           /\ ItemAt(s, offs[i - 1], items[i])
  BY DEF Holds
<1> DEFINE offs2 == [i \in 0..n + 1 |-> IF i <= n THEN offs[i] ELSE Len(s) + Len(w)]
<1>3. /\ more \in Seq(Items) /\ Len(more) = n + 1 /\ more[n + 1] = d
      /\ \A i \in 1..n : more[i] = items[i] /\ items[i] \in Items
  BY <1>1, AppendProperties, ElementOfSeq
<1>4. s \o w \in Seq(Byte) /\ Len(s \o w) = Len(s) + Len(w) /\ Len(w) \in Nat
  BY <1>1, ConcatProperties, LenProperties, Zenon
<1> HIDE DEF more
<1>5. n \in Nat
  BY <1>1
<1> HIDE DEF n
<1>6. /\ offs2 \in [0..n + 1 -> Nat] /\ offs2[0] = 0 /\ offs2[n + 1] = Len(s) + Len(w)
      /\ offs2[n] = Len(s)
      /\ \A i \in 1..n : offs2[i] = offs[i] /\ offs2[i - 1] = offs[i - 1]
  BY <1>1, <1>2, <1>4, <1>5
<1> HIDE DEF offs2
<1>7. ASSUME NEW i \in 1..n + 1
      PROVE  offs2[i] = offs2[i - 1] + DataBytes(more[i]) /\ ItemAt(s \o w, offs2[i - 1], more[i])
  <2>1. CASE i \in 1..n
    <3>1. items[i] \in Items /\ offs[i - 1] \in Nat /\ more[i] = items[i]
      BY <1>2, <1>3, <1>5, <2>1
    <3>2. ItemAt(s \o w, offs[i - 1], items[i])
      BY <1>1, <1>2, <2>1, <3>1, ItemBehind
    <3> QED
      BY <1>2, <1>6, <2>1, <3>1, <3>2
  <2>2. CASE i = n + 1
    <3>1. offs2[i - 1] = Len(s) /\ more[i] = d /\ offs2[i] = Len(s) + Len(w)
      BY <1>3, <1>5, <1>6, <2>2
    <3>2. Len(s) + 0 = Len(s) /\ 0 \in Nat
      BY <1>1
    <3>3. ItemAt(s \o w, Len(s) + 0, d)
      BY <1>1, <3>2, ItemBehind
    <3> QED
      BY <3>1, <3>2, <3>3
  <2> QED
    BY <1>5, <2>1, <2>2
<1>8. /\ s \o w \in Seq(Byte) /\ more \in Seq(Items) /\ offs2 \in [0..Len(more) -> Nat]
      /\ offs2[0] = 0 /\ offs2[Len(more)] = Len(s \o w)
      /\ \A i \in 1..Len(more) : /\ offs2[i] = offs2[i - 1] + DataBytes(more[i])
                                /\ ItemAt(s \o w, offs2[i - 1], more[i])
  BY <1>3, <1>4, <1>6, <1>7, Zenon
<1>9. Holds(s \o w, more)
  BY <1>8, Zenon DEF Holds
<1> QED
  BY <1>9 DEF more

-----------------------------------------------------------------------------
(* Reading the items of a file. *)

\* g lists what sstdata_open has read, item by item.
Reads(b, n, g) ==
  /\ g[0] = [buf |-> b, items |-> <<>>, short |-> FALSE]
  /\ \A i \in 1..n : g[i] = ReadNext(g[i - 1])

LEMMA ItemsRead ==
  ASSUME NEW b, NEW n \in Nat
  PROVE  \E g : Reads(b, n, g) /\ ReadItems(b, n) = g[n]
<1> DEFINE Start == [buf |-> b, items |-> <<>>, short |-> FALSE]
           T == {m \in Nat : \E g : g = [i \in 0..m |-> IF i = 0 THEN Start ELSE ReadNext(g[i - 1])]}
<1>1. 0 \in T
  <2> DEFINE g == [i \in 0..0 |-> Start]
  <2>1. g = [i \in 0..0 |-> IF i = 0 THEN Start ELSE ReadNext(g[i - 1])]
    OBVIOUS
  <2> QED
    BY <2>1
<1>2. ASSUME NEW m \in T, m \in Nat PROVE m + 1 \in T
  <2>1. PICK g : g = [i \in 0..m |-> IF i = 0 THEN Start ELSE ReadNext(g[i - 1])]
    BY <1>2
  <2> DEFINE h == [i \in 0..m + 1 |-> IF i <= m THEN g[i] ELSE ReadNext(g[m])]
  <2> HIDE DEF Start
  <2>2. g[0] = Start /\ \A i \in 1..m : g[i] = ReadNext(g[i - 1])
    <3>1. \A i \in 0..m : g[i] = IF i = 0 THEN Start ELSE ReadNext(g[i - 1])
      BY <2>1
    <3>2. 0 \in 0..m /\ \A i \in 1..m : i \in 0..m /\ i # 0
      BY <1>2
    <3> QED
      BY <3>1, <3>2
  <2>3. h[0] = Start /\ \A i \in 1..m + 1 : h[i] = ReadNext(h[i - 1])
    <3>1. h[0] = Start
      BY <1>2, <2>2
    <3>2. ASSUME NEW i \in 1..m + 1 PROVE h[i] = ReadNext(h[i - 1])
      <4>1. CASE i <= m
        <5>1. h[i] = g[i] /\ h[i - 1] = g[i - 1] /\ i \in 1..m
          BY <1>2, <4>1
        <5> QED
          BY <2>2, <5>1
      <4>2. CASE i = m + 1
        <5>1. h[i] = ReadNext(g[m]) /\ h[i - 1] = g[m]
          BY <1>2, <4>2
        <5> QED
          BY <5>1
      <4> QED
        BY <1>2, <4>1, <4>2
    <3> QED
      BY <3>1, <3>2
  <2>4. DOMAIN h = 0..m + 1 /\ h = [i \in 0..m + 1 |-> h[i]]
    OBVIOUS
  <2> HIDE DEF h
  <2>5. \A i \in 0..m + 1 : h[i] = IF i = 0 THEN Start ELSE ReadNext(h[i - 1])
    <3>1. \A i \in 0..m + 1 : i = 0 \/ (i # 0 /\ i \in 1..m + 1)
      BY <1>2
    <3> QED
      BY <2>3, <3>1, Zenon
  <2>6. h = [i \in 0..m + 1 |-> IF i = 0 THEN Start ELSE ReadNext(h[i - 1])]
    BY <2>4, <2>5, Zenon
  <2>7. m + 1 \in Nat
    BY <1>2
  <2> QED
    BY <2>6, <2>7 DEF Start
<1>3. n \in T
  <2> HIDE DEF T
  <2> QED
    BY <1>1, <1>2, SetInduction
<1> DEFINE f == CHOOSE f : f = [i \in 0..n |-> IF i = 0 THEN Start ELSE ReadNext(f[i - 1])]
<1>4. f = [i \in 0..n |-> IF i = 0 THEN Start ELSE ReadNext(f[i - 1])]
  BY <1>3
<1>5. ReadItems(b, n) = f[n]
  BY DEF ReadItems
<1> HIDE DEF f, Start
<1>6. \A i \in 0..n : f[i] = IF i = 0 THEN Start ELSE ReadNext(f[i - 1])
  BY <1>4
<1>7. f[0] = Start /\ \A i \in 1..n : f[i] = ReadNext(f[i - 1])
  <2>1. 0 \in 0..n /\ \A i \in 1..n : i \in 0..n /\ i # 0
    OBVIOUS
  <2> QED
    BY <1>6, <2>1
<1>8. Reads(b, n, f)
  BY <1>7 DEF Reads, Start
<1> QED
  BY <1>5, <1>8

\* The items as they are read back.
Stored(items) == [i \in 1..Len(items) |-> Reread(items[i])]

LEMMA StoredFacts ==
  ASSUME NEW items \in Seq(Items)
  PROVE  /\ Stored(items) \in Seq(Records) /\ Len(Stored(items)) = Len(items)
         /\ \A i \in 1..Len(items) : Stored(items)[i] = Reread(items[i])
<1>1. Len(items) \in Nat /\ \A i \in 1..Len(items) : items[i] \in Items
  BY LenProperties, ElementOfSeq
<1>2. \A i \in 1..Len(items) : Reread(items[i]) \in Records
  BY <1>1, RereadFacts
<1>3. Stored(items) \in [1..Len(items) -> Records]
  BY <1>2 DEF Stored
<1>4. \A i \in 1..Len(items) : Stored(items)[i] = Reread(items[i])
  BY DEF Stored
<1> HIDE DEF Stored
<1> QED
  BY <1>1, <1>3, <1>4, FunctionIsSeq

\* From the bytes of some items those items are read.
LEMMA ReadBack ==
  ASSUME NEW b, Readable(b), b.SEEK = 0, NEW items, Holds(b.buf, items)
  PROVE  /\ ReadItems(b, Len(items)).short = FALSE
         /\ ReadItems(b, Len(items)).items = Stored(items)
<1> DEFINE n == Len(items)
<1>1. b.buf \in Seq(Byte) /\ Len(b.buf) \in Nat /\ items \in Seq(Items) /\ n \in Nat
      /\ \A i \in 1..n : items[i] \in Items
  BY LenProperties, ElementOfSeq DEF Holds
<1>2. PICK offs \in [0..n -> Nat] :
        /\ offs[0] = 0 /\ offs[n] = Len(b.buf)
        /\ \A i \in 1..n : /\ offs[i] = offs[i - 1] + DataBytes(items[i])
                           /\ ItemAt(b.buf, offs[i - 1], items[i])
  BY DEF Holds
<1>3. PICK g : Reads(b, n, g) /\ ReadItems(b, n) = g[n]
  BY <1>1, ItemsRead
<1> HIDE DEF n
<1> DEFINE Good(i) ==
             /\ Readable(g[i].buf) /\ g[i].buf.buf = b.buf /\ g[i].buf.SEEK = offs[i]
             /\ g[i].items \in Seq(Records) /\ Len(g[i].items) = i
             /\ \A j \in 1..i : g[i].items[j] = Reread(items[j])
             /\ g[i].short = FALSE
           T == {i \in Nat : i <= n => Good(i)}
<1>4. 0 \in T
  <2>1. g[0] = [buf |-> b, items |-> <<>>, short |-> FALSE]
    BY <1>3 DEF Reads
  <2>2. <<>> \in Seq(Records) /\ Len(<<>>) = 0
    BY EmptySeq
  <2>3. g[0].buf = b /\ g[0].items = <<>> /\ g[0].short = FALSE
    BY <2>1
  <2>4. \A j \in 1..0 : FALSE
    OBVIOUS
  <2>5. Good(0)
    BY <1>2, <2>2, <2>3, <2>4, Zenon
  <2> HIDE DEF Good
  <2> QED
    BY <2>5
<1>5. ASSUME NEW i \in T, i \in Nat PROVE i + 1 \in T
  <2> SUFFICES ASSUME i + 1 <= n PROVE Good(i + 1)
    <3> HIDE DEF Good
    <3> QED
      BY <1>5
  <2>1. i <= n /\ i + 1 \in 1..n /\ (i + 1) - 1 = i /\ i + 1 \in Nat
    BY <1>1, <1>5
  <2> DEFINE r == g[i]
             d == items[i + 1]
             at == offs[i]
  <2>2. Good(i)
    <3> HIDE DEF Good
    <3> QED
      BY <1>5, <2>1
  <2>3. /\ Readable(r.buf) /\ r.buf.buf = b.buf /\ r.buf.SEEK = at /\ at \in Nat
        /\ r.items \in Seq(Records) /\ Len(r.items) = i
        /\ \A j \in 1..i : r.items[j] = Reread(items[j])
        /\ r.short = FALSE
    <3>1. i \in 0..n
      BY <1>1, <1>5, <2>1
    <3> QED
      BY <1>2, <2>2, <3>1
  <2>4. d \in Items /\ offs[i + 1] = at + DataBytes(d) /\ ItemAt(b.buf, at, d)
    BY <1>1, <1>2, <2>1
  <2>5. g[i + 1] = ReadNext(r)
    BY <1>3, <2>1 DEF Reads
  <2> HIDE DEF Good, r, d, at
  <2>6. /\ buffer_getint(r.buf) = Len(d.key) + Len(d.value)
        /\ buffer_getdata(r.buf) = Reread(d)
        /\ at + DataBytes(d) <= Len(b.buf)
    BY <2>3, <2>4, GetItem
  <2>7. DataBytes(Reread(d)) = DataBytes(d) /\ Reread(d) \in Records
    BY <2>4, RereadFacts DEF DataBytes
  <2>8. DataBytes(d) = 21 + Len(d.key) + Len(d.value) /\ Len(d.key) \in Nat /\ Len(d.value) \in Nat
    BY <2>4, ItemFacts DEF DataBytes
  <2>9. ~(\/ r.short \/ Len(r.buf.buf) - r.buf.SEEK < 21
          \/ Len(r.buf.buf) - r.buf.SEEK < 21 + buffer_getint(r.buf))
    <3> DEFINE kl == Len(d.key)
               vl == Len(d.value)
               len == Len(b.buf)
               take == DataBytes(d)
    <3>1. at \in Nat /\ kl \in Nat /\ vl \in Nat /\ len \in Nat /\ take = 21 + kl + vl /\ at + take <= len
      BY <1>1, <2>3, <2>6, <2>8
    <3>2. Len(r.buf.buf) = len /\ r.buf.SEEK = at /\ buffer_getint(r.buf) = kl + vl /\ r.short = FALSE
      BY <2>3, <2>6
    <3> HIDE DEF kl, vl, len, take
    <3>3. ~(len - at < 21) /\ ~(len - at < 21 + (kl + vl))
      BY <3>1
    <3> QED
      BY <3>2, <3>3
  <2>10. ReadNext(r) = [buf |-> Skip(r.buf, DataBytes(d)), items |-> Append(r.items, Reread(d)),
                        short |-> FALSE]
    BY <2>6, <2>7, <2>9 DEF ReadNext
  <2>11. /\ Readable(Skip(r.buf, DataBytes(d))) /\ Skip(r.buf, DataBytes(d)).buf = b.buf
         /\ Skip(r.buf, DataBytes(d)).SEEK = offs[i + 1]
    <3>1. DataBytes(d) \in Nat
      <4> DEFINE kl == Len(d.key)
                 vl == Len(d.value)
      <4>1. kl \in Nat /\ vl \in Nat /\ DataBytes(d) = 21 + kl + vl
        BY <2>8
      <4> HIDE DEF kl, vl
      <4> QED
        BY <4>1
    <3> QED
      BY <2>3, <2>4, <3>1, SkipReadable
  <2>12. /\ Append(r.items, Reread(d)) \in Seq(Records) /\ Len(Append(r.items, Reread(d))) = i + 1
         /\ \A j \in 1..i + 1 : Append(r.items, Reread(d))[j] = Reread(items[j])
    <3>1. /\ Append(r.items, Reread(d)) \in Seq(Records)
          /\ Len(Append(r.items, Reread(d))) = Len(r.items) + 1
          /\ \A j \in 1..Len(r.items) : Append(r.items, Reread(d))[j] = r.items[j]
          /\ Append(r.items, Reread(d))[Len(r.items) + 1] = Reread(d)
      BY <2>3, <2>7, AppendProperties
    <3> DEFINE app == Append(r.items, Reread(d))
    <3>2. /\ app \in Seq(Records) /\ Len(app) = i + 1 /\ app[i + 1] = Reread(items[i + 1])
          /\ \A j \in 1..i : app[j] = Reread(items[j])
      BY <2>3, <3>1 DEF d
    <3>3. \A j \in 1..i + 1 : j \in 1..i \/ j = i + 1
      BY <1>5
    <3> HIDE DEF app
    <3>4. \A j \in 1..i + 1 : app[j] = Reread(items[j])
      BY <3>2, <3>3, Zenon
    <3> QED
      BY <3>2, <3>4 DEF app
  <2>13. /\ g[i + 1].buf = Skip(r.buf, DataBytes(d)) /\ g[i + 1].items = Append(r.items, Reread(d))
         /\ g[i + 1].short = FALSE
    BY <2>5, <2>10
  <2> QED
    BY <2>11, <2>12, <2>13, Zenon DEF Good
<1>6. n \in T
  <2> HIDE DEF T
  <2> QED
    BY <1>1, <1>4, <1>5, SetInduction
<1>7. Good(n)
  <2> HIDE DEF Good
  <2> QED
    BY <1>1, <1>6
<1>8. g[n].items = Stored(items)
  <2>1. /\ Stored(items) \in Seq(Records) /\ Len(Stored(items)) = n
        /\ \A i \in 1..n : Stored(items)[i] = Reread(items[i])
    BY <1>1, StoredFacts DEF n
  <2>2. g[n].items \in Seq(Records) /\ Len(g[n].items) = n
        /\ \A i \in 1..n : g[n].items[i] = Reread(items[i])
    BY <1>7
  <2> QED
    BY <2>1, <2>2, SeqEqual
<1> QED
  BY <1>3, <1>7, <1>8 DEF n

\* Of no bytes nothing can be read; and no item is read where there is none.
LEMMA ReadShort ==
  ASSUME NEW b, b.SEEK = 0, b.buf = <<>>, NEW n \in Nat, n > 0
  PROVE  ReadItems(b, n).short = TRUE
<1>1. PICK g : Reads(b, n, g) /\ ReadItems(b, n) = g[n]
  BY ItemsRead
<1> DEFINE T == {i \in Nat : i + 1 <= n => "short" \in DOMAIN g[i + 1] /\ g[i + 1].short = TRUE}
<1>2. 0 \in T
  <2>1. g[0] = [buf |-> b, items |-> <<>>, short |-> FALSE] /\ g[1] = ReadNext(g[0])
    <3>1. 1 \in 1..n /\ 1 - 1 = 0
      OBVIOUS
    <3> QED
      BY <1>1, <3>1 DEF Reads
  <2>2. g[0].buf = b /\ "short" \in DOMAIN g[0]
    BY <2>1
  <2>3. Len(g[0].buf.buf) - g[0].buf.SEEK < 21
    <3>1. g[0].buf.buf = <<>> /\ g[0].buf.SEEK = 0 /\ Len(<<>>) = 0
      BY <2>2
    <3> QED
      BY <3>1
  <2>4. ReadNext(g[0]) = [g[0] EXCEPT !.short = TRUE]
    BY <2>3 DEF ReadNext
  <2>5. "short" \in DOMAIN g[1] /\ g[1].short = TRUE
    BY <2>1, <2>2, <2>4
  <2>6. 0 + 1 = 1 /\ 0 \in Nat
    OBVIOUS
  <2> QED
    BY <2>5, <2>6
<1>3. ASSUME NEW i \in T, i \in Nat PROVE i + 1 \in T
  <2> DEFINE Short(j) == "short" \in DOMAIN g[j + 1] /\ g[j + 1].short = TRUE
  <2> SUFFICES ASSUME (i + 1) + 1 <= n PROVE Short(i + 1)
    <3>1. i + 1 \in Nat /\ T = {j \in Nat : j + 1 <= n => Short(j)}
      BY <1>3
    <3> HIDE DEF Short, T
    <3> QED
      BY <3>1
  <2>1. i + 1 <= n /\ (i + 1) + 1 \in 1..n /\ ((i + 1) + 1) - 1 = i + 1
    BY <1>3
  <2>2. "short" \in DOMAIN g[i + 1] /\ g[i + 1].short = TRUE
    BY <1>3, <2>1
  <2>3. g[(i + 1) + 1] = ReadNext(g[i + 1])
    BY <1>1, <2>1 DEF Reads
  <2> DEFINE r == g[i + 1]
  <2>4. ReadNext(r) = [r EXCEPT !.short = TRUE]
    BY <2>2 DEF ReadNext
  <2> QED
    BY <2>2, <2>3, <2>4
<1>4. n - 1 \in Nat /\ (n - 1) + 1 = n
  OBVIOUS
<1>5. n - 1 \in T
  <2> HIDE DEF T
  <2> QED
    BY <1>2, <1>3, <1>4, SetInduction
<1> QED
  BY <1>1, <1>4, <1>5

LEMMA ReadNone ==
  ASSUME NEW b
  PROVE  ReadItems(b, 0).short = FALSE /\ ReadItems(b, 0).items = <<>>
<1>1. PICK g : Reads(b, 0, g) /\ ReadItems(b, 0) = g[0]
  BY ItemsRead, 0 \in Nat
<1>2. g[0] = [buf |-> b, items |-> <<>>, short |-> FALSE]
  BY <1>1 DEF Reads
<1> QED
  BY <1>1, <1>2

-----------------------------------------------------------------------------
(* The buffer of a table, and the head of its file. *)

\* A buffer that is written to.
Buffers ==
  {b \in [buf : Seq(Byte), SEEK : Nat, NUL : Nat, buflen : Nat \cup {next_power(x) : x \in Nat}] :
     b.NUL = Len(b.buf)}

LEMMA BufferFacts ==
  ASSUME NEW b \in Buffers
  PROVE  /\ IsBuffer(b) /\ Readable(b) /\ b.buf \in Seq(Byte) /\ b.SEEK \in Nat /\ b.NUL \in Nat
         /\ DOMAIN b = {"buf", "SEEK", "NUL", "buflen"}
BY DEF Buffers, IsBuffer, Readable

LEMMA ExtendIn ==
  ASSUME NEW b \in Buffers, NEW l \in Nat
  PROVE  buffer_extendby(b, l) \in Buffers
<1>1. b.NUL + l \in Nat
  BY DEF Buffers
<1>2. next_power(b.NUL + l) \in {next_power(x) : x \in Nat}
  BY <1>1
<1>3. CASE b.NUL + l <= b.buflen
  BY <1>3 DEF buffer_extendby
<1>4. CASE ~(b.NUL + l <= b.buflen)
  <2> DEFINE c == next_power(b.NUL + l)
  <2>1. buffer_extendby(b, l) = [b EXCEPT !.buflen = c]
    BY <1>4 DEF buffer_extendby
  <2> HIDE DEF c
  <2>2. c \in Nat \cup {next_power(x) : x \in Nat}
    BY <1>2 DEF c
  <2> QED
    BY <2>1, <2>2 DEF Buffers
<1> QED
  BY <1>3, <1>4

LEMMA AppendIn ==
  ASSUME NEW b \in Buffers, NEW p \in Seq(Byte)
  PROVE  Appended(b, p) \in Buffers /\ Appended(b, p).buf = b.buf \o p
<1> DEFINE c == b.buf \o p
<1>1. c \in Seq(Byte) /\ Len(c) = Len(b.buf) + Len(p) /\ b.NUL = Len(b.buf) /\ Len(c) \in Nat
  BY ConcatProperties, LenProperties DEF Buffers
<1>2. Appended(b, p) = [b EXCEPT !.buf = c, !.NUL = b.NUL + Len(p)]
  BY DEF Appended, Buffers
<1> HIDE DEF c
<1>3. b.NUL + Len(p) = Len(c)
  BY <1>1
<1>4. Appended(b, p) = [b EXCEPT !.buf = c, !.NUL = Len(c)]
  BY <1>2, <1>3
<1> QED
  BY <1>1, <1>4 DEF Buffers, c

LEMMA ClearIn ==
  ASSUME NEW b \in Buffers
  PROVE  /\ buffer_clear(b) \in Buffers /\ buffer_clear(b).buf = <<>>
         /\ buffer_detach(b) \in Buffers /\ buffer_detach(b).buf = <<>>
<1>1. <<>> \in Seq(Byte) /\ Len(<<>>) = 0
  BY EmptySeq
<1> QED
  BY <1>1 DEF Buffers, buffer_clear, buffer_detach

LEMMA BufferOf ==
  ASSUME NEW l \in Nat
  PROVE  buffer_new(l) \in Buffers /\ buffer_new(l).buf = <<>> /\ buffer_new(l).SEEK = 0
<1> DEFINE b == [buf |-> <<>>, SEEK |-> 0, NUL |-> 0, buflen |-> 0]
<1>1. b \in Buffers
  <2>1. <<>> \in Seq(Byte) /\ Len(<<>>) = 0
    BY EmptySeq
  <2> QED
    BY <2>1 DEF Buffers
<1>2. l + 1 \in Nat
  OBVIOUS
<1>3. buffer_extendby(b, l + 1) \in Buffers
  BY <1>1, <1>2, ExtendIn
<1>4. buffer_extendby(b, l + 1).buf = <<>> /\ buffer_extendby(b, l + 1).SEEK = 0
  BY DEF buffer_extendby
<1> QED
  BY <1>1, <1>2, <1>3, <1>4 DEF buffer_new

LEMMA NewBuffer ==
  /\ buffer_new(RESERVE) \in Buffers /\ buffer_new(RESERVE).buf = <<>>
  /\ buffer_new(RESERVE).SEEK = 0
BY BufferOf, IntAssumption

LEMMA PutIn ==
  ASSUME NEW b \in Buffers, NEW p \in Seq(Byte), NEW l \in Nat
  PROVE  /\ Appended(buffer_extendby(b, l), p) \in Buffers
         /\ Appended(buffer_extendby(b, l), p).buf = b.buf \o p
<1>1. buffer_extendby(b, l) \in Buffers
  BY ExtendIn
<1>2. buffer_extendby(b, l).buf = b.buf
  BY BufferFacts, ExtendKeeps
<1> QED
  BY <1>1, <1>2, AppendIn

\* An item is put behind what the buffer holds.
LEMMA PutItemIn ==
  ASSUME NEW b \in Buffers, NEW d \in Items
  PROVE  /\ buffer_putdata(b, d) \in Buffers
         /\ \E w \in Seq(Byte) : /\ buffer_putdata(b, d).buf = b.buf \o w
                                 /\ Len(w) = DataBytes(d) /\ ItemAt(w, 0, d)
<1> DEFINE l == Len(d.key) + Len(d.value)
           b0 == IF b.NUL + l + 21 >= b.buflen THEN buffer_extendby(b, EXTEND) ELSE b
           c1 == Appended(buffer_extendby(b0, 4), IntBytes(l))
           c2 == Appended(buffer_extendby(c1, 4), IntBytes(Len(d.key)))
           c3 == Appended(buffer_extendby(c2, 4), IntBytes(Len(d.value)))
           c4 == Appended(buffer_extendby(c3, 2), <<TypeByte(d.type)>>)
           c5 == Appended(buffer_extendby(c4, 8), d.version)
           c6 == Appended(buffer_extendby(c5, Len(d.key) + 1), d.key)
           c7 == Appended(buffer_extendby(c6, Len(d.value) + 1), d.value)
<1>1. buffer_putdata(b, d) = c7
  BY DEF buffer_putdata, buffer_putint, buffer_putc, buffer_putlong, buffer_putnstr
<1>2. /\ IntBytes(l) \in Seq(Byte) /\ IntBytes(Len(d.key)) \in Seq(Byte)
      /\ IntBytes(Len(d.value)) \in Seq(Byte) /\ <<TypeByte(d.type)>> \in Seq(Byte)
      /\ d.version \in Seq(Byte) /\ d.key \in Seq(Byte) /\ d.value \in Seq(Byte)
  BY ItemParts, Zenon
<1>3. Len(d.key) + 1 \in Nat /\ Len(d.value) + 1 \in Nat
  <2>1. Len(d.key) \in Nat /\ Len(d.value) \in Nat
    BY ItemFacts, Zenon
  <2> DEFINE kl == Len(d.key)
             vl == Len(d.value)
  <2> HIDE DEF kl, vl
  <2>2. kl \in Nat /\ vl \in Nat => kl + 1 \in Nat /\ vl + 1 \in Nat
    OBVIOUS
  <2> QED
    BY <2>1, <2>2 DEF kl, vl
<1>4. b0 \in Buffers
  BY ExtendIn, ExtendAssumption
<1> HIDE DEF l, b0
<1>5. c1 \in Buffers
  BY <1>2, <1>4, 4 \in Nat, PutIn
<1> HIDE DEF c1
<1>6. c2 \in Buffers
  BY <1>2, <1>5, 4 \in Nat, PutIn
<1> HIDE DEF c2
<1>7. c3 \in Buffers
  BY <1>2, <1>6, 4 \in Nat, PutIn
<1> HIDE DEF c3
<1>8. c4 \in Buffers
  BY <1>2, <1>7, 2 \in Nat, PutIn
<1> HIDE DEF c4
<1>9. c5 \in Buffers
  BY <1>2, <1>8, 8 \in Nat, PutIn
<1> HIDE DEF c5
<1>10. c6 \in Buffers
  BY <1>2, <1>3, <1>9, PutIn, Zenon
<1> HIDE DEF c6
<1>11. c7 \in Buffers
  BY <1>2, <1>3, <1>10, PutIn, Zenon
<1>12. IsBuffer(b)
  BY BufferFacts
<1> QED
  BY <1>1, <1>11, <1>12, PutItem, Zenon

HeadBytes(n) == IntBytes(Id) \o IntBytes(n) \o IntBytes(MAX)

LEMMA HeadIs ==
  ASSUME NEW n \in Nat, n <= INT_MAX
  PROVE  /\ HeadBytes(n) \in Seq(Byte) /\ Len(HeadBytes(n)) = 12
         /\ Part(HeadBytes(n), 4, IntBytes(n)) /\ Part(HeadBytes(n), 8, IntBytes(MAX))
<1> DEFINE i1 == IntBytes(Id)
           i2 == IntBytes(n)
           i3 == IntBytes(MAX)
           w1 == i1 \o i2
           w2 == w1 \o i3
<1>1. Id \in Nat /\ Id <= INT_MAX /\ MAX \in Nat /\ MAX <= INT_MAX
  BY IntAssumption
<1>2. /\ i1 \in Seq(Byte) /\ Len(i1) = 4 /\ i2 \in Seq(Byte) /\ Len(i2) = 4
      /\ i3 \in Seq(Byte) /\ Len(i3) = 4
  BY <1>1, IntBytesLength
<1>3. HeadBytes(n) = w2
  BY DEF HeadBytes
<1> HIDE DEF i1, i2, i3
<1>4. w1 \in Seq(Byte) /\ Len(w1) = Len(i1) + Len(i2) /\ Part(w1, Len(i1), i2)
  BY <1>2, MoreParts, Zenon
<1> HIDE DEF w1
<1>5. /\ w2 \in Seq(Byte) /\ Len(w2) = Len(w1) + Len(i3) /\ Part(w2, Len(w1), i3)
      /\ \A off \in Nat, q \in Seq(Byte) : Part(w1, off, q) => Part(w2, off, q)
  BY <1>2, <1>4, MoreParts, Zenon
<1> HIDE DEF w2
<1>6. Len(w1) = 8 /\ Part(w1, 4, i2)
  BY <1>2, <1>4
<1>7. Len(w2) = 12 /\ Part(w2, 8, i3) /\ Part(w2, 4, i2)
  BY <1>2, <1>5, <1>6
<1> QED
  BY <1>3, <1>5, <1>7 DEF i2, i3

LEMMA HeadPut ==
  ASSUME NEW b \in Buffers, NEW n \in Nat, n <= INT_MAX
  PROVE  LET h == buffer_putint(buffer_putint(buffer_putint(buffer_clear(b), Id), n), MAX)
         IN h \in Buffers /\ h.buf = HeadBytes(n)
<1> DEFINE c0 == buffer_clear(b)
           c1 == buffer_putint(c0, Id)
           c2 == buffer_putint(c1, n)
           c3 == buffer_putint(c2, MAX)
<1>1. Id \in Nat /\ Id <= INT_MAX /\ MAX \in Nat /\ MAX <= INT_MAX /\ 4 \in Nat
  BY IntAssumption
<1>2. /\ IntBytes(Id) \in Seq(Byte) /\ IntBytes(n) \in Seq(Byte) /\ IntBytes(MAX) \in Seq(Byte)
  BY <1>1, IntBytesLength
<1>3. c0 \in Buffers /\ c0.buf = <<>>
  BY ClearIn
<1> HIDE DEF c0
<1>4. c1 \in Buffers /\ c1.buf = <<>> \o IntBytes(Id)
  BY <1>1, <1>2, <1>3, PutIn DEF buffer_putint
<1>5. c1.buf = IntBytes(Id)
  BY <1>2, <1>4, ConcatEmptySeq
<1> HIDE DEF c1
<1>6. c2 \in Buffers /\ c2.buf = IntBytes(Id) \o IntBytes(n)
  <2>1. /\ Appended(buffer_extendby(c1, 4), IntBytes(n)) \in Buffers
        /\ Appended(buffer_extendby(c1, 4), IntBytes(n)).buf = c1.buf \o IntBytes(n)
    BY <1>1, <1>2, <1>4, PutIn
  <2> QED
    BY <1>5, <2>1, Zenon DEF buffer_putint
<1> HIDE DEF c2
<1>7. c3 \in Buffers /\ c3.buf = (IntBytes(Id) \o IntBytes(n)) \o IntBytes(MAX)
  <2>1. /\ Appended(buffer_extendby(c2, 4), IntBytes(MAX)) \in Buffers
        /\ Appended(buffer_extendby(c2, 4), IntBytes(MAX)).buf = c2.buf \o IntBytes(MAX)
    BY <1>1, <1>2, <1>6, PutIn
  <2> QED
    BY <1>6, <2>1, Zenon DEF buffer_putint
<1>8. c3 \in Buffers /\ c3.buf = HeadBytes(n)
  BY <1>7, Zenon DEF HeadBytes
<1> QED
  BY <1>8, Zenon DEF c0, c1, c2

\* The head and what is behind it.
LEMMA FileParts ==
  ASSUME NEW h \in Seq(Byte), Len(h) = 12, NEW body \in Seq(Byte)
  PROVE  /\ h \o body \in Seq(Byte) /\ Len(h \o body) = 12 + Len(body)
         /\ SubSeq(h \o body, 1, 12) = h
         /\ SubSeq(h \o body, 13, Len(h \o body)) = body
<1> DEFINE s == h \o body
           n == Len(body)
<1>1. /\ s \in Seq(Byte) /\ Len(s) = Len(h) + Len(body) /\ n \in Nat
      /\ \A i \in 1..Len(h) + Len(body) : s[i] = IF i <= Len(h) THEN h[i] ELSE body[i - Len(h)]
  BY ConcatProperties, LenProperties
<1> HIDE DEF s
<1>2. /\ Len(s) = 12 + n /\ \A i \in 1..12 : s[i] = h[i]
      /\ \A i \in 1..n : s[12 + i] = body[i]
  <2>1. \A i \in 1..12 + n : s[i] = IF i <= 12 THEN h[i] ELSE body[i - 12]
    BY <1>1
  <2>2. Len(s) = 12 + n
    BY <1>1
  <2> HIDE DEF n
  <2>3. \A i \in 1..12 : i \in 1..12 + n /\ i <= 12
    BY <1>1
  <2>4. \A i \in 1..n : 12 + i \in 1..12 + n /\ ~(12 + i <= 12) /\ (12 + i) - 12 = i
    BY <1>1
  <2> QED
    BY <2>1, <2>2, <2>3, <2>4
<1> HIDE DEF n
<1>3. \A i \in 1..12 + n : s[i] \in Byte
  BY <1>1, <1>2, ElementOfSeq
<1>4. /\ SubSeq(s, 1, 12) \in Seq(Byte) /\ Len(SubSeq(s, 1, 12)) = 12
      /\ \A i \in 1..12 : SubSeq(s, 1, 12)[i] = s[i]
  <2>1. \A i \in 1..12 : s[i] \in Byte
    BY <1>1, <1>3
  <2>2. 1 \in Int /\ 12 \in Int /\ 1 <= 12 /\ 12 - 1 + 1 = 12 /\ \A i \in 1..12 : 1 + i - 1 = i
    OBVIOUS
  <2> QED
    BY <2>1, <2>2, SubSeqProperties
<1>5. SubSeq(s, 1, 12) = h
  BY <1>2, <1>4, SeqEqual
<1>6. /\ SubSeq(s, 13, 12 + n) \in Seq(Byte) /\ Len(SubSeq(s, 13, 12 + n)) = n
      /\ \A i \in 1..n : SubSeq(s, 13, 12 + n)[i] = s[12 + i]
  <2>1. \A i \in 13..12 + n : s[i] \in Byte
    BY <1>1, <1>3
  <2>2. 13 \in Int /\ 12 + n \in Int /\ (IF 13 <= 12 + n THEN (12 + n) - 13 + 1 ELSE 0) = n
        /\ (12 + n) - 13 + 1 = n /\ \A i \in 1..n : 13 + i - 1 = 12 + i
    BY <1>1
  <2> QED
    BY <2>1, <2>2, SubSeqProperties
<1>7. SubSeq(s, 13, 12 + n) = body
  BY <1>2, <1>6, SeqEqual DEF n
<1> QED
  BY <1>1, <1>2, <1>5, <1>7 DEF s, n

\* What sstdata_open reads of the head.
LEMMA HeadRead ==
  ASSUME NEW b \in Buffers, b.SEEK = 0, NEW n \in Nat, n <= INT_MAX
  PROVE  /\ buffer_getint(Skip(Filled(b, HeadBytes(n)), 4)) = n
         /\ buffer_getint(Skip(Filled(b, HeadBytes(n)), 8)) = MAX
<1> DEFINE h == Filled(b, HeadBytes(n))
<1>1. MAX \in Nat /\ MAX <= INT_MAX /\ 4 \in Nat /\ 8 \in Nat
  BY IntAssumption
<1>2. /\ HeadBytes(n) \in Seq(Byte)
      /\ Part(HeadBytes(n), 4, IntBytes(n)) /\ Part(HeadBytes(n), 8, IntBytes(MAX))
  BY HeadIs
<1>3. Readable(h) /\ h.buf = HeadBytes(n) /\ h.SEEK = 0
  BY <1>2, BufferFacts DEF Filled, Readable
<1> HIDE DEF h
<1>4. h.SEEK + 4 = 4 /\ h.SEEK + 8 = 8
  BY <1>3
<1>5. Part(h.buf, h.SEEK + 4, IntBytes(n)) /\ Part(h.buf, h.SEEK + 8, IntBytes(MAX))
  BY <1>2, <1>3, <1>4
<1> QED
  BY <1>1, <1>3, <1>5, ReadInt DEF h

-----------------------------------------------------------------------------
(* The items that WriteData writes. *)

LEMMA Prefix ==
  ASSUME NEW S, NEW s \in Seq(S)
  PROVE  /\ SubSeq(s, 1, 0) = <<>> /\ SubSeq(s, 1, Len(s)) = s
         /\ \A i \in 1..Len(s) : /\ SubSeq(s, 1, i - 1) \in Seq(S) /\ Len(SubSeq(s, 1, i - 1)) = i - 1
                                 /\ SubSeq(s, 1, i) = Append(SubSeq(s, 1, i - 1), s[i])
                                 /\ s[i] \in S
<1>1. SubSeq(s, 1, 0) = <<>>
  BY SubSeqEmpty, 1 \in Int, 0 \in Int, 0 < 1
<1>2. SubSeq(s, 1, Len(s)) = s
  BY SubSeqFull
<1>3. ASSUME NEW i \in 1..Len(s)
      PROVE  /\ SubSeq(s, 1, i - 1) \in Seq(S) /\ Len(SubSeq(s, 1, i - 1)) = i - 1
             /\ SubSeq(s, 1, i) = Append(SubSeq(s, 1, i - 1), s[i])
             /\ s[i] \in S
  <2>1. Len(s) \in Nat /\ s[i] \in S /\ \A j \in 1..i - 1 : s[j] \in S
    BY ElementOfSeq, LenProperties
  <2>2. 1 \in Int /\ i - 1 \in Int /\ (IF 1 <= i - 1 THEN (i - 1) - 1 + 1 ELSE 0) = i - 1
    BY <2>1
  <2>3. SubSeq(s, 1, i - 1) \in Seq(S) /\ Len(SubSeq(s, 1, i - 1)) = i - 1
    BY <2>1, <2>2, SubSeqProperties
  <2>4. SubSeq(s, 1, i) = SubSeq(s, 1, i - 1) \o <<s[i]>>
    <3>1. 1 \in 1..Len(s) /\ i \in 1..Len(s)
      BY <2>1
    <3> QED
      BY <3>1, SubSeqRecursiveSecond
  <2>5. Append(SubSeq(s, 1, i - 1), s[i]) = SubSeq(s, 1, i - 1) \o <<s[i]>>
    BY <2>1, <2>3, AppendIsConcat
  <2> QED
    BY <2>1, <2>3, <2>4, <2>5
<1> QED
  BY <1>1, <1>2, <1>3

\* One step of the loop of writedata.
AfterItem(w, d) ==
  LET b == buffer_putdata(w.buf, d)
  IN IF b.NUL > FLUSH_AT
     THEN [out |-> w.out \o Written(b), buf |-> buffer_clear(buffer_detach(b))]
     ELSE [w EXCEPT !.buf = b]

LEMMA AfterItemFacts ==
  ASSUME NEW w \in [out : Seq(Byte), buf : Buffers], NEW d \in Items
  PROVE  /\ AfterItem(w, d) \in [out : Seq(Byte), buf : Buffers]
         /\ \A items : Holds(w.out \o w.buf.buf, items) =>
              Holds(AfterItem(w, d).out \o AfterItem(w, d).buf.buf, Append(items, d))
<1> DEFINE b == buffer_putdata(w.buf, d)
<1>1. w.buf \in Buffers /\ w.out \in Seq(Byte) /\ w.buf.buf \in Seq(Byte)
  BY BufferFacts
<1>2. b \in Buffers
  BY <1>1, PutItemIn
<1>3. PICK p \in Seq(Byte) : b.buf = w.buf.buf \o p /\ Len(p) = DataBytes(d) /\ ItemAt(p, 0, d)
  BY <1>1, PutItemIn
<1>4. AfterItem(w, d) = IF b.NUL > FLUSH_AT
                        THEN [out |-> w.out \o b.buf, buf |-> buffer_clear(buffer_detach(b))]
                        ELSE [w EXCEPT !.buf = b]
  BY DEF AfterItem, Written
<1> HIDE DEF b
<1>5. b.buf \in Seq(Byte) /\ w.out \o b.buf \in Seq(Byte)
  BY <1>1, <1>2, BufferFacts, ConcatProperties
<1>6. buffer_clear(buffer_detach(b)) \in Buffers /\ buffer_clear(buffer_detach(b)).buf = <<>>
  BY <1>2, ClearIn
<1>7. AfterItem(w, d) \in [out : Seq(Byte), buf : Buffers]
  BY <1>1, <1>2, <1>4, <1>5, <1>6
<1>8. AfterItem(w, d).out \o AfterItem(w, d).buf.buf = (w.out \o w.buf.buf) \o p
  <2>1. (w.out \o w.buf.buf) \o p = w.out \o b.buf
    <3>1. \A x, y, z \in Seq(Byte) : (x \o y) \o z = x \o (y \o z)
      BY ConcatAssociative
    <3>2. (w.out \o w.buf.buf) \o p = w.out \o (w.buf.buf \o p)
      BY <1>1, <3>1, Zenon
    <3> QED
      BY <1>3, <3>2, Zenon
  <2>2. CASE b.NUL > FLUSH_AT
    <3>1. AfterItem(w, d).out = w.out \o b.buf /\ AfterItem(w, d).buf.buf = <<>>
      BY <1>4, <1>6, <2>2
    <3>2. (w.out \o b.buf) \o <<>> = w.out \o b.buf
      BY <1>5, ConcatEmptySeq
    <3> QED
      BY <2>1, <3>1, <3>2
  <2>3. CASE ~(b.NUL > FLUSH_AT)
    <3>1. AfterItem(w, d).out = w.out /\ AfterItem(w, d).buf = b
      BY <1>4, <2>3
    <3> QED
      BY <2>1, <3>1
  <2> QED
    BY <2>2, <2>3
<1>9. ASSUME NEW items, Holds(w.out \o w.buf.buf, items)
      PROVE  Holds(AfterItem(w, d).out \o AfterItem(w, d).buf.buf, Append(items, d))
  BY <1>3, <1>8, <1>9, HoldsMore, Zenon
<1> QED
  BY <1>7, <1>9

\* The bytes that are written are those of the items in the array.
LEMMA DataWritten ==
  ASSUME buf \in Buffers, buf.buf = <<>>, keys \in Seq(Items)
  PROVE  /\ WrittenData.out \in Seq(Byte) /\ WrittenData.buf \in Buffers
         /\ Holds(WrittenData.out \o WrittenData.buf.buf, keys)
<1> DEFINE n == Len(keys)
           A == [out : Seq(Byte), buf : Buffers]
           b == [out |-> <<>>, buf |-> buf]
           step == [k \in 1..n |-> [w \in A |-> AfterItem(w, keys[k])]]
<1>1. n \in Nat /\ DOMAIN keys = 1..n /\ \A k \in 1..n : keys[k] \in Items
  BY LenProperties, ElementOfSeq
<1>2. b \in A
  BY EmptySeq
<1>3. \A k \in 1..n : \A w \in A : AfterItem(w, keys[k]) \in A
  BY <1>1, AfterItemFacts
<1>4. step \in [1..n -> [A -> A]]
  BY <1>3
<1>5. \A k \in 1..n : \A w \in A : step[k][w] = AfterItem(w, keys[k])
  OBVIOUS
<1> HIDE DEF A, step, n
<1>6. PICK it \in [SUBSET (1..n) -> A] :
        \A T \in SUBSET (1..n) : it[T] = IF T = {} THEN b ELSE step[Max(T)][it[T \ {Max(T)}]]
  <2>1. FoldIn(n, A, b, step)
    BY <1>1, <1>2, <1>4, FoldExists
  <2> QED
    BY <2>1 DEF FoldIn
<1>7. \A T \in SUBSET (1..n) : T # {} => Max(T) \in 1..n /\ T \ {Max(T)} \in SUBSET (1..n)
  <2>1. ASSUME NEW T \in SUBSET (1..n), T # {} PROVE Max(T) \in T
    <3>1. T \subseteq 0..n
      BY <1>1
    <3> QED
      BY <1>1, <2>1, <3>1, MaxOf
  <2> QED
    BY <2>1
<1> DEFINE Is(f) == f = [T \in SUBSET (1..n) |->
                           IF T = {} THEN b ELSE AfterItem(f[T \ {Max(T)}], keys[Max(T)])]
<1>8. Is(it)
  <2>1. \A T \in SUBSET (1..n) :
          it[T] = IF T = {} THEN b ELSE AfterItem(it[T \ {Max(T)}], keys[Max(T)])
    <3> SUFFICES ASSUME NEW T \in SUBSET (1..n)
                 PROVE  it[T] = IF T = {} THEN b ELSE AfterItem(it[T \ {Max(T)}], keys[Max(T)])
      OBVIOUS
    <3>1. CASE T = {}
      BY <1>6, <3>1
    <3>2. CASE T # {}
      <4>1. Max(T) \in 1..n /\ it[T \ {Max(T)}] \in A
        BY <1>6, <1>7, <3>2
      <4> QED
        BY <1>5, <1>6, <3>2, <4>1
    <3> QED
      BY <3>1, <3>2
  <2>2. it = [T \in SUBSET (1..n) |-> it[T]]
    OBVIOUS
  <2> QED
    BY <2>1, <2>2, Zenon
<1> DEFINE f == CHOOSE f : Is(f)
<1>9. Is(f)
  BY <1>8
<1>10. WrittenData = f[1..n]
  BY <1>1 DEF WrittenData, FoldLeft, MapThenFoldSet, AfterItem
<1>11. \A T \in SUBSET (1..n) : f[T] = IF T = {} THEN b ELSE AfterItem(f[T \ {Max(T)}], keys[Max(T)])
  <2> HIDE DEF f
  <2> QED
    BY <1>9
<1> HIDE DEF Is, f
<1>12. f[1..0] = b /\ \A i \in 1..n : f[1..i] = AfterItem(f[1..i - 1], keys[i])
  <2>1. /\ 1..0 = {} /\ \A i \in 0..n : 1..i \in SUBSET (1..n)
        /\ \A i \in 1..n : /\ 1..i # {} /\ Max(1..i) = i /\ (1..i) \ {i} = 1..i - 1
    BY <1>1, FirstPlaces
  <2>2. 1..0 \in SUBSET (1..n) /\ \A i \in 1..n : 1..i \in SUBSET (1..n)
    BY <1>1
  <2> QED
    BY <1>11, <2>1, <2>2, Zenon
<1> DEFINE Good(i) == /\ f[1..i] \in A
                      /\ Holds(f[1..i].out \o f[1..i].buf.buf, SubSeq(keys, 1, i))
           T == {i \in Nat : i <= n => Good(i)}
<1>13. 0 \in T
  <2>1. b.out \o b.buf.buf = <<>>
    <3>1. b.out = <<>> /\ b.buf.buf = <<>>
      OBVIOUS
    <3>2. <<>> \in Seq(Byte)
      BY EmptySeq
    <3> QED
      BY <3>1, <3>2, ConcatEmptySeq
  <2>2. SubSeq(keys, 1, 0) = <<>>
    BY Prefix
  <2> HIDE DEF b
  <2>3. Good(0)
    BY <1>2, <1>12, <2>1, <2>2, HoldsNone
  <2> HIDE DEF Good
  <2> QED
    BY <2>3
<1>14. ASSUME NEW i \in T, i \in Nat PROVE i + 1 \in T
  <2> SUFFICES ASSUME i + 1 <= n PROVE Good(i + 1)
    <3> HIDE DEF Good
    <3> QED
      BY <1>14
  <2>1. i <= n /\ i + 1 \in 1..n /\ (i + 1) - 1 = i
    BY <1>1, <1>14
  <2>2. Good(i)
    <3> HIDE DEF Good
    <3> QED
      BY <1>14, <2>1
  <2>3. f[1..i + 1] = AfterItem(f[1..i], keys[i + 1]) /\ keys[i + 1] \in Items
    BY <1>1, <1>12, <2>1
  <2>4. SubSeq(keys, 1, i + 1) = Append(SubSeq(keys, 1, i), keys[i + 1])
    BY <2>1, Prefix DEF n
  <2>5. f[1..i] \in [out : Seq(Byte), buf : Buffers]
    BY <2>2 DEF A
  <2>6. AfterItem(f[1..i], keys[i + 1]) \in A
    BY <2>3, <2>5, AfterItemFacts DEF A
  <2>7. Holds(AfterItem(f[1..i], keys[i + 1]).out \o AfterItem(f[1..i], keys[i + 1]).buf.buf,
              Append(SubSeq(keys, 1, i), keys[i + 1]))
    BY <2>2, <2>3, <2>5, AfterItemFacts, Zenon
  <2> QED
    BY <2>3, <2>4, <2>6, <2>7, Zenon
<1>15. n \in T
  <2> HIDE DEF T
  <2> QED
    BY <1>1, <1>13, <1>14, SetInduction
<1>16. Good(n)
  <2> HIDE DEF Good
  <2> QED
    BY <1>1, <1>15
<1>17. SubSeq(keys, 1, n) = keys
  BY Prefix DEF n
<1> QED
  BY <1>10, <1>16, <1>17 DEF A

-----------------------------------------------------------------------------
(* Arrays with the same items. *)

\* The first n places of s and t have the same items, each as often.
SameItems(n, s, t) ==
  \E to, from \in [1..n -> 1..n] :
    \A i \in 1..n : to[from[i]] = i /\ from[to[i]] = i /\ s[i] = t[to[i]]

\* s has the items of t, perhaps in another order.
Rearranged(s, t) == Len(s) = Len(t) /\ SameItems(Len(t), s, t)

LEMMA RearrangedSelf ==
  ASSUME NEW D, NEW s \in Seq(D)
  PROVE  Rearranged(s, s)
<1> DEFINE n == Len(s)
           same == [i \in 1..n |-> i]
<1>1. same \in [1..n -> 1..n]
  OBVIOUS
<1>2. \A i \in 1..n : same[same[i]] = i /\ s[i] = s[same[i]]
  OBVIOUS
<1> HIDE DEF same
<1> QED
  BY <1>1, <1>2 DEF Rearranged, SameItems

LEMMA RearrangedTrans ==
  ASSUME NEW r, NEW s, NEW t, Rearranged(r, s), Rearranged(s, t)
  PROVE  Rearranged(r, t)
<1> DEFINE n == Len(t)
<1>1. Len(s) = n /\ Len(r) = n
  BY DEF Rearranged
<1>2. PICK to1 \in [1..n -> 1..n], from1 \in [1..n -> 1..n] :
        \A i \in 1..n : to1[from1[i]] = i /\ from1[to1[i]] = i /\ r[i] = s[to1[i]]
  <2>1. SameItems(n, r, s)
    BY <1>1, Zenon DEF Rearranged
  <2> QED
    BY <2>1 DEF SameItems
<1>3. PICK to2 \in [1..n -> 1..n], from2 \in [1..n -> 1..n] :
        \A i \in 1..n : to2[from2[i]] = i /\ from2[to2[i]] = i /\ s[i] = t[to2[i]]
  BY <1>1 DEF Rearranged, SameItems
<1> HIDE DEF n
<1> DEFINE to == [i \in 1..n |-> to2[to1[i]]]
           from == [i \in 1..n |-> from1[from2[i]]]
<1>4. to \in [1..n -> 1..n] /\ from \in [1..n -> 1..n]
  OBVIOUS
<1>5. \A i \in 1..n : to[from[i]] = i /\ from[to[i]] = i /\ r[i] = t[to[i]]
  BY <1>2, <1>3
<1> HIDE DEF to, from
<1> QED
  BY <1>1, <1>4, <1>5 DEF Rearranged, SameItems, n

\* Whatever is in s is in t.
Covers(s, t) == \A i \in 1..Len(s) : \E j \in 1..Len(t) : s[i] = t[j]

\* What each array has, the other has too.
LEMMA RearrangedItems ==
  ASSUME NEW s, NEW t, Rearranged(s, t)
  PROVE  Covers(s, t) /\ Covers(t, s)
<1>1. PICK to \in [1..Len(t) -> 1..Len(t)], from \in [1..Len(t) -> 1..Len(t)] :
        \A i \in 1..Len(t) : to[from[i]] = i /\ from[to[i]] = i /\ s[i] = t[to[i]]
  BY DEF Rearranged, SameItems
<1>2. Len(s) = Len(t)
  BY DEF Rearranged
<1>3. \A i \in 1..Len(t) : to[i] \in 1..Len(t) /\ s[i] = t[to[i]]
  BY <1>1
<1>4. \A j \in 1..Len(t) : from[j] \in 1..Len(t) /\ s[from[j]] = t[j]
  BY <1>1
<1> QED
  BY <1>2, <1>3, <1>4, Zenon DEF Covers

LEMMA RearrangedCount ==
  ASSUME NEW D, NEW s \in Seq(D), NEW t \in Seq(D), Rearranged(s, t), NEW x
  PROVE  Count(x, s) = Count(x, t)
<1> DEFINE n == Len(t)
           S == {i \in 1..n : Shown(s[i]) = Shown(x)}
           T == {i \in 1..n : Shown(t[i]) = Shown(x)}
<1>1. n \in Nat /\ DOMAIN s = 1..n /\ DOMAIN t = 1..n
  BY LenProperties DEF Rearranged
<1>2. PICK to \in [1..n -> 1..n], from \in [1..n -> 1..n] :
        \A i \in 1..n : to[from[i]] = i /\ from[to[i]] = i /\ s[i] = t[to[i]]
  BY DEF Rearranged, SameItems
<1>3. Count(x, s) = Cardinality(S) /\ Count(x, t) = Cardinality(T)
  BY <1>1 DEF Count
<1> HIDE DEF n
<1> DEFINE g == [i \in S |-> to[i]]
<1>4. g \in [S -> T]
  BY <1>2
<1>5. \A i, j \in S : g[i] = g[j] => i = j
  BY <1>2
<1>6. \A j \in T : \E i \in S : g[i] = j
  <2> SUFFICES ASSUME NEW j \in T PROVE \E i \in S : g[i] = j
    OBVIOUS
  <2>1. from[j] \in 1..n /\ to[from[j]] = j /\ s[from[j]] = t[j]
    BY <1>2
  <2>2. from[j] \in S
    BY <2>1
  <2> QED
    BY <2>1, <2>2
<1>7. ExistsBijection(S, T)
  <2>1. g \in Bijection(S, T)
    <3> HIDE DEF g, S, T
    <3> QED
      BY <1>4, <1>5, <1>6 DEF Bijection, Injection, Surjection, IsInjective
  <2> QED
    BY <2>1 DEF ExistsBijection
<1>8. IsFiniteSet(S)
  <2>1. IsFiniteSet(1..n) /\ S \subseteq 1..n
    BY <1>1, FS_Interval, 1 \in Int
  <2> QED
    BY <2>1, FS_Subset
<1>9. Cardinality(T) = Cardinality(S)
  <2> HIDE DEF S, T
  <2> QED
    BY <1>7, <1>8, FS_Bijection
<1> QED
  BY <1>3, <1>9

LEMMA RearrangedStored ==
  ASSUME NEW s \in Seq(Items), NEW t \in Seq(Items), Rearranged(s, t)
  PROVE  Rearranged(Stored(s), Stored(t))
<1> DEFINE n == Len(t)
           ss == Stored(s)
           st == Stored(t)
<1>1. Len(s) = n /\ Len(ss) = n /\ Len(st) = n
      /\ \A i \in 1..n : ss[i] = Reread(s[i]) /\ st[i] = Reread(t[i])
  BY StoredFacts DEF Rearranged
<1>2. PICK to \in [1..n -> 1..n], from \in [1..n -> 1..n] :
        \A i \in 1..n : to[from[i]] = i /\ from[to[i]] = i /\ s[i] = t[to[i]]
  BY DEF Rearranged, SameItems
<1> HIDE DEF n, ss, st
<1>3. \A i \in 1..n : to[from[i]] = i /\ from[to[i]] = i /\ ss[i] = st[to[i]]
  BY <1>1, <1>2
<1>4. SameItems(n, ss, st)
  BY <1>3 DEF SameItems
<1>5. Rearranged(ss, st)
  BY <1>1, <1>4, Zenon DEF Rearranged
<1> QED
  BY <1>5 DEF ss, st

\* An item in front of place p.
LEMMA InsertFacts ==
  ASSUME NEW D, NEW s \in Seq(D), NEW p \in 1..Len(s) + 1, NEW d \in D
  PROVE  /\ InsertAt(s, p, d) \in Seq(D) /\ Len(InsertAt(s, p, d)) = Len(s) + 1
         /\ \A i \in 1..Len(s) + 1 :
              InsertAt(s, p, d)[i] = IF i < p THEN s[i] ELSE IF i = p THEN d ELSE s[i - 1]
<1> DEFINE n == Len(s)
           a == SubSeq(s, 1, p - 1)
           b == SubSeq(s, p, n)
           one == <<d>>
           ab == a \o one
<1>1. n \in Nat /\ p \in Int /\ p - 1 \in Int /\ n \in Int /\ 1 \in Int /\ p \in 1..n + 1
      /\ \A i \in 1..n : s[i] \in D
  BY LenProperties, ElementOfSeq
<1>2. /\ a \in Seq(D) /\ Len(a) = p - 1 /\ \A i \in 1..p - 1 : a[i] = s[i]
  <2>1. /\ \A i \in 1..p - 1 : s[i] \in D
        /\ (IF 1 <= p - 1 THEN (p - 1) - 1 + 1 ELSE 0) = p - 1 /\ (p - 1) - 1 + 1 = p - 1
        /\ \A i \in 1..p - 1 : 1 + i - 1 = i
    BY <1>1
  <2> QED
    BY <1>1, <2>1, SubSeqProperties
<1>3. /\ b \in Seq(D) /\ Len(b) = n - p + 1 /\ \A i \in 1..n - p + 1 : b[i] = s[p + i - 1]
  <2>1. /\ \A i \in p..n : s[i] \in D
        /\ (IF p <= n THEN n - p + 1 ELSE 0) = n - p + 1
    BY <1>1
  <2> QED
    BY <1>1, <2>1, SubSeqProperties
<1>4. one \in Seq(D) /\ Len(one) = 1 /\ one[1] = d
  OBVIOUS
<1>5. InsertAt(s, p, d) = ab \o b
  BY DEF InsertAt
<1> HIDE DEF n, a, b, one
<1>6. /\ ab \in Seq(D) /\ Len(ab) = Len(a) + Len(one)
      /\ \A i \in 1..Len(a) + Len(one) : ab[i] = IF i <= Len(a) THEN a[i] ELSE one[i - Len(a)]
  BY <1>2, <1>4, ConcatProperties
<1> HIDE DEF ab
<1> DEFINE c == ab \o b
<1>7. /\ c \in Seq(D) /\ Len(c) = Len(ab) + Len(b)
      /\ \A i \in 1..Len(ab) + Len(b) : c[i] = IF i <= Len(ab) THEN ab[i] ELSE b[i - Len(ab)]
  BY <1>3, <1>6, ConcatProperties
<1> HIDE DEF c
<1>8. Len(ab) = p /\ \A i \in 1..p : ab[i] = IF i < p THEN s[i] ELSE d
  <2>1. Len(ab) = p
    BY <1>1, <1>2, <1>4, <1>6
  <2>2. \A i \in 1..p : ab[i] = IF i <= p - 1 THEN a[i] ELSE one[i - (p - 1)]
    BY <1>1, <1>2, <1>4, <1>6
  <2>3. \A i \in 1..p : i <= p - 1 => i < p /\ i \in 1..p - 1
    BY <1>1
  <2>4. \A i \in 1..p : ~(i <= p - 1) => ~(i < p) /\ i - (p - 1) = 1
    BY <1>1
  <2> QED
    BY <1>2, <1>4, <2>1, <2>2, <2>3, <2>4
<1>9. Len(c) = n + 1
  <2>1. p + (n - p + 1) = n + 1
    BY <1>1
  <2> QED
    BY <1>3, <1>7, <1>8, <2>1
<1>10. ASSUME NEW i \in 1..n + 1
       PROVE  c[i] = IF i < p THEN s[i] ELSE IF i = p THEN d ELSE s[i - 1]
  <2>1. Len(ab) + Len(b) = n + 1
    BY <1>7, <1>9
  <2>2. c[i] = IF i <= p THEN ab[i] ELSE b[i - p]
    BY <1>7, <1>8, <2>1
  <2>3. CASE i <= p
    <3>1. i \in 1..p /\ (i < p \/ i = p)
      BY <1>1, <2>3
    <3> QED
      BY <1>8, <2>2, <2>3, <3>1
  <2>4. CASE ~(i <= p)
    <3>1. ~(i < p) /\ i # p /\ i - p \in 1..n - p + 1 /\ p + (i - p) - 1 = i - 1
      BY <1>1, <2>4
    <3> QED
      BY <1>3, <2>2, <2>4, <3>1
  <2> QED
    BY <2>3, <2>4
<1> QED
  BY <1>5, <1>7, <1>9, <1>10 DEF c, n

LEMMA RearrangedInsert ==
  ASSUME NEW D, NEW s \in Seq(D), NEW t \in Seq(D), Rearranged(s, t),
         NEW p \in 1..Len(s) + 1, NEW d \in D
  PROVE  Rearranged(InsertAt(s, p, d), Append(t, d))
<1> DEFINE n == Len(t)
           si == InsertAt(s, p, d)
           ta == Append(t, d)
<1>1. n \in Nat /\ Len(s) = n
  BY LenProperties DEF Rearranged
<1>2. PICK to \in [1..n -> 1..n], from \in [1..n -> 1..n] :
        \A i \in 1..n : to[from[i]] = i /\ from[to[i]] = i /\ s[i] = t[to[i]]
  BY DEF Rearranged, SameItems
<1>3. /\ Len(si) = n + 1
      /\ \A i \in 1..n + 1 : si[i] = IF i < p THEN s[i] ELSE IF i = p THEN d ELSE s[i - 1]
  <2>1. /\ InsertAt(s, p, d) \in Seq(D) /\ Len(InsertAt(s, p, d)) = Len(s) + 1
        /\ \A i \in 1..Len(s) + 1 :
             InsertAt(s, p, d)[i] = IF i < p THEN s[i] ELSE IF i = p THEN d ELSE s[i - 1]
    BY InsertFacts
  <2> HIDE DEF n
  <2> QED
    BY <1>1, <2>1
<1>4. Len(ta) = n + 1 /\ (\A i \in 1..n : ta[i] = t[i]) /\ ta[n + 1] = d
  BY AppendProperties
<1>5. p \in 1..n + 1
  BY <1>1
<1> HIDE DEF n, si, ta
<1> DEFINE to2 == [i \in 1..n + 1 |-> IF i < p THEN to[i] ELSE IF i = p THEN n + 1 ELSE to[i - 1]]
           from2 == [j \in 1..n + 1 |-> IF j = n + 1 THEN p
                                        ELSE IF from[j] < p THEN from[j] ELSE from[j] + 1]
<1>6. /\ \A i \in 1..n + 1 : i < p => i \in 1..n
      /\ \A i \in 1..n + 1 : ~(i < p) /\ i # p => i - 1 \in 1..n /\ ~(i - 1 < p) /\ i - 1 + 1 = i
      /\ \A i \in 1..n : i \in 1..n + 1 /\ i # n + 1 /\ i + 1 \in 1..n + 1
      /\ \A i \in 1..n : ~(i < p) => ~(i + 1 < p) /\ i + 1 # p /\ (i + 1) - 1 = i
      /\ n + 1 \in 1..n + 1
  BY <1>1, <1>5
<1>7. to2 \in [1..n + 1 -> 1..n + 1] /\ from2 \in [1..n + 1 -> 1..n + 1]
  <2>1. ASSUME NEW i \in 1..n + 1
        PROVE  (IF i < p THEN to[i] ELSE IF i = p THEN n + 1 ELSE to[i - 1]) \in 1..n + 1
    BY <1>5, <1>6
  <2>2. ASSUME NEW j \in 1..n + 1
        PROVE  (IF j = n + 1 THEN p ELSE IF from[j] < p THEN from[j] ELSE from[j] + 1) \in 1..n + 1
    <3>1. CASE j = n + 1
      BY <1>5, <3>1
    <3>2. CASE j # n + 1
      <4>1. j \in 1..n
        BY <1>1, <3>2
      <4> QED
        BY <1>6, <3>2, <4>1
    <3> QED
      BY <3>1, <3>2
  <2> QED
    BY <2>1, <2>2
<1>8. ASSUME NEW i \in 1..n + 1
      PROVE  to2[from2[i]] = i /\ from2[to2[i]] = i /\ si[i] = ta[to2[i]]
  <2>1. to2[from2[i]] = i
    <3>1. CASE i = n + 1
      <4>1. from2[i] = p
        BY <3>1
      <4> QED
        BY <1>5, <3>1, <4>1
    <3>2. CASE i # n + 1
      <4>1. i \in 1..n /\ from[i] \in 1..n
        <5>1. i \in 1..n
          BY <1>1, <3>2
        <5> QED
          BY <5>1
      <4>2. CASE from[i] < p
        <5>1. from2[i] = from[i] /\ from[i] \in 1..n + 1
          BY <1>6, <3>2, <4>1, <4>2
        <5>2. to2[from[i]] = to[from[i]]
          BY <4>2, <5>1
        <5> QED
          BY <1>2, <4>1, <5>1, <5>2
      <4>3. CASE ~(from[i] < p)
        <5>1. from2[i] = from[i] + 1 /\ from[i] + 1 \in 1..n + 1
          BY <1>6, <3>2, <4>1, <4>3
        <5>2. to2[from[i] + 1] = to[from[i]]
          BY <1>6, <4>1, <4>3, <5>1
        <5> QED
          BY <1>2, <4>1, <5>1, <5>2
      <4> QED
        BY <4>2, <4>3
    <3> QED
      BY <3>1, <3>2
  <2>2. from2[to2[i]] = i /\ si[i] = ta[to2[i]]
    <3>1. CASE i < p
      <4>1. i \in 1..n /\ to2[i] = to[i] /\ to[i] \in 1..n
        BY <1>6, <3>1
      <4>2. from2[to[i]] = i
        BY <1>2, <1>6, <3>1, <4>1
      <4>3. si[i] = s[i] /\ ta[to[i]] = t[to[i]]
        BY <1>3, <1>4, <3>1, <4>1
      <4> QED
        BY <1>2, <4>1, <4>2, <4>3
    <3>2. CASE i = p
      <4>1. to2[i] = n + 1 /\ from2[n + 1] = p
        BY <1>5, <1>6, <3>2
      <4>2. si[i] = d
        BY <1>3, <1>5, <3>2
      <4> QED
        BY <1>4, <3>2, <4>1, <4>2
    <3>3. CASE ~(i < p) /\ i # p
      <4>1. i - 1 \in 1..n /\ to2[i] = to[i - 1] /\ to[i - 1] \in 1..n /\ ~(i - 1 < p) /\ i - 1 + 1 = i
        BY <1>6, <3>3
      <4>2. from[to[i - 1]] = i - 1
        BY <1>2, <4>1
      <4>3. from2[to[i - 1]] = i
        BY <1>6, <4>1, <4>2
      <4>4. si[i] = s[i - 1] /\ ta[to[i - 1]] = t[to[i - 1]]
        BY <1>3, <1>4, <3>3, <4>1
      <4> QED
        BY <1>2, <4>1, <4>3, <4>4
    <3> QED
      BY <3>1, <3>2, <3>3
  <2> QED
    BY <2>1, <2>2
<1> HIDE DEF to2, from2
<1>9. Len(si) = Len(ta)
  BY <1>3, <1>4
<1>10. Rearranged(si, ta)
  <2>1. SameItems(n + 1, si, ta)
    BY <1>7, <1>8 DEF SameItems
  <2> QED
    BY <1>4, <1>9, <2>1, Zenon DEF Rearranged
<1> QED
  BY <1>10 DEF si, ta

-----------------------------------------------------------------------------
(* Halving. *)

LEMMA Middle ==
  ASSUME NEW l \in Nat, NEW r \in Int, l <= r
  PROVE  (l + r) \div 2 \in Nat /\ l <= (l + r) \div 2 /\ (l + r) \div 2 <= r
OBVIOUS

\* g gives what the loop of _sstdata_binaryinsert ends with, from any bounds.
PlaceFrom(g, data) ==
  \A l \in 0..key_num, r \in -1..key_num - 1, last \in -1..key_num - 1 :
    LET m == (l + r) \div 2
        k == keys[m + 1]
    IN /\ l > r => g[<<l, r, last>>] = [middle |-> last, how |-> "none"]
       /\ l <= r =>
            /\ k = Uninit => g[<<l, r, last>>] = [middle |-> m, how |-> "unset"]
            /\ k # Uninit /\ Comparator(k, data) = 1 => g[<<l, r, last>>] = g[<<l, m - 1, m>>]
            /\ k # Uninit /\ Comparator(k, data) = -1 => g[<<l, r, last>>] = g[<<m + 1, r, m>>]
            /\ k # Uninit /\ Comparator(k, data) = 0 =>
                 g[<<l, r, last>>] = [middle |-> m, how |-> "equal"]

LEMMA PlaceExists ==
  ASSUME key_num \in Nat, NEW data
  PROVE  \E g : PlaceFrom(g, data) /\ Place(data) = g[<<0, key_num - 1, -1>>]
<1> DEFINE D == (0..key_num) \X (-1..key_num-1) \X (-1..key_num-1)
           S == [middle : -1..key_num-1, how : {"none", "unset", "equal"}]
           mid(w) == (w[1] + w[2]) \div 2
           k(w) == keys[(w[1] + w[2]) \div 2 + 1]
           step(w, g) == IF w[1] > w[2] THEN [middle |-> w[3], how |-> "none"]
                         ELSE IF k(w) = Uninit THEN [middle |-> mid(w), how |-> "unset"]
                         ELSE CASE Comparator(k(w), data) = 1 -> g[<<w[1], mid(w) - 1, mid(w)>>]
                                [] Comparator(k(w), data) = -1 -> g[<<mid(w) + 1, w[2], mid(w)>>]
                                [] OTHER -> [middle |-> mid(w), how |-> "equal"]
           m == [w \in D |-> IF w[1] > w[2] THEN 0 ELSE w[2] - w[1] + 1]
           F == [w \in D |-> [g \in [D -> S] |-> step(w, g)]]
<1>1. \A w \in D : /\ w[1] \in 0..key_num /\ w[2] \in -1..key_num-1 /\ w[3] \in -1..key_num-1
                   /\ w = <<w[1], w[2], w[3]>>
  OBVIOUS
<1>2. \A l \in 0..key_num, r \in -1..key_num - 1, last \in -1..key_num - 1 : <<l, r, last>> \in D
  OBVIOUS
<1>3. m \in [D -> 0..key_num + 1]
  <2> SUFFICES ASSUME NEW w \in D
               PROVE  (IF w[1] > w[2] THEN 0 ELSE w[2] - w[1] + 1) \in 0..key_num + 1
    OBVIOUS
  <2>1. w[1] \in 0..key_num /\ w[2] \in -1..key_num-1
    BY <1>1
  <2> HIDE DEF D
  <2> QED
    BY <2>1
<1>4. \A w \in D : m[w] = IF w[1] > w[2] THEN 0 ELSE w[2] - w[1] + 1
  OBVIOUS
<1>5. ASSUME NEW w \in D, ~(w[1] > w[2])
      PROVE  /\ mid(w) \in -1..key_num-1
             /\ <<w[1], mid(w) - 1, mid(w)>> \in D /\ m[<<w[1], mid(w) - 1, mid(w)>>] < m[w]
             /\ <<mid(w) + 1, w[2], mid(w)>> \in D /\ m[<<mid(w) + 1, w[2], mid(w)>>] < m[w]
  <2> DEFINE l == w[1]
             r == w[2]
             h == (l + r) \div 2
  <2>1. l \in 0..key_num /\ r \in -1..key_num-1 /\ l <= r /\ l \in Nat /\ r \in Int
    BY <1>1, <1>5
  <2>2. m[w] = r - l + 1
    BY <1>4, <1>5
  <2>3. mid(w) = h
    OBVIOUS
  <2> HIDE DEF l, r, D, m
  <2>4. h \in Nat /\ l <= h /\ h <= r
    BY <2>1, Middle
  <2> HIDE DEF h
  <2>5. h \in -1..key_num-1 /\ h - 1 \in -1..key_num-1 /\ h + 1 \in 0..key_num
    BY <2>1, <2>4
  <2>6. <<l, h - 1, h>> \in D /\ <<h + 1, r, h>> \in D
    BY <1>2, <2>1, <2>5
  <2>7. m[<<l, h - 1, h>>] = (IF l > h - 1 THEN 0 ELSE (h - 1) - l + 1)
        /\ m[<<h + 1, r, h>>] = (IF h + 1 > r THEN 0 ELSE r - (h + 1) + 1)
    BY <1>4, <2>6
  <2>8. m[<<l, h - 1, h>>] < m[w] /\ m[<<h + 1, r, h>>] < m[w]
    BY <2>1, <2>2, <2>4, <2>7
  <2> QED
    BY <2>3, <2>5, <2>6, <2>8 DEF l, r
<1>6. ASSUME NEW w \in D, NEW g \in [D -> S] PROVE step(w, g) \in S
  <2>1. CASE w[1] > w[2]
    <3>1. w[3] \in -1..key_num-1
      BY <1>1
    <3> HIDE DEF D
    <3> QED
      BY <2>1, <3>1
  <2>2. CASE ~(w[1] > w[2])
    <3> DEFINE x == <<w[1], mid(w) - 1, mid(w)>>
               y == <<mid(w) + 1, w[2], mid(w)>>
               z == mid(w)
    <3>1. z \in -1..key_num-1 /\ x \in D /\ y \in D
      BY <1>5, <2>2
    <3>2. step(w, g) \in {[middle |-> z, how |-> "unset"], g[x], g[y], [middle |-> z, how |-> "equal"]}
      <4> HIDE DEF x, y, D, S
      <4> QED
        BY <2>2 DEF x, y
    <3> HIDE DEF D, x, y, z
    <3>3. g[x] \in S /\ g[y] \in S
      BY <3>1
    <3>4. [middle |-> z, how |-> "unset"] \in S /\ [middle |-> z, how |-> "equal"] \in S
      BY <3>1
    <3> QED
      BY <3>2, <3>3, <3>4, Zenon
  <2> QED
    BY <2>1, <2>2
<1>7. F \in [D -> [[D -> S] -> S]] /\ \A w \in D : \A g \in [D -> S] : F[w][g] = step(w, g)
  <2> HIDE DEF D, S, step
  <2> QED
    BY <1>6
<1>8. ASSUME NEW w \in D, NEW g \in [D -> S], NEW h \in [D -> S],
             \A q \in D : m[q] < m[w] => g[q] = h[q]
      PROVE  F[w][g] = F[w][h]
  <2>1. CASE w[1] > w[2]
    <3>1. step(w, g) = step(w, h)
      BY <2>1
    <3> QED
      BY <1>7, <3>1
  <2>2. CASE ~(w[1] > w[2])
    <3> DEFINE x == <<w[1], mid(w) - 1, mid(w)>>
               y == <<mid(w) + 1, w[2], mid(w)>>
    <3>1. x \in D /\ y \in D /\ m[x] < m[w] /\ m[y] < m[w]
      BY <1>5, <2>2
    <3>2. g[x] = h[x] /\ g[y] = h[y]
      <4> HIDE DEF x, y, D, m
      <4> QED
        BY <1>8, <3>1
    <3>3. step(w, g) = step(w, h)
      BY <2>2, <3>2
    <3> QED
      BY <1>7, <3>3
  <2> QED
    BY <2>1, <2>2
<1>9. S # {}
  <2>1. [middle |-> -1, how |-> "none"] \in S
    OBVIOUS
  <2> QED
    BY <2>1
<1> DEFINE Is(f) == f = [w \in D |-> step(w, f)]
<1>10. \E g \in [D -> S] : Is(g)
  <2> HIDE DEF D, S, m, F, step
  <2>1. Recurses(D, S, m, F)
    BY <1>7, <1>8, Zenon DEF Recurses
  <2>2. HasSolution(D, S, F)
    <3>1. key_num + 1 \in Nat
      OBVIOUS
    <3> QED
      BY <1>3, <1>9, <2>1, <3>1, Recursion
  <2>3. PICK g \in [D -> S] : \A w \in D : g[w] = F[w][g]
    BY <2>2 DEF HasSolution
  <2>4. \A w \in D : g[w] = step(w, g)
    BY <1>7, <2>3
  <2>5. g = [w \in D |-> g[w]]
    OBVIOUS
  <2>6. Is(g)
    BY <2>4, <2>5, Zenon
  <2> QED
    BY <2>6
<1> DEFINE f == CHOOSE f : Is(f)
<1>11. Is(f)
  BY <1>10
<1>12. Place(data) = f[<<0, key_num - 1, -1>>]
  BY DEF Place
<1> HIDE DEF f
<1>13. \A w \in D : f[w] = step(w, f)
  <2> HIDE DEF step, D
  <2> QED
    BY <1>11
<1>14. PlaceFrom(f, data)
  <2> SUFFICES ASSUME NEW l \in 0..key_num, NEW r \in -1..key_num - 1, NEW last \in -1..key_num - 1
               PROVE  LET h == (l + r) \div 2
                          x == keys[h + 1]
                      IN /\ l > r => f[<<l, r, last>>] = [middle |-> last, how |-> "none"]
                         /\ l <= r =>
                            /\ x = Uninit => f[<<l, r, last>>] = [middle |-> h, how |-> "unset"]
                            /\ x # Uninit /\ Comparator(x, data) = 1 =>
                                 f[<<l, r, last>>] = f[<<l, h - 1, h>>]
                            /\ x # Uninit /\ Comparator(x, data) = -1 =>
                                 f[<<l, r, last>>] = f[<<h + 1, r, h>>]
                            /\ x # Uninit /\ Comparator(x, data) = 0 =>
                                 f[<<l, r, last>>] = [middle |-> h, how |-> "equal"]
    BY DEF PlaceFrom
  <2> DEFINE w == <<l, r, last>>
  <2>1. w \in D /\ w[1] = l /\ w[2] = r /\ w[3] = last
    BY <1>2
  <2>2. f[w] = step(w, f)
    BY <1>13, <2>1
  <2> HIDE DEF D, w
  <2>3. l > r <=> ~(l <= r)
    OBVIOUS
  <2> QED
    BY <2>1, <2>2, <2>3 DEF w
<1> QED
  BY <1>12, <1>14

\* Of the first n places of s those that are set come first, strictly in order.
InOrder(s, n) ==
  /\ \A i \in 1..n : s[i] \in data_t \cup {Uninit}
  /\ \A i, j \in 1..n : i < j /\ s[j] # Uninit => s[i] # Uninit /\ Comparator(s[i], s[j]) = -1

\* In such an array all items before one that is less are less, and behind one
\* that is greater all are greater or unset.
LEMMA HalfOf ==
  ASSUME NEW n \in Nat, NEW s, InOrder(s, n), NEW data \in data_t, NEW p \in 1..n, s[p] # Uninit
  PROVE  /\ Comparator(s[p], data) = -1 =>
              \A j \in 1..p : s[j] # Uninit /\ Comparator(s[j], data) = -1
         /\ Comparator(s[p], data) = 1 =>
              \A j \in p..n : s[j] # Uninit => Comparator(s[j], data) = 1
<1> USE DEF InOrder
<1>0. s[p] \in data_t
  OBVIOUS
<1>1. ASSUME Comparator(s[p], data) = -1, NEW j \in 1..p
      PROVE  s[j] # Uninit /\ Comparator(s[j], data) = -1
  <2>1. j \in 1..n /\ (j = p \/ j < p)
    OBVIOUS
  <2>2. CASE j = p
    BY <1>1, <2>2
  <2>3. CASE j < p
    <3>1. s[j] # Uninit /\ Comparator(s[j], s[p]) = -1
      BY <2>1, <2>3
    <3>2. s[j] \in data_t
      BY <2>1, <3>1
    <3> QED
      BY <1>0, <1>1, <3>1, <3>2, ItemOrder
  <2> QED
    BY <2>1, <2>2, <2>3
<1>2. ASSUME Comparator(s[p], data) = 1, NEW j \in p..n, s[j] # Uninit
      PROVE  Comparator(s[j], data) = 1
  <2>1. j \in 1..n /\ s[j] \in data_t /\ (j = p \/ p < j)
    BY <1>2
  <2>2. CASE j = p
    BY <1>2, <2>2
  <2>3. CASE p < j
    <3>1. Comparator(s[p], s[j]) = -1 /\ Comparator(data, s[p]) = -1
      BY <1>0, <1>2, <2>1, <2>3, ItemOrder
    <3>2. Comparator(data, s[j]) = -1
      BY <1>0, <2>1, <3>1, ItemOrder
    <3> QED
      BY <2>1, <3>2, ItemOrder
  <2> QED
    BY <2>1, <2>2, <2>3
<1> QED
  BY <1>1, <1>2

\* Where the loop of _sstdata_binaryinsert ends: at an unset pointer, at the item
\* of the same key, or next to the one place where the array stays sorted.
Placed(data, at) ==
  /\ at.middle \in 0..key_num - 1 /\ at.how \in {"none", "unset", "equal"}
  /\ at.how = "unset" <=> keys[at.middle + 1] = Uninit
  /\ at.how = "equal" => Comparator(keys[at.middle + 1], data) = 0
  /\ InOrder(keys, key_num) /\ at.how = "none" =>
       LET i == IF Comparator(keys[at.middle + 1], data) > 0 THEN at.middle ELSE at.middle + 1
       IN /\ i \in 0..key_num
          /\ \A j \in 1..i : keys[j] # Uninit /\ Comparator(keys[j], data) = -1
          /\ \A j \in i + 1..key_num : keys[j] # Uninit => Comparator(keys[j], data) = 1

LEMMA PlaceIs ==
  ASSUME keys \in Seq(data_t \cup {Uninit}), key_num = Len(keys), key_num > 0,
         NEW data \in data_t, Uninit \notin data_t
  PROVE  Placed(data, Place(data))
<1>1. key_num \in Nat /\ DOMAIN keys = 1..key_num
      /\ \A i \in 1..key_num : keys[i] \in data_t \cup {Uninit}
  BY LenProperties, ElementOfSeq
<1>2. PICK g : PlaceFrom(g, data) /\ Place(data) = g[<<0, key_num - 1, -1>>]
  BY <1>1, PlaceExists
<1> DEFINE Sorted == InOrder(keys, key_num)
           Left(l) == \A j \in 1..l : keys[j] # Uninit /\ Comparator(keys[j], data) = -1
           Right(r) == \A j \in r + 2..key_num : keys[j] # Uninit => Comparator(keys[j], data) = 1
           Seen(l, r, last) == /\ last \in 0..key_num - 1 /\ keys[last + 1] # Uninit
                               /\ last = l - 1 \/ last = r + 1
           Bounds(l, r, last) == /\ l <= r + 1 /\ (l <= r \/ Seen(l, r, last))
                                 /\ Sorted => Left(l) /\ Right(r)
           Good(c) == \A l \in 0..key_num, r \in -1..key_num - 1, last \in -1..key_num - 1 :
                        Bounds(l, r, last) /\ r - l + 1 <= c => Placed(data, g[<<l, r, last>>])
           T == {c \in Nat : Good(c)}
<1>4. ASSUME NEW m \in 0..key_num - 1, Sorted, keys[m + 1] # Uninit
      PROVE  /\ Comparator(keys[m + 1], data) = -1 => Left(m + 1)
             /\ Comparator(keys[m + 1], data) = 1 => Right(m - 1)
  <2>2. m + 1 \in 1..key_num /\ (m - 1) + 2 = m + 1
    BY <1>1
  <2> DEFINE p == m + 1
  <2>4. p \in 1..key_num /\ key_num \in Nat /\ keys[p] # Uninit
    BY <1>1, <1>4, <2>2
  <2> HIDE DEF p
  <2>5. /\ Comparator(keys[p], data) = -1 =>
             \A j \in 1..p : keys[j] # Uninit /\ Comparator(keys[j], data) = -1
        /\ Comparator(keys[p], data) = 1 =>
             \A j \in p..key_num : keys[j] # Uninit => Comparator(keys[j], data) = 1
    BY <1>4, <2>4, HalfOf
  <2> QED
    BY <2>2, <2>5 DEF p
<1>5. ASSUME NEW l \in 0..key_num, NEW r \in -1..key_num - 1, NEW last \in -1..key_num - 1,
             Bounds(l, r, last), l > r
      PROVE  Placed(data, g[<<l, r, last>>])
  <2>1. l = r + 1 /\ Seen(l, r, last) /\ (Sorted => Left(l) /\ Right(r))
    BY <1>1, <1>5
  <2>2. g[<<l, r, last>>] = [middle |-> last, how |-> "none"]
    BY <1>2, <1>5 DEF PlaceFrom
  <2> DEFINE at == [middle |-> last, how |-> "none"]
             i == IF Comparator(keys[last + 1], data) > 0 THEN last ELSE last + 1
  <2>3. last \in 0..key_num - 1 /\ keys[last + 1] # Uninit
    BY <2>1
  <2>4. ASSUME Sorted
        PROVE  /\ i \in 0..key_num
               /\ \A j \in 1..i : keys[j] # Uninit /\ Comparator(keys[j], data) = -1
               /\ \A j \in i + 1..key_num : keys[j] # Uninit => Comparator(keys[j], data) = 1
    <3>1. Left(l) /\ Right(r)
      BY <2>1, <2>4
    <3>2. i = l
      <4>1. CASE last = l - 1
        <5>1. last + 1 \in 1..l /\ last + 1 = l
          BY <1>1, <2>3, <4>1
        <5>2. Comparator(keys[last + 1], data) = -1
          BY <3>1, <5>1
        <5> QED
          BY <5>1, <5>2
      <4>2. CASE last = r + 1
        <5>1. last + 1 \in r + 2..key_num /\ last = l
          BY <1>1, <2>1, <2>3, <4>2
        <5>2. Comparator(keys[last + 1], data) = 1
          BY <2>3, <3>1, <5>1
        <5> QED
          BY <5>1, <5>2
      <4> QED
        BY <2>1, <4>1, <4>2
    <3>3. \A j \in l + 1..key_num : j \in r + 2..key_num
      BY <1>1, <2>1
    <3> QED
      BY <3>1, <3>2, <3>3
  <2>5. at.middle = last /\ at.how = "none"
    OBVIOUS
  <2> HIDE DEF at
  <2>6. Placed(data, at)
    BY <2>3, <2>4, <2>5 DEF Placed
  <2> QED
    BY <2>2, <2>6 DEF at
<1>6. 0 \in T
  <2>1. Good(0)
    <3>1. \A l \in 0..key_num, r \in -1..key_num - 1 : r - l + 1 <= 0 => l > r
      BY <1>1
    <3> HIDE DEF Bounds
    <3> QED
      BY <1>5, <3>1
  <2> HIDE DEF Good
  <2> QED
    BY <2>1
<1>7. ASSUME NEW c \in T, c \in Nat PROVE c + 1 \in T
  <2>1. Good(c)
    BY <1>7
  <2>2. ASSUME NEW l \in 0..key_num, NEW r \in -1..key_num - 1, NEW last \in -1..key_num - 1,
               Bounds(l, r, last), r - l + 1 <= c + 1, l <= r
        PROVE  Placed(data, g[<<l, r, last>>])
    <3> DEFINE m == (l + r) \div 2
    <3>1. m \in Nat /\ l <= m /\ m <= r /\ l \in Nat /\ r \in Int
      BY <2>2, Middle
    <3>2. /\ keys[m + 1] = Uninit => g[<<l, r, last>>] = [middle |-> m, how |-> "unset"]
          /\ keys[m + 1] # Uninit /\ Comparator(keys[m + 1], data) = 1 =>
               g[<<l, r, last>>] = g[<<l, m - 1, m>>]
          /\ keys[m + 1] # Uninit /\ Comparator(keys[m + 1], data) = -1 =>
               g[<<l, r, last>>] = g[<<m + 1, r, m>>]
          /\ keys[m + 1] # Uninit /\ Comparator(keys[m + 1], data) = 0 =>
               g[<<l, r, last>>] = [middle |-> m, how |-> "equal"]
      BY <1>2, <2>2 DEF PlaceFrom
    <3> HIDE DEF m
    <3>3. /\ m \in 0..key_num - 1 /\ m + 1 \in 1..key_num /\ m - 1 \in -1..key_num - 1
          /\ m + 1 \in 0..key_num /\ m \in -1..key_num - 1
      BY <1>1, <3>1
    <3>4. CASE keys[m + 1] = Uninit
      <4> DEFINE at == [middle |-> m, how |-> "unset"]
      <4>1. at.middle = m /\ at.how = "unset"
        OBVIOUS
      <4> HIDE DEF at
      <4>2. Placed(data, at)
        BY <3>3, <3>4, <4>1 DEF Placed
      <4> QED
        BY <3>2, <3>4, <4>2 DEF at
    <3>5. CASE keys[m + 1] # Uninit
      <4>1. keys[m + 1] \in data_t
        BY <1>1, <3>3, <3>5
      <4>2. Comparator(keys[m + 1], data) \in {-1, 0, 1}
        BY <4>1, ItemOrder
      <4>3. CASE Comparator(keys[m + 1], data) = 0
        <5> DEFINE at == [middle |-> m, how |-> "equal"]
        <5>1. at.middle = m /\ at.how = "equal"
          OBVIOUS
        <5> HIDE DEF at
        <5>2. Placed(data, at)
          BY <3>3, <3>5, <4>3, <5>1 DEF Placed
        <5> QED
          BY <3>2, <3>5, <4>3, <5>2 DEF at
      <4>4. CASE Comparator(keys[m + 1], data) = 1
        <5>1. Bounds(l, m - 1, m)
          <6>1. l <= (m - 1) + 1 /\ m = (m - 1) + 1
            BY <3>1
          <6>2. Sorted => Left(l) /\ Right(m - 1)
            <7>1. Sorted => Left(l)
              BY <2>2
            <7> HIDE DEF Sorted, Left, Right
            <7> QED
              BY <1>4, <3>3, <3>5, <4>4, <7>1
          <6> HIDE DEF Sorted, Left, Right
          <6> QED
            BY <3>3, <3>5, <6>1, <6>2
        <5>2. (m - 1) - l + 1 <= c
          BY <1>7, <2>2, <3>1
        <5>3. Placed(data, g[<<l, m - 1, m>>])
          <6> HIDE DEF Bounds
          <6> QED
            BY <2>1, <3>3, <5>1, <5>2
        <5> QED
          BY <3>2, <3>5, <4>4, <5>3
      <4>5. CASE Comparator(keys[m + 1], data) = -1
        <5>1. Bounds(m + 1, r, m)
          <6>1. m + 1 <= r + 1 /\ m = (m + 1) - 1
            BY <3>1
          <6>2. Sorted => Left(m + 1) /\ Right(r)
            <7>1. Sorted => Right(r)
              BY <2>2
            <7> HIDE DEF Sorted, Left, Right
            <7> QED
              BY <1>4, <3>3, <3>5, <4>5, <7>1
          <6> HIDE DEF Sorted, Left, Right
          <6> QED
            BY <3>3, <3>5, <6>1, <6>2
        <5>2. r - (m + 1) + 1 <= c
          BY <1>7, <2>2, <3>1
        <5>3. Placed(data, g[<<m + 1, r, m>>])
          <6> HIDE DEF Bounds
          <6> QED
            BY <2>1, <3>3, <5>1, <5>2
        <5> QED
          BY <3>2, <3>5, <4>5, <5>3
      <4> QED
        BY <4>2, <4>3, <4>4, <4>5
    <3> QED
      BY <3>4, <3>5
  <2>3. Good(c + 1)
    <3>1. \A l \in 0..key_num, r \in -1..key_num - 1 : l > r \/ l <= r
      BY <1>1
    <3> HIDE DEF Bounds
    <3> QED
      BY <1>5, <2>2, <3>1
  <2>4. c + 1 \in Nat
    BY <1>7
  <2> HIDE DEF Good
  <2> QED
    BY <2>3, <2>4
<1>8. key_num \in T
  <2> HIDE DEF T
  <2> QED
    BY <1>1, <1>6, <1>7, SetInduction
<1>9. Good(key_num)
  <2> HIDE DEF Good
  <2> QED
    BY <1>8
<1>10. Bounds(0, key_num - 1, -1)
  BY <1>1
<1>11. /\ 0 \in 0..key_num /\ key_num - 1 \in -1..key_num - 1 /\ -1 \in -1..key_num - 1
       /\ (key_num - 1) - 0 + 1 <= key_num
  BY <1>1
<1> HIDE DEF Bounds
<1>12. Placed(data, g[<<0, key_num - 1, -1>>])
  BY <1>9, <1>10, <1>11
<1> QED
  BY <1>2, <1>12

\* g gives what the loop of _sstdata_binarysearch ends with, from any bounds, in a
\* search for the hash and the key of data.
SearchFrom(g, data) ==
  \A l \in 0..key_num, r \in -1..key_num - 1 :
    LET m == (l + r) \div 2
        k == keys[m + 1]
    IN /\ l > r => g[<<l, r>>] = NULL
       /\ l <= r /\ k = Uninit => g[<<l, r>>] = Uninit
       /\ l <= r /\ k # Uninit =>
            /\ Comparator(k, data) = 1 => g[<<l, r>>] = g[<<l, m - 1>>]
            /\ Comparator(k, data) = -1 => g[<<l, r>>] = g[<<m + 1, r>>]
            /\ Comparator(k, data) = 0 => g[<<l, r>>] = IF k.type = "s" THEN k ELSE NULL

LEMMA SearchExists ==
  ASSUME key_num \in Nat, \A i \in 1..key_num : keys[i] \in data_t \cup {Uninit}, NEW data
  PROVE  \E g : SearchFrom(g, data)
                /\ _sstdata_binarysearch(data.hash_value, data.key) = g[<<0, key_num - 1>>]
<1> DEFINE D == (0..key_num) \X (-1..key_num-1)
           S == data_t \cup {NULL, Uninit}
           mid(w) == (w[1] + w[2]) \div 2
           k(w) == keys[(w[1] + w[2]) \div 2 + 1]
           cmp(w) == ComparatorB(k(w).hash_value, k(w).key, data.hash_value, data.key)
           step(w, g) == IF w[1] > w[2] THEN NULL
                         ELSE IF k(w) = Uninit THEN Uninit
                         ELSE CASE cmp(w) = 1 -> g[<<w[1], mid(w) - 1>>]
                                [] cmp(w) = -1 -> g[<<mid(w) + 1, w[2]>>]
                                [] OTHER -> IF k(w).type = "s" THEN k(w) ELSE NULL
           m == [w \in D |-> IF w[1] > w[2] THEN 0 ELSE w[2] - w[1] + 1]
           F == [w \in D |-> [g \in [D -> S] |-> step(w, g)]]
<1>1. \A w \in D : w[1] \in 0..key_num /\ w[2] \in -1..key_num-1 /\ w = <<w[1], w[2]>>
  OBVIOUS
<1>2. \A l \in 0..key_num, r \in -1..key_num - 1 : <<l, r>> \in D
  OBVIOUS
<1>3. m \in [D -> 0..key_num + 1]
  <2> SUFFICES ASSUME NEW w \in D
               PROVE  (IF w[1] > w[2] THEN 0 ELSE w[2] - w[1] + 1) \in 0..key_num + 1
    OBVIOUS
  <2>1. w[1] \in 0..key_num /\ w[2] \in -1..key_num-1
    BY <1>1
  <2> HIDE DEF D
  <2> QED
    BY <2>1
<1>4. \A w \in D : m[w] = IF w[1] > w[2] THEN 0 ELSE w[2] - w[1] + 1
  OBVIOUS
<1>5. ASSUME NEW w \in D, ~(w[1] > w[2])
      PROVE  /\ k(w) \in data_t \cup {Uninit}
             /\ <<w[1], mid(w) - 1>> \in D /\ m[<<w[1], mid(w) - 1>>] < m[w]
             /\ <<mid(w) + 1, w[2]>> \in D /\ m[<<mid(w) + 1, w[2]>>] < m[w]
  <2> DEFINE l == w[1]
             r == w[2]
             h == (l + r) \div 2
  <2>1. l \in 0..key_num /\ r \in -1..key_num-1 /\ l <= r /\ l \in Nat /\ r \in Int
    BY <1>1, <1>5
  <2>2. m[w] = r - l + 1
    BY <1>4, <1>5
  <2>3. mid(w) = h /\ k(w) = keys[h + 1]
    OBVIOUS
  <2> HIDE DEF l, r, D, m, k, mid
  <2>4. h \in Nat /\ l <= h /\ h <= r
    BY <2>1, Middle
  <2> HIDE DEF h
  <2>5. h + 1 \in 1..key_num /\ h - 1 \in -1..key_num-1 /\ h + 1 \in 0..key_num
    BY <2>1, <2>4
  <2>6. <<l, h - 1>> \in D /\ <<h + 1, r>> \in D
    BY <1>2, <2>1, <2>5
  <2>7. m[<<l, h - 1>>] = (IF l > h - 1 THEN 0 ELSE (h - 1) - l + 1)
        /\ m[<<h + 1, r>>] = (IF h + 1 > r THEN 0 ELSE r - (h + 1) + 1)
    <3>1. \A x \in 0..key_num, y \in -1..key_num - 1 : m[<<x, y>>] = IF x > y THEN 0 ELSE y - x + 1
      BY <1>2, <1>4
    <3> QED
      BY <2>1, <2>5, <3>1
  <2>8. m[<<l, h - 1>>] < m[w] /\ m[<<h + 1, r>>] < m[w]
    BY <2>1, <2>2, <2>4, <2>7
  <2>9. keys[h + 1] \in data_t \cup {Uninit}
    BY <2>5
  <2> QED
    BY <2>3, <2>6, <2>8, <2>9, Zenon DEF l, r
<1>6. ASSUME NEW w \in D, NEW g \in [D -> S] PROVE step(w, g) \in S
  <2>1. CASE w[1] > w[2]
    BY <2>1
  <2>2. CASE ~(w[1] > w[2])
    <3> DEFINE x == <<w[1], mid(w) - 1>>
               y == <<mid(w) + 1, w[2]>>
    <3>1. k(w) \in data_t \cup {Uninit} /\ x \in D /\ y \in D
      BY <1>5, <2>2
    <3>2. step(w, g) \in {Uninit, NULL, k(w), g[x], g[y]}
      <4> HIDE DEF x, y, D, S, k, cmp
      <4> QED
        BY <2>2 DEF x, y
    <3> HIDE DEF D, x, y, k, step
    <3>3. g[x] \in S /\ g[y] \in S
      BY <3>1
    <3> QED
      BY <3>1, <3>2, <3>3
  <2> QED
    BY <2>1, <2>2
<1>7. F \in [D -> [[D -> S] -> S]] /\ \A w \in D : \A g \in [D -> S] : F[w][g] = step(w, g)
  <2> HIDE DEF D, S, step
  <2> QED
    BY <1>6
<1>8. ASSUME NEW w \in D, NEW g \in [D -> S], NEW h \in [D -> S],
             \A q \in D : m[q] < m[w] => g[q] = h[q]
      PROVE  F[w][g] = F[w][h]
  <2>1. CASE w[1] > w[2]
    <3>1. step(w, g) = step(w, h)
      BY <2>1
    <3> QED
      BY <1>7, <3>1
  <2>2. CASE ~(w[1] > w[2])
    <3> DEFINE x == <<w[1], mid(w) - 1>>
               y == <<mid(w) + 1, w[2]>>
    <3>1. x \in D /\ y \in D /\ m[x] < m[w] /\ m[y] < m[w]
      BY <1>5, <2>2
    <3>2. g[x] = h[x] /\ g[y] = h[y]
      <4> HIDE DEF x, y, D, m
      <4> QED
        BY <1>8, <3>1
    <3>3. step(w, g) = step(w, h)
      <4> HIDE DEF k, cmp
      <4> QED
        BY <2>2, <3>2
    <3> QED
      BY <1>7, <3>3
  <2> QED
    BY <2>1, <2>2
<1>9. S # {}
  OBVIOUS
<1> DEFINE Is(f) == f = [w \in D |-> step(w, f)]
<1>10. \E g \in [D -> S] : Is(g)
  <2> HIDE DEF D, S, m, F, step
  <2>1. Recurses(D, S, m, F)
    BY <1>7, <1>8, Zenon DEF Recurses
  <2>2. HasSolution(D, S, F)
    <3>1. key_num + 1 \in Nat
      OBVIOUS
    <3> QED
      BY <1>3, <1>9, <2>1, <3>1, Recursion
  <2>3. PICK g \in [D -> S] : \A w \in D : g[w] = F[w][g]
    BY <2>2 DEF HasSolution
  <2>4. \A w \in D : g[w] = step(w, g)
    BY <1>7, <2>3
  <2>5. g = [w \in D |-> g[w]]
    OBVIOUS
  <2>6. Is(g)
    BY <2>4, <2>5, Zenon
  <2> QED
    BY <2>6
<1> DEFINE f == CHOOSE f : Is(f)
<1>11. Is(f)
  BY <1>10
<1>12. _sstdata_binarysearch(data.hash_value, data.key) = f[<<0, key_num - 1>>]
  BY DEF _sstdata_binarysearch
<1> HIDE DEF f
<1>13. \A w \in D : f[w] = step(w, f)
  <2> HIDE DEF step, D
  <2> QED
    BY <1>11
<1>14. SearchFrom(f, data)
  <2> SUFFICES ASSUME NEW l \in 0..key_num, NEW r \in -1..key_num - 1
               PROVE  LET h == (l + r) \div 2
                          x == keys[h + 1]
                      IN /\ l > r => f[<<l, r>>] = NULL
                         /\ l <= r /\ x = Uninit => f[<<l, r>>] = Uninit
                         /\ l <= r /\ x # Uninit =>
                            /\ Comparator(x, data) = 1 => f[<<l, r>>] = f[<<l, h - 1>>]
                            /\ Comparator(x, data) = -1 => f[<<l, r>>] = f[<<h + 1, r>>]
                            /\ Comparator(x, data) = 0 =>
                                 f[<<l, r>>] = IF x.type = "s" THEN x ELSE NULL
    BY DEF SearchFrom
  <2> DEFINE w == <<l, r>>
  <2>1. w \in D /\ w[1] = l /\ w[2] = r
    BY <1>2
  <2>2. f[w] = step(w, f)
    BY <1>13, <2>1
  <2> DEFINE c == ComparatorB(keys[(l + r) \div 2 + 1].hash_value, keys[(l + r) \div 2 + 1].key,
                              data.hash_value, data.key)
  <2>3. cmp(w) = c /\ Comparator(keys[(l + r) \div 2 + 1], data) = c
    BY <2>1 DEF Comparator
  <2>4. mid(w) = (l + r) \div 2 /\ k(w) = keys[(l + r) \div 2 + 1]
    BY <2>1
  <2> HIDE DEF D, w, cmp, c, mid, k
  <2>5. l > r <=> ~(l <= r)
    OBVIOUS
  <2> QED
    BY <2>1, <2>2, <2>3, <2>4, <2>5 DEF w
<1> QED
  BY <1>12, <1>14

\* What a search in an array in order finds, unless it meets an unset pointer.
LEMMA SearchIs ==
  ASSUME key_num \in Nat, InOrder(keys, key_num), Uninit \notin data_t, NEW data \in data_t
  PROVE  LET found == _sstdata_binarysearch(data.hash_value, data.key)
         IN \/ found = Uninit /\ \E i \in 1..key_num : keys[i] = Uninit
            \/ /\ (\A i \in 1..key_num : keys[i] # Uninit => Comparator(keys[i], data) # 0)
                    => found = NULL
               /\ \A i \in 1..key_num : keys[i] # Uninit /\ Comparator(keys[i], data) = 0 =>
                    found = IF keys[i].type = "s" THEN keys[i] ELSE NULL
<1>1. \A i \in 1..key_num : keys[i] \in data_t \cup {Uninit}
  BY DEF InOrder
<1>2. PICK g : /\ SearchFrom(g, data)
               /\ _sstdata_binarysearch(data.hash_value, data.key) = g[<<0, key_num - 1>>]
  BY <1>1, SearchExists
<1> DEFINE Found(res) ==
             \/ res = Uninit /\ \E i \in 1..key_num : keys[i] = Uninit
             \/ /\ (\A i \in 1..key_num : keys[i] # Uninit => Comparator(keys[i], data) # 0)
                     => res = NULL
                /\ \A i \in 1..key_num : keys[i] # Uninit /\ Comparator(keys[i], data) = 0 =>
                     res = IF keys[i].type = "s" THEN keys[i] ELSE NULL
           Left(l) == \A j \in 1..l : keys[j] # Uninit /\ Comparator(keys[j], data) = -1
           Right(r) == \A j \in r + 2..key_num : keys[j] # Uninit => Comparator(keys[j], data) = 1
           Good(c) == \A l \in 0..key_num, r \in -1..key_num - 1 :
                        l <= r + 1 /\ Left(l) /\ Right(r) /\ r - l + 1 <= c => Found(g[<<l, r>>])
           T == {c \in Nat : Good(c)}
<1>3. ASSUME NEW l \in 0..key_num, NEW r \in -1..key_num - 1, Left(l), Right(r), l = r + 1
      PROVE  Found(g[<<l, r>>])
  <2>1. g[<<l, r>>] = NULL
    <3>1. l > r
      BY <1>3
    <3> HIDE DEF Left, Right
    <3> QED
      BY <1>2, <3>1 DEF SearchFrom
  <2>2. \A i \in 1..key_num : i \in 1..l \/ i \in r + 2..key_num
    BY <1>3
  <2>3. \A i \in 1..key_num : keys[i] # Uninit => Comparator(keys[i], data) # 0
    BY <1>3, <2>2
  <2> QED
    BY <2>1, <2>3
<1>4. 0 \in T
  <2>1. Good(0)
    <3>1. \A l \in 0..key_num, r \in -1..key_num - 1 : l <= r + 1 /\ r - l + 1 <= 0 => l = r + 1
      OBVIOUS
    <3> HIDE DEF Left, Right, Found
    <3> QED
      BY <1>3, <3>1
  <2> HIDE DEF Good
  <2> QED
    BY <2>1
<1>5. ASSUME NEW c \in T, c \in Nat PROVE c + 1 \in T
  <2>1. Good(c)
    BY <1>5
  <2>2. ASSUME NEW l \in 0..key_num, NEW r \in -1..key_num - 1,
               Left(l), Right(r), r - l + 1 <= c + 1, l <= r
        PROVE  Found(g[<<l, r>>])
    <3> DEFINE m == (l + r) \div 2
    <3>1. m \in Nat /\ l <= m /\ m <= r /\ l \in Nat /\ r \in Int
      BY <2>2, Middle
    <3> DEFINE k == keys[m + 1]
    <3>2. k # Uninit =>
          /\ Comparator(k, data) = 1 => g[<<l, r>>] = g[<<l, m - 1>>]
          /\ Comparator(k, data) = -1 => g[<<l, r>>] = g[<<m + 1, r>>]
          /\ Comparator(k, data) = 0 => g[<<l, r>>] = IF k.type = "s" THEN k ELSE NULL
      BY <1>2, <2>2 DEF SearchFrom
    <3> HIDE DEF m
    <3>3. /\ m + 1 \in 1..key_num /\ m - 1 \in -1..key_num - 1
          /\ m + 1 \in 0..key_num /\ (m - 1) + 2 = m + 1
      BY <3>1
    <3>10. CASE k = Uninit
      <4>1. g[<<l, r>>] = Uninit
        BY <1>2, <2>2, <3>10 DEF SearchFrom, m
      <4>2. \E i \in 1..key_num : keys[i] = Uninit
        BY <3>3, <3>10
      <4> QED
        BY <4>1, <4>2
    <3> SUFFICES ASSUME k # Uninit PROVE Found(g[<<l, r>>])
      <4> HIDE DEF Found
      <4> QED
        BY <3>10
    <3>4. k \in data_t /\ k # Uninit
      BY <1>1, <3>3
    <3>5. Comparator(k, data) \in {-1, 0, 1}
      BY <3>4, ItemOrder
    <3> DEFINE p == m + 1
    <3>6. /\ Comparator(keys[p], data) = -1 =>
               \A j \in 1..p : keys[j] # Uninit /\ Comparator(keys[j], data) = -1
          /\ Comparator(keys[p], data) = 1 =>
               \A j \in p..key_num : keys[j] # Uninit => Comparator(keys[j], data) = 1
      <4>1. p \in 1..key_num /\ keys[p] # Uninit
        BY <3>3, <3>4
      <4> HIDE DEF p
      <4> QED
        BY <4>1, HalfOf
    <3>7. CASE Comparator(k, data) = 0
      <4>1. g[<<l, r>>] = IF k.type = "s" THEN k ELSE NULL
        BY <3>2, <3>4, <3>7
      <4>2. ASSUME NEW i \in 1..key_num, keys[i] # Uninit, Comparator(keys[i], data) = 0
            PROVE  keys[i] = k
        <5>1. keys[i] \in data_t /\ i \in 1..key_num
          BY <1>1, <4>2
        <5>2. Comparator(keys[i], k) = 0
          BY <3>4, <3>7, <4>2, <5>1, ItemOrder
        <5>3. Comparator(k, keys[i]) = 0
          BY <3>4, <5>1, <5>2, ItemOrder
        <5>4. i = m + 1
          <6>1. i < m + 1 => Comparator(keys[i], k) = -1
            BY <3>3, <3>4, <4>2 DEF InOrder
          <6>2. m + 1 < i => Comparator(k, keys[i]) = -1
            BY <3>3, <3>4, <4>2 DEF InOrder
          <6> QED
            BY <3>1, <5>2, <5>3, <6>1, <6>2
        <5> QED
          BY <5>4
      <4>3. ~(\A i \in 1..key_num : keys[i] # Uninit => Comparator(keys[i], data) # 0)
        BY <3>3, <3>4, <3>7
      <4> HIDE DEF k
      <4> QED
        BY <4>1, <4>2, <4>3
    <3>8. CASE Comparator(k, data) = 1
      <4>1. Right(m - 1)
        BY <3>3, <3>6, <3>8
      <4>2. (m - 1) - l + 1 <= c /\ l <= (m - 1) + 1
        BY <1>5, <2>2, <3>1
      <4>3. Found(g[<<l, m - 1>>])
        <5> HIDE DEF Found, Left, Right
        <5> QED
          BY <2>1, <2>2, <3>3, <4>1, <4>2
      <4>4. g[<<l, r>>] = g[<<l, m - 1>>]
        BY <3>2, <3>4, <3>8
      <4> HIDE DEF Found
      <4> QED
        BY <4>3, <4>4
    <3>9. CASE Comparator(k, data) = -1
      <4>1. Left(m + 1)
        BY <3>3, <3>6, <3>9
      <4>2. r - (m + 1) + 1 <= c /\ m + 1 <= r + 1
        BY <1>5, <2>2, <3>1
      <4>3. Found(g[<<m + 1, r>>])
        <5> HIDE DEF Found, Left, Right
        <5> QED
          BY <2>1, <2>2, <3>3, <4>1, <4>2
      <4>4. g[<<l, r>>] = g[<<m + 1, r>>]
        BY <3>2, <3>4, <3>9
      <4> HIDE DEF Found
      <4> QED
        BY <4>3, <4>4
    <3> QED
      BY <3>5, <3>7, <3>8, <3>9
  <2>3. Good(c + 1)
    <3>1. \A l \in 0..key_num, r \in -1..key_num - 1 : l <= r + 1 => l = r + 1 \/ l <= r
      OBVIOUS
    <3> HIDE DEF Left, Right, Found
    <3> QED
      BY <1>3, <2>2, <3>1
  <2>4. c + 1 \in Nat
    BY <1>5
  <2> HIDE DEF Good
  <2> QED
    BY <2>3, <2>4
<1>6. key_num \in T
  <2> HIDE DEF T
  <2> QED
    BY <1>4, <1>5, SetInduction
<1>7. Good(key_num)
  <2> HIDE DEF Good
  <2> QED
    BY <1>6
<1>8. Left(0) /\ Right(key_num - 1) /\ 0 <= (key_num - 1) + 1 /\ (key_num - 1) - 0 + 1 <= key_num
      /\ 0 \in 0..key_num /\ key_num - 1 \in -1..key_num - 1
  OBVIOUS
<1> HIDE DEF Left, Right
<1>9. Found(g[<<0, key_num - 1>>])
  <2> HIDE DEF Found
  <2> QED
    BY <1>7, <1>8
<1> QED
  BY <1>2, <1>9

-----------------------------------------------------------------------------
(* Sorting. *)

\* Inserted puts the item behind the last one that is not greater.
LEMMA InsertedIs ==
  ASSUME NEW s \in Seq(data_t), NEW d \in data_t
  PROVE  \E p \in 1..Len(s) + 1 :
           /\ Inserted(s, d) = InsertAt(s, p, d)
           /\ \A i \in p..Len(s) : Comparator(d, s[i]) = -1
           /\ p > 1 => Comparator(d, s[p - 1]) # -1
<1> DEFINE n == Len(s)
           before == {i \in 1..n : Comparator(d, s[i]) # -1}
           p == Max(before \cup {0}) + 1
<1>1. n \in Nat /\ DOMAIN s = 1..n
  BY LenProperties
<1>2. Inserted(s, d) = InsertAt(s, p, d)
  BY <1>1 DEF Inserted
<1> HIDE DEF n
<1>3. before \cup {0} \subseteq 0..n /\ before \cup {0} # {}
  BY <1>1
<1> DEFINE U == before \cup {0}
<1>4. Max(U) \in U /\ \A y \in U : Max(U) >= y
  <2> HIDE DEF U
  <2> QED
    BY <1>1, <1>3, MaxOf DEF U
<1>5. p \in 1..n + 1 /\ p - 1 = Max(U)
  BY <1>1, <1>3, <1>4
<1>6. \A i \in p..n : Comparator(d, s[i]) = -1
  <2> SUFFICES ASSUME NEW i \in p..n, Comparator(d, s[i]) # -1 PROVE FALSE
    OBVIOUS
  <2>1. i \in 1..n /\ i > Max(U) /\ Max(U) \in 0..n
    BY <1>1, <1>3, <1>4, <1>5
  <2>2. i \in U
    BY <2>1
  <2> HIDE DEF U
  <2>3. Max(U) >= i
    BY <1>4, <2>2
  <2> QED
    BY <2>1, <2>3
<1>7. p > 1 => Comparator(d, s[p - 1]) # -1
  <2> SUFFICES ASSUME p > 1 PROVE Comparator(d, s[p - 1]) # -1
    OBVIOUS
  <2>1. p - 1 # 0 /\ p - 1 \in U
    BY <1>1, <1>4, <1>5
  <2> HIDE DEF p
  <2> QED
    BY <2>1
<1> HIDE DEF p
<1> QED
  BY <1>2, <1>5, <1>6, <1>7 DEF n

LEMMA InsertedSeq ==
  ASSUME NEW s \in Seq(data_t), NEW d \in data_t
  PROVE  Inserted(s, d) \in Seq(data_t)
BY InsertedIs, InsertFacts

LEMMA InsertedKeeps ==
  ASSUME NEW s \in Seq(data_t), NEW d \in data_t, NonDecreasing(s),
         NEW t \in Seq(data_t), Rearranged(s, t)
  PROVE  NonDecreasing(Inserted(s, d)) /\ Rearranged(Inserted(s, d), Append(t, d))
<1> DEFINE n == Len(s)
<1>1. PICK p \in 1..n + 1 :
           /\ Inserted(s, d) = InsertAt(s, p, d)
           /\ \A i \in p..n : Comparator(d, s[i]) = -1
           /\ p > 1 => Comparator(d, s[p - 1]) # -1
  BY InsertedIs
<1> DEFINE v == InsertAt(s, p, d)
<1>2. /\ Len(v) = n + 1
      /\ \A i \in 1..n + 1 : v[i] = IF i < p THEN s[i] ELSE IF i = p THEN d ELSE s[i - 1]
  BY InsertFacts
<1>3. Rearranged(v, Append(t, d))
  BY RearrangedInsert
<1>4. n \in Nat /\ \A i \in 1..n : s[i] \in data_t
  BY LenProperties, ElementOfSeq
<1>5. \A i, j \in 1..n : i < j => Comparator(s[i], s[j]) # 1
  BY DEF NonDecreasing
<1> HIDE DEF v, n
<1>6. \A i \in 1..n : i < p => Comparator(s[i], d) # 1
  <2> SUFFICES ASSUME NEW i \in 1..n, i < p PROVE Comparator(s[i], d) # 1
    OBVIOUS
  <2>1. p > 1 /\ p - 1 \in 1..n /\ (i < p - 1 \/ i = p - 1)
    BY <1>1, <1>4
  <2>2. Comparator(s[p - 1], d) # 1
    BY <1>1, <1>4, <2>1, ItemOrder
  <2>3. CASE i < p - 1
    <3>1. Comparator(s[i], s[p - 1]) # 1
      BY <1>5, <2>1, <2>3
    <3> QED
      BY <1>4, <2>1, <2>2, <3>1, NotGreater
  <2> QED
    BY <2>1, <2>2, <2>3
<1>7. \A i \in 1..n : i >= p => Comparator(d, s[i]) # 1
  BY <1>1, <1>4
<1>8. ASSUME NEW i \in 1..n + 1, NEW j \in 1..n + 1, i < j PROVE Comparator(v[i], v[j]) # 1
  <2>1. /\ v[i] = IF i < p THEN s[i] ELSE IF i = p THEN d ELSE s[i - 1]
        /\ v[j] = IF j < p THEN s[j] ELSE IF j = p THEN d ELSE s[j - 1]
    BY <1>2
  <2>2. CASE j < p
    <3>1. i < p /\ i \in 1..n /\ j \in 1..n
      BY <1>1, <1>4, <1>8, <2>2
    <3> QED
      BY <1>5, <1>8, <2>1, <2>2, <3>1
  <2>3. CASE j = p
    <3>1. i < p /\ i \in 1..n /\ ~(j < p)
      BY <1>1, <1>4, <1>8, <2>3
    <3> QED
      BY <1>6, <2>1, <2>3, <3>1
  <2>4. CASE j > p
    <3>1. ~(j < p) /\ j # p /\ j - 1 \in 1..n /\ j - 1 >= p
      BY <1>1, <1>4, <2>4
    <3>2. v[j] = s[j - 1]
      BY <2>1, <3>1
    <3>3. CASE i < p
      <4>1. i \in 1..n /\ i < j - 1
        BY <1>1, <1>4, <2>4, <3>3
      <4> QED
        BY <1>5, <2>1, <3>1, <3>2, <3>3, <4>1
    <3>4. CASE i = p
      <4>1. ~(i < p)
        BY <1>1, <3>4
      <4> QED
        BY <1>7, <2>1, <3>1, <3>2, <3>4, <4>1
    <3>5. CASE i > p
      <4>1. ~(i < p) /\ i # p /\ i - 1 \in 1..n /\ i - 1 < j - 1
        BY <1>1, <1>4, <1>8, <3>5
      <4> QED
        BY <1>5, <2>1, <3>1, <3>2, <4>1
    <3> QED
      BY <1>1, <1>4, <3>3, <3>4, <3>5
  <2> QED
    BY <1>1, <1>4, <2>2, <2>3, <2>4
<1>9. NonDecreasing(v)
  BY <1>2, <1>8 DEF NonDecreasing
<1> QED
  BY <1>1, <1>3, <1>9 DEF v

\* Sorting an array leaves its items in order.
LEMMA SortIs ==
  ASSUME NEW s \in Seq(data_t)
  PROVE  /\ FoldLeft(Inserted, <<>>, s) \in Seq(data_t)
         /\ NonDecreasing(FoldLeft(Inserted, <<>>, s))
         /\ Rearranged(FoldLeft(Inserted, <<>>, s), s)
<1> DEFINE n == Len(s)
           A == Seq(data_t)
           b == <<>>
           step == [k \in 1..n |-> [w \in A |-> Inserted(w, s[k])]]
<1>1. n \in Nat /\ DOMAIN s = 1..n /\ \A k \in 1..n : s[k] \in data_t
  BY LenProperties, ElementOfSeq
<1>2. b \in A
  BY EmptySeq
<1>3. \A k \in 1..n : \A w \in A : Inserted(w, s[k]) \in A
  BY <1>1, InsertedSeq
<1>4. step \in [1..n -> [A -> A]]
  BY <1>3
<1>5. \A k \in 1..n : \A w \in A : step[k][w] = Inserted(w, s[k])
  OBVIOUS
<1> HIDE DEF A, step, n
<1>6. PICK it \in [SUBSET (1..n) -> A] :
        \A T \in SUBSET (1..n) : it[T] = IF T = {} THEN b ELSE step[Max(T)][it[T \ {Max(T)}]]
  <2>1. FoldIn(n, A, b, step)
    BY <1>1, <1>2, <1>4, FoldExists
  <2> QED
    BY <2>1 DEF FoldIn
<1>7. \A T \in SUBSET (1..n) : T # {} => Max(T) \in 1..n /\ T \ {Max(T)} \in SUBSET (1..n)
  <2>1. ASSUME NEW T \in SUBSET (1..n), T # {} PROVE Max(T) \in T
    <3>1. T \subseteq 0..n
      BY <1>1
    <3> QED
      BY <1>1, <2>1, <3>1, MaxOf
  <2> QED
    BY <2>1
<1> DEFINE Is(f) == f = [T \in SUBSET (1..n) |->
                           IF T = {} THEN b ELSE Inserted(f[T \ {Max(T)}], s[Max(T)])]
<1>8. Is(it)
  <2>1. \A T \in SUBSET (1..n) :
          it[T] = IF T = {} THEN b ELSE Inserted(it[T \ {Max(T)}], s[Max(T)])
    <3> SUFFICES ASSUME NEW T \in SUBSET (1..n)
                 PROVE  it[T] = IF T = {} THEN b ELSE Inserted(it[T \ {Max(T)}], s[Max(T)])
      OBVIOUS
    <3>1. CASE T = {}
      BY <1>6, <3>1
    <3>2. CASE T # {}
      <4>1. Max(T) \in 1..n /\ it[T \ {Max(T)}] \in A
        BY <1>6, <1>7, <3>2
      <4> QED
        BY <1>5, <1>6, <3>2, <4>1
    <3> QED
      BY <3>1, <3>2
  <2>2. it = [T \in SUBSET (1..n) |-> it[T]]
    OBVIOUS
  <2> QED
    BY <2>1, <2>2, Zenon
<1> DEFINE f == CHOOSE f : Is(f)
<1>9. Is(f)
  BY <1>8
<1>10. FoldLeft(Inserted, <<>>, s) = f[1..n]
  BY <1>1 DEF FoldLeft, MapThenFoldSet
<1>11. \A T \in SUBSET (1..n) : f[T] = IF T = {} THEN b ELSE Inserted(f[T \ {Max(T)}], s[Max(T)])
  <2> HIDE DEF f
  <2> QED
    BY <1>9
<1> HIDE DEF Is, f
<1>12. f[1..0] = b /\ \A i \in 1..n : f[1..i] = Inserted(f[1..i - 1], s[i])
  <2>1. /\ 1..0 = {} /\ \A i \in 0..n : 1..i \in SUBSET (1..n)
        /\ \A i \in 1..n : /\ 1..i # {} /\ Max(1..i) = i /\ (1..i) \ {i} = 1..i - 1
    BY <1>1, FirstPlaces
  <2>2. 1..0 \in SUBSET (1..n) /\ \A i \in 1..n : 1..i \in SUBSET (1..n)
    BY <1>1
  <2> QED
    BY <1>11, <2>1, <2>2, Zenon
<1> DEFINE Good(i) == /\ f[1..i] \in Seq(data_t) /\ NonDecreasing(f[1..i])
                      /\ SubSeq(s, 1, i) \in Seq(data_t) /\ Rearranged(f[1..i], SubSeq(s, 1, i))
           T == {i \in Nat : i <= n => Good(i)}
<1>13. 0 \in T
  <2>1. SubSeq(s, 1, 0) = <<>>
    BY Prefix
  <2>2. <<>> \in Seq(data_t) /\ Len(<<>>) = 0
    BY EmptySeq
  <2>3. NonDecreasing(<<>>)
    BY <2>2 DEF NonDecreasing
  <2>4. Rearranged(<<>>, <<>>)
    BY <2>2, RearrangedSelf
  <2>5. f[1..0] = <<>>
    BY <1>12
  <2>6. Good(0)
    BY <2>1, <2>2, <2>3, <2>4, <2>5, Zenon
  <2> HIDE DEF Good
  <2> QED
    BY <2>6
<1>14. ASSUME NEW i \in T, i \in Nat PROVE i + 1 \in T
  <2> SUFFICES ASSUME i + 1 <= n PROVE Good(i + 1)
    <3> HIDE DEF Good
    <3> QED
      BY <1>14
  <2>1. i <= n /\ i + 1 \in 1..n /\ (i + 1) - 1 = i
    BY <1>1, <1>14
  <2>2. Good(i)
    <3> HIDE DEF Good
    <3> QED
      BY <1>14, <2>1
  <2>3. f[1..i + 1] = Inserted(f[1..i], s[i + 1]) /\ s[i + 1] \in data_t
    BY <1>1, <1>12, <2>1
  <2>4. SubSeq(s, 1, i + 1) = Append(SubSeq(s, 1, i), s[i + 1])
    BY <2>1, Prefix DEF n
  <2>5. Inserted(f[1..i], s[i + 1]) \in Seq(data_t)
    BY <2>2, <2>3, InsertedSeq
  <2>6. /\ NonDecreasing(Inserted(f[1..i], s[i + 1]))
        /\ Rearranged(Inserted(f[1..i], s[i + 1]), Append(SubSeq(s, 1, i), s[i + 1]))
    BY <2>2, <2>3, InsertedKeeps
  <2>7. Append(SubSeq(s, 1, i), s[i + 1]) \in Seq(data_t)
    BY <2>2, <2>3, AppendProperties
  <2> QED
    BY <2>3, <2>4, <2>5, <2>6, <2>7, Zenon
<1>15. n \in T
  <2> HIDE DEF T
  <2> QED
    BY <1>1, <1>13, <1>14, SetInduction
<1>16. Good(n)
  <2> HIDE DEF Good
  <2> QED
    BY <1>1, <1>15
<1>17. SubSeq(s, 1, n) = s
  BY Prefix DEF n
<1> QED
  BY <1>10, <1>16, <1>17, Zenon

-----------------------------------------------------------------------------
(* The inductive invariant: what is true in each phase. *)

\* No pointer in use is unset.
Set == Uninit \notin ToSet(keys)

Bounds == key_num > 0 => smallest_key = Head(keys) /\ bigest_key = Last(keys)

\* The array of a table that is built: as long as no key was put twice, all the
\* items put are in it.
Array ==
  /\ keys \in Seq(Items \cup {Uninit})
  /\ key_num = Len(keys) /\ key_num <= MAX /\ key_num = Len(given)
  /\ SetInOrder /\ ToSet(keys) \ {Uninit} = LastPut(given) /\ Bounds
  /\ Set => Rearranged(keys, given)

\* The array of a table that was read from its complete file.
Read ==
  /\ keys \in Seq(Records) /\ key_num = Len(keys)
  /\ Rearranged(keys, Stored(given))

\* The file holds the items, in the order in which they were written, behind
\* its head.
Saved ==
  /\ written \in Seq(Items) /\ Rearranged(written, given) /\ Len(given) <= MAX
  /\ \E body : Holds(body, written) /\ file = HeadBytes(Len(given)) \o body

\* The file of a table that was never written to its end.
Unsaved ==
  \/ file = <<>>
  \/ \E n \in 1..MAX : file = HeadBytes(n)
  \/ \E body \in Seq(Byte) : file = HeadBytes(0) \o body

InNew == keys = <<>> /\ given = <<>> /\ written = <<>> /\ ~complete /\ buf \in Buffers
InBuilding == Array /\ written = <<>> /\ file = <<>> /\ ~complete /\ buf \in Buffers
InHeaded == Array /\ file = HeadBytes(key_num) /\ ~complete /\ buf \in Buffers /\ buf.buf = <<>>
InFlushed == Array /\ complete
InCompact ==
  /\ keys = <<>> /\ key_num = Len(given) /\ key_num <= MAX /\ ~complete /\ buf \in Buffers
  /\ written = given
  /\ \E body : Holds(body, given) /\ file = HeadBytes(0) \o body
InCompacted == keys = <<>> /\ complete
InClosed == keys = <<>> /\ buf \in Buffers /\ buf.SEEK = 0 /\ (~complete => Unsaved)
InReading ==
  /\ ~complete => Unsaved /\ keys = <<>> /\ key_num = 0
  /\ complete => Read /\ Bounds /\ keys = Stored(written)
InSorted == complete /\ Read /\ NonDecreasing(keys)

Common ==
  /\ phase \in Phases /\ complete \in BOOLEAN /\ given \in Seq(Items) /\ max = MAX
  /\ complete => Saved

SInv ==
  /\ Common
  /\ phase = "new" => InNew
  /\ phase = "building" => InBuilding
  /\ phase = "headed" => InHeaded
  /\ phase = "flushed" => InFlushed
  /\ phase = "compact" => InCompact
  /\ phase = "compacted" => InCompacted
  /\ phase = "closed" => InClosed
  /\ phase = "reading" => InReading
  /\ phase = "sorted" => InSorted

LEMMA SInitOK == Init => SInv
<1> SUFFICES ASSUME Init PROVE SInv
  OBVIOUS
<1>1. buf \in Buffers
  BY NewBuffer DEF Init, New
<1>2. <<>> \in Seq(Items)
  BY EmptySeq
<1>3. /\ phase = "new" /\ ~complete /\ complete \in BOOLEAN /\ keys = <<>> /\ max = MAX
      /\ given = <<>> /\ written = <<>>
  BY DEF Init, New
<1>4. Common
  BY <1>2, <1>3 DEF Common, Phases
<1>5. InNew
  BY <1>1, <1>3 DEF InNew
<1> QED
  BY <1>3, <1>4, <1>5 DEF SInv

LEMMA ItemsAre == Items \subseteq Records /\ Records \subseteq data_t /\ Uninit \notin data_t
BY ItemFacts, UninitAssumption DEF Records

LEMMA Capacity == MAX \in Nat /\ MAX <= INT_MAX /\ INT_MAX \in Nat
<1>1. MAX \in 0..INT_MAX
  BY IntAssumption
<1>2. INT_MAX \in Nat
  BY SMT DEF INT_MAX
<1> QED
  BY <1>1, <1>2

LEMMA WithinInt ==
  ASSUME NEW n \in Nat, n <= MAX
  PROVE  n <= INT_MAX
<1>1. \A a, b, c \in Nat : a <= b /\ b <= c => a <= c
  OBVIOUS
<1> QED
  BY <1>1, Capacity, Zenon

\* sstdata_writehead puts the head in front of what is behind the first 12 bytes.
LEMMA HeadWritten ==
  ASSUME sstdata_writehead, buf \in Buffers, max = MAX, key_num \in Nat, key_num <= MAX
  PROVE  /\ buf' \in Buffers /\ buf'.buf = <<>>
         /\ file' = HeadBytes(key_num) \o SubSeq(file, 13, Len(file))
<1> DEFINE h == buffer_putint(buffer_putint(buffer_putint(buffer_clear(buf), Id), key_num), MAX)
<1>1. key_num <= INT_MAX
  BY WithinInt
<1>2. h \in Buffers /\ h.buf = HeadBytes(key_num)
  BY <1>1, HeadPut, Zenon
<1>3. file' = h.buf \o SubSeq(file, 13, Len(file)) /\ buf' = buffer_clear(buffer_detach(h))
  BY DEF sstdata_writehead, Written
<1> HIDE DEF h
<1>4. buffer_clear(buffer_detach(h)) \in Buffers /\ buffer_clear(buffer_detach(h)).buf = <<>>
  BY <1>2, ClearIn
<1> QED
  BY <1>2, <1>3, <1>4, Zenon

LEMMA NoFile == SubSeq(<<>>, 13, Len(<<>>)) = <<>>
<1>1. Len(<<>>) = 0
  OBVIOUS
<1> QED
  BY <1>1, SubSeqEmpty, 13 \in Int, 0 \in Int, 0 < 13

LEMMA FaultStep ==
  ASSUME SInv, Fault
  PROVE  SInv'
<1>1. Common' /\ phase' = "fault"
  BY DEF SInv, Common, Fault, Saved, Phases
<1> QED
  BY <1>1 DEF SInv

LEMMA BuildStep ==
  ASSUME SInv, Build
  PROVE  SInv'
<1>1. InNew /\ Common
  BY DEF SInv, Build
<1>2. keys' = <<>> /\ given' = <<>> /\ written' = <<>> /\ key_num' = 0 /\ file' = <<>> /\ ~complete' /\ buf' \in Buffers
      /\ phase' = "building"
  BY <1>1 DEF Build, InNew
<1>3. Common'
  BY <1>1, <1>2 DEF Common, Phases, Build
<1>4. <<>> \in Seq(Items \cup {Uninit}) /\ Len(<<>>) = 0 /\ 0 <= MAX
  BY EmptySeq, IntAssumption
<1>5. SetInOrder' /\ Bounds' /\ (ToSet(keys) \ {Uninit} = LastPut(given))'
  BY <1>2 DEF SetInOrder, Bounds, ToSet, LastPut
<1>6. Rearranged(<<>>, <<>>)
  BY <1>4, RearrangedSelf
<1>7. Array'
  BY <1>2, <1>4, <1>5, <1>6 DEF Array
<1>8. InBuilding'
  BY <1>2, <1>7 DEF InBuilding
<1> QED
  BY <1>2, <1>3, <1>8 DEF SInv

LEMMA BuildCompactStep ==
  ASSUME SInv, BuildCompact
  PROVE  SInv'
<1>1. InBuilding /\ Common
  BY DEF SInv, BuildCompact
<1>2. /\ given = <<>> /\ file = <<>> /\ sstdata_writehead /\ phase' = "compact"
      /\ keys' = keys /\ key_num' = key_num /\ max' = max /\ given' = given /\ complete' = complete
      /\ written' = written
  BY DEF BuildCompact
<1>3. keys \in Seq(Items \cup {Uninit}) /\ key_num = Len(keys) /\ key_num <= MAX
      /\ key_num = Len(given) /\ ~complete /\ buf \in Buffers /\ written = <<>>
  BY <1>1 DEF InBuilding, Array
<1>4. Len(<<>>) = 0
  OBVIOUS
<1>5. key_num = 0 /\ keys = <<>>
  BY <1>2, <1>3, <1>4, EmptySeq
<1>6. max = MAX
  BY <1>1 DEF Common
<1>7. buf' \in Buffers /\ file' = HeadBytes(0) \o <<>>
  <2>1. key_num \in Nat
    BY <1>5
  <2>2. buf' \in Buffers /\ file' = HeadBytes(key_num) \o SubSeq(file, 13, Len(file))
    BY <1>2, <1>3, <1>6, <2>1, HeadWritten, Zenon
  <2> QED
    BY <1>2, <1>5, <2>2, NoFile, Zenon
<1>8. Common'
  BY <1>1, <1>2, <1>3 DEF Common, Phases
<1>9. InCompact'
  BY <1>2, <1>3, <1>5, <1>7, HoldsNone DEF InCompact
<1> QED
  BY <1>2, <1>8, <1>9 DEF SInv

LEMMA HeadBehind ==
  ASSUME NEW n \in Nat, n <= MAX
  PROVE  /\ HeadBytes(n) \in Seq(Byte) /\ Len(HeadBytes(n)) = 12 /\ n <= INT_MAX
<1>1. n <= INT_MAX
  BY WithinInt
<1> QED
  BY <1>1, HeadIs

LEMMA CompactPutStep ==
  ASSUME SInv, NEW data \in Items, CompactPut(data)
  PROVE  SInv'
<1>1. InCompact /\ Common
  BY DEF SInv, CompactPut
<1>2. PICK body : Holds(body, given) /\ file = HeadBytes(0) \o body
  BY <1>1 DEF InCompact
<1> DEFINE b == buffer_putdata(buffer_clear(buf), data)
<1>3. buffer_clear(buf) \in Buffers /\ buffer_clear(buf).buf = <<>>
  BY <1>1, ClearIn DEF InCompact
<1>4. b \in Buffers
  BY <1>3, PutItemIn
<1>5. PICK w \in Seq(Byte) : b.buf = <<>> \o w /\ Len(w) = DataBytes(data) /\ ItemAt(w, 0, data)
  BY <1>3, PutItemIn, Zenon
<1>6. b.buf = w
  BY <1>5, ConcatEmptySeq, Zenon
<1>7. /\ file' = file \o b.buf /\ buf' = buffer_detach(b) /\ key_num' = key_num + 1
      /\ given' = Append(given, data) /\ written' = Append(written, data) /\ keys' = keys
      /\ max' = max /\ phase' = "compact" /\ complete' = complete /\ max > key_num
  BY DEF CompactPut, Written
<1> HIDE DEF b
<1>8. buf' \in Buffers
  BY <1>4, <1>7, ClearIn
<1>9. Holds(body \o w, Append(given, data))
  BY <1>2, <1>5, HoldsMore, Zenon
<1>10. file' = HeadBytes(0) \o (body \o w)
  <2>1. HeadBytes(0) \in Seq(Byte)
    <3>1. 0 \in Nat /\ 0 <= MAX
      BY IntAssumption
    <3> QED
      BY <3>1, HeadBehind
  <2>2. body \in Seq(Byte)
    BY <1>2 DEF Holds
  <2>3. \A x, y, z \in Seq(Byte) : (x \o y) \o z = x \o (y \o z)
    BY ConcatAssociative
  <2>4. w \in Seq(Byte)
    BY <1>5
  <2>5. (HeadBytes(0) \o body) \o w = HeadBytes(0) \o (body \o w)
    BY <2>1, <2>2, <2>3, <2>4, Zenon
  <2> QED
    BY <1>2, <1>6, <1>7, <2>5, Zenon
<1>11. given \in Seq(Items) /\ max = MAX /\ key_num = Len(given) /\ key_num <= MAX /\ keys = <<>>
       /\ ~complete /\ written = given
  BY <1>1 DEF Common, InCompact
<1>12. Append(given, data) \in Seq(Items) /\ Len(Append(given, data)) = Len(given) + 1
  BY <1>11, AppendProperties
<1>13. key_num' = Len(given') /\ key_num' <= MAX
  <2>1. key_num \in Nat /\ MAX \in Nat
    BY <1>11, LenProperties, IntAssumption
  <2> QED
    BY <1>7, <1>11, <1>12, <2>1
<1>14. Common'
  BY <1>1, <1>7, <1>11, <1>12 DEF Common, Phases
<1>15. InCompact'
  BY <1>7, <1>8, <1>9, <1>10, <1>11, <1>13, Zenon DEF InCompact
<1> QED
  BY <1>7, <1>14, <1>15 DEF SInv

LEMMA CompactEndStep ==
  ASSUME SInv, CompactEnd
  PROVE  SInv'
<1>1. InCompact /\ Common
  BY DEF SInv, CompactEnd
<1>2. PICK body : Holds(body, given) /\ file = HeadBytes(0) \o body
  BY <1>1 DEF InCompact
<1>3. /\ keys = <<>> /\ key_num = Len(given) /\ key_num <= MAX /\ buf \in Buffers
      /\ given \in Seq(Items) /\ max = MAX /\ key_num \in Nat /\ written = given
  BY <1>1, LenProperties DEF InCompact, Common
<1>4. sstdata_writehead /\ keys' = keys /\ given' = given /\ max' = max /\ complete' = TRUE
      /\ phase' = "compacted" /\ written' = written
  BY DEF CompactEnd
<1>5. file' = HeadBytes(key_num) \o SubSeq(file, 13, Len(file))
  BY <1>3, <1>4, HeadWritten
<1>6. SubSeq(file, 13, Len(file)) = body
  <2>1. 0 \in Nat /\ 0 <= MAX
    BY IntAssumption
  <2>2. HeadBytes(0) \in Seq(Byte) /\ Len(HeadBytes(0)) = 12
    BY <2>1, HeadBehind
  <2>3. body \in Seq(Byte)
    BY <1>2 DEF Holds
  <2> QED
    BY <1>2, <2>2, <2>3, FileParts, Zenon
<1>7. Rearranged(given, given)
  BY <1>3, RearrangedSelf
<1>8. Saved'
  BY <1>2, <1>3, <1>4, <1>5, <1>6, <1>7, Zenon DEF Saved
<1>9. Common'
  BY <1>3, <1>4, <1>8 DEF Common, Phases
<1>10. InCompacted'
  BY <1>3, <1>4 DEF InCompacted
<1> QED
  BY <1>4, <1>9, <1>10 DEF SInv

LEMMA WriteHeadStep ==
  ASSUME SInv, WriteHead
  PROVE  SInv'
<1>1. InBuilding /\ Common
  BY DEF SInv, WriteHead
<1>2. sstdata_writehead /\ keys' = keys /\ key_num' = key_num /\ given' = given /\ max' = max
      /\ complete' = complete /\ phase' = "headed" /\ smallest_key' = smallest_key
      /\ bigest_key' = bigest_key
  BY DEF WriteHead
<1>3. Array /\ file = <<>> /\ ~complete /\ buf \in Buffers /\ max = MAX
  BY <1>1 DEF InBuilding, Common
<1>4. key_num \in Nat /\ key_num <= MAX
  BY <1>3, LenProperties DEF Array
<1>5. buf' \in Buffers /\ buf'.buf = <<>> /\ file' = HeadBytes(key_num) \o <<>>
  BY <1>2, <1>3, <1>4, HeadWritten, NoFile
<1>6. HeadBytes(key_num) \o <<>> = HeadBytes(key_num)
  BY <1>4, HeadBehind, ConcatEmptySeq
<1>7. Array'
  BY <1>2, <1>3 DEF Array, Set, SetInOrder, Bounds
<1>8. Common'
  BY <1>1, <1>2, <1>3 DEF Common, Phases
<1>9. InHeaded'
  BY <1>2, <1>3, <1>5, <1>6, <1>7 DEF InHeaded
<1> QED
  BY <1>2, <1>8, <1>9 DEF SInv

LEMMA WriteDataStep ==
  ASSUME SInv, WriteData
  PROVE  SInv'
<1>1. InHeaded /\ Common
  BY DEF SInv, WriteData
<1>2. CASE Uninit \in ToSet(keys)
  BY <1>2, FaultStep DEF WriteData
<1>3. CASE Uninit \notin ToSet(keys)
  <2>1. /\ file' = file \o WrittenData.out \o WrittenData.buf.buf
        /\ phase' = "flushed" /\ complete' = TRUE
        /\ keys' = keys /\ key_num' = key_num /\ given' = given /\ max' = max
        /\ written' = keys /\ smallest_key' = smallest_key /\ bigest_key' = bigest_key
    BY <1>3 DEF WriteData, Written
  <2>2. Array /\ file = HeadBytes(key_num) /\ buf \in Buffers /\ buf.buf = <<>>
        /\ given \in Seq(Items) /\ max = MAX
    BY <1>1 DEF InHeaded, Common
  <2>3. Set
    BY <1>3 DEF Set
  <2>4. keys \in Seq(Items)
    <3>1. keys \in Seq(Items \cup {Uninit}) /\ \A i \in DOMAIN keys : keys[i] # Uninit
      BY <1>3, <2>2 DEF Array, ToSet
    <3>2. Len(keys) \in Nat /\ DOMAIN keys = 1..Len(keys)
          /\ \A i \in 1..Len(keys) : keys[i] \in Items \cup {Uninit}
      BY <3>1, LenProperties, ElementOfSeq
    <3>3. keys \in [1..Len(keys) -> Items]
      BY <3>1, <3>2
    <3> QED
      BY <3>2, <3>3, FunctionIsSeq
  <2>5. WrittenData.out \in Seq(Byte) /\ WrittenData.buf \in Buffers
        /\ Holds(WrittenData.out \o WrittenData.buf.buf, keys)
    BY <2>2, <2>4, DataWritten
  <2>6. key_num \in Nat /\ key_num <= MAX /\ Len(given) = key_num /\ Rearranged(keys, given)
    BY <2>2, <2>3, LenProperties DEF Array
  <2>7. file' = HeadBytes(key_num) \o (WrittenData.out \o WrittenData.buf.buf)
    <3>1. HeadBytes(key_num) \in Seq(Byte)
      BY <2>6, HeadBehind
    <3>2. WrittenData.buf.buf \in Seq(Byte)
      BY <2>5, BufferFacts
    <3>3. \A x, y, z \in Seq(Byte) : (x \o y) \o z = x \o (y \o z)
      BY ConcatAssociative
    <3>4. (HeadBytes(key_num) \o WrittenData.out) \o WrittenData.buf.buf
            = HeadBytes(key_num) \o (WrittenData.out \o WrittenData.buf.buf)
      BY <2>5, <3>1, <3>2, <3>3, Zenon
    <3> QED
      BY <2>1, <2>2, <3>4, Zenon
  <2>8. Saved'
    <3> DEFINE body == WrittenData.out \o WrittenData.buf.buf
    <3>1. Holds(body, keys) /\ Rearranged(keys, given) /\ Len(given) <= MAX
          /\ file' = HeadBytes(Len(given)) \o body
      BY <2>5, <2>6, <2>7, Zenon
    <3> HIDE DEF body
    <3>2. \E bd : Holds(bd, keys) /\ file' = HeadBytes(Len(given)) \o bd
      BY <3>1, Zenon
    <3> QED
      BY <2>1, <2>4, <3>1, <3>2, Zenon DEF Saved
  <2>9. Array'
    BY <2>1, <2>2 DEF Array, Set, SetInOrder, Bounds
  <2>10. Common'
    BY <2>1, <2>2, <2>8 DEF Common, Phases
  <2>11. InFlushed'
    BY <2>1, <2>9 DEF InFlushed
  <2> QED
    BY <2>1, <2>10, <2>11 DEF SInv
<1> QED
  BY <1>2, <1>3

\* A set array holds items.
LEMMA SetItems ==
  ASSUME keys \in Seq(Items \cup {Uninit}), Set
  PROVE  keys \in Seq(Items)
<1>1. \A i \in DOMAIN keys : keys[i] # Uninit
  BY DEF Set, ToSet
<1>2. Len(keys) \in Nat /\ DOMAIN keys = 1..Len(keys)
      /\ \A i \in 1..Len(keys) : keys[i] \in Items \cup {Uninit}
  BY LenProperties, ElementOfSeq
<1>3. keys \in [1..Len(keys) -> Items]
  BY <1>1, <1>2
<1> QED
  BY <1>2, <1>3, FunctionIsSeq

LEMMA SeqSubset ==
  ASSUME NEW A, NEW B, A \subseteq B, NEW s \in Seq(A)
  PROVE  s \in Seq(B)
<1>1. Len(s) \in Nat /\ DOMAIN s = 1..Len(s) /\ \A i \in 1..Len(s) : s[i] \in A
  BY LenProperties, ElementOfSeq
<1>2. s \in [1..Len(s) -> B]
  BY <1>1
<1> QED
  BY <1>1, <1>2, FunctionIsSeq

\* An array that has an unset pointer keeps one, and a set one gets no unset one.
LEMMA SetAfterInsert ==
  ASSUME keys \in Seq(Items \cup {Uninit}), NEW data \in Items, NEW p \in 1..Len(keys) + 1
  PROVE  Uninit \in ToSet(InsertAt(keys, p, data)) <=> Uninit \in ToSet(keys)
<1> DEFINE D == Items \cup {Uninit}
           n == Len(keys)
           new == InsertAt(keys, p, data)
<1>1. /\ new \in Seq(D) /\ Len(new) = n + 1 /\ n \in Nat
      /\ \A i \in 1..n + 1 : new[i] = IF i < p THEN keys[i] ELSE IF i = p THEN data ELSE keys[i - 1]
  <2>1. data \in D /\ keys \in Seq(D) /\ p \in 1..Len(keys) + 1
    OBVIOUS
  <2> HIDE DEF D
  <2>2. Len(keys) \in Nat
    BY <2>1, LenProperties
  <2>3. \A q \in 1..Len(keys) + 1 :
          /\ InsertAt(keys, q, data) \in Seq(D) /\ Len(InsertAt(keys, q, data)) = Len(keys) + 1
          /\ \A i \in 1..Len(keys) + 1 : InsertAt(keys, q, data)[i] =
               IF i < q THEN keys[i] ELSE IF i = q THEN data ELSE keys[i - 1]
    BY <2>1, InsertFacts
  <2> QED
    BY <2>2, <2>3
<1>2. DOMAIN new = 1..n + 1 /\ DOMAIN keys = 1..n
  BY <1>1, LenProperties
<1>3. data # Uninit
  BY ItemsAre
<1> HIDE DEF new, n
<1>4. ToSet(new) = {new[i] : i \in 1..n + 1} /\ ToSet(keys) = {keys[i] : i \in 1..n}
  BY <1>2, Zenon DEF ToSet
<1>5. ASSUME Uninit \in ToSet(new) PROVE Uninit \in ToSet(keys)
  <2>1. PICK i \in 1..n + 1 : new[i] = Uninit
    BY <1>4, <1>5
  <2>2. i # p
    BY <1>1, <1>3, <2>1
  <2>3. CASE i < p
    <3>1. i \in 1..n /\ keys[i] = Uninit
      BY <1>1, <2>1, <2>3 DEF n
    <3> QED
      BY <3>1, <1>4
  <2>4. CASE i > p
    <3>1. i - 1 \in 1..n /\ keys[i - 1] = Uninit
      BY <1>1, <2>1, <2>4
    <3> QED
      BY <3>1, <1>4
  <2> QED
    BY <2>2, <2>3, <2>4
<1>6. ASSUME Uninit \in ToSet(keys) PROVE Uninit \in ToSet(new)
  <2>1. PICK i \in 1..n : keys[i] = Uninit
    BY <1>4, <1>6
  <2>2. CASE i < p
    <3>1. i \in 1..n + 1 /\ new[i] = Uninit
      BY <1>1, <2>1, <2>2
    <3> QED
      BY <3>1, <1>4
  <2>3. CASE i >= p
    <3>1. i + 1 \in 1..n + 1 /\ new[i + 1] = Uninit
      <4>1. i + 1 \in 1..n + 1 /\ ~(i + 1 < p) /\ i + 1 # p /\ i + 1 - 1 = i
        BY <1>1, <2>3
      <4>2. new[i + 1] = keys[i + 1 - 1]
        BY <1>1, <4>1
      <4> QED
        BY <2>1, <4>1, <4>2
    <3> QED
      BY <3>1, <1>4
  <2> QED
    BY <2>2, <2>3, <1>1
<1> QED
  BY <1>5, <1>6 DEF new

LEMMA ArrayInOrder ==
  ASSUME keys \in Seq(Items \cup {Uninit}), SetInOrder
  PROVE  InOrder(keys, Len(keys))
<1>1. Len(keys) \in Nat /\ DOMAIN keys = 1..Len(keys)
      /\ \A i \in 1..Len(keys) : keys[i] \in Items \cup {Uninit}
  BY LenProperties, ElementOfSeq
<1>2. Items \subseteq data_t
  BY ItemsAre
<1> QED
  BY <1>1, <1>2 DEF SetInOrder, InOrder

\* Two items have the same place in the order if and only if they have one key.
LEMMA SameKey ==
  ASSUME NEW a \in Items, NEW b \in Items
  PROVE  /\ Comparator(a, b) = 0 <=> a.key = b.key
         /\ \A x : Comparator(a, b) = 0 => Comparator(x, a) = Comparator(x, b)
                                           /\ Comparator(a, x) = Comparator(b, x)
<1>1. a \in data_t /\ b \in data_t
  BY ItemsAre
<1>2. a.hash_value = Hash[a.key] /\ b.hash_value = Hash[b.key]
  BY ItemsAre DEF Records
<1>3. Comparator(a, b) = 0 <=> a.hash_value = b.hash_value /\ a.key = b.key
  BY <1>1, ItemOrder
<1> QED
  BY <1>2, <1>3 DEF Comparator

\* An item put between the smaller and the greater ones leaves the array in order.
LEMMA OrderedAfterInsert ==
  ASSUME keys \in Seq(Items \cup {Uninit}), SetInOrder, NEW data \in Items, NEW i \in 0..Len(keys),
         \A j \in 1..i : keys[j] # Uninit /\ Comparator(keys[j], data) = -1,
         \A j \in i + 1..Len(keys) : keys[j] # Uninit => Comparator(keys[j], data) = 1,
         NEW new, new = InsertAt(keys, i + 1, data)
  PROVE  \A a, b \in 1..Len(keys) + 1 :
           a < b /\ new[b] # Uninit => new[a] # Uninit /\ Comparator(new[a], new[b]) = -1
<1> DEFINE n == Len(keys)
<1>1. n \in Nat /\ DOMAIN keys = 1..n /\ \A j \in 1..n : keys[j] \in Items \cup {Uninit}
  BY LenProperties, ElementOfSeq
<1>2. \A a \in 1..n + 1 : new[a] = IF a < i + 1 THEN keys[a] ELSE IF a = i + 1 THEN data ELSE keys[a - 1]
  <2> DEFINE D == Items \cup {Uninit}
  <2>1. keys \in Seq(D) /\ data \in D /\ i + 1 \in 1..n + 1
    BY <1>1
  <2> HIDE DEF D
  <2>2. \A q \in 1..n + 1 :
          /\ InsertAt(keys, q, data) \in Seq(D) /\ Len(InsertAt(keys, q, data)) = n + 1
          /\ \A a \in 1..n + 1 : InsertAt(keys, q, data)[a] =
               IF a < q THEN keys[a] ELSE IF a = q THEN data ELSE keys[a - 1]
    BY <2>1, InsertFacts
  <2> QED
    BY <2>1, <2>2 DEF D
<1>3. \A a, b \in 1..n : a < b /\ keys[b] # Uninit =>
         keys[a] # Uninit /\ Comparator(keys[a], keys[b]) = -1
  BY <1>1 DEF SetInOrder
<1>4. \A j \in i + 1..n : keys[j] # Uninit => Comparator(data, keys[j]) = -1
  <2>1. SUFFICES ASSUME NEW j \in i + 1..n, keys[j] # Uninit PROVE Comparator(data, keys[j]) = -1
    OBVIOUS
  <2>2. j \in 1..n /\ Comparator(keys[j], data) = 1
    BY <1>1, <2>1
  <2>3. keys[j] \in data_t /\ data \in data_t
    BY <1>1, <2>1, <2>2, ItemsAre
  <2> QED
    BY <2>2, <2>3, ItemOrder
<1>9. data # Uninit
  BY ItemsAre
<1> HIDE DEF n
<1> SUFFICES ASSUME NEW a \in 1..n + 1, NEW b \in 1..n + 1, a < b, new[b] # Uninit
             PROVE  new[a] # Uninit /\ Comparator(new[a], new[b]) = -1
  BY DEF n
<1>5. i \in Nat /\ i <= n
  BY <1>1 DEF n
<1>6. CASE b <= i
  <2>1. a \in 1..n /\ b \in 1..n /\ new[a] = keys[a] /\ new[b] = keys[b]
    BY <1>1, <1>2, <1>5, <1>6
  <2> QED
    BY <1>3, <2>1
<1>7. CASE b = i + 1
  <2>1. a \in 1..i /\ new[a] = keys[a] /\ new[b] = data
    BY <1>1, <1>2, <1>5, <1>7
  <2> QED
    BY <2>1
<1>8. CASE b > i + 1
  <2>1. b - 1 \in i + 1..n /\ b - 1 \in 1..n /\ new[b] = keys[b - 1]
    BY <1>1, <1>2, <1>5, <1>8
  <2>2. CASE a <= i
    <3>1. a \in 1..n /\ new[a] = keys[a] /\ a < b - 1
      BY <1>1, <1>2, <1>5, <1>8, <2>2
    <3> QED
      BY <1>3, <2>1, <3>1
  <2>3. CASE a = i + 1
    <3>1. new[a] = data
      BY <1>2, <2>3
    <3> QED
      BY <1>4, <1>9, <2>1, <3>1
  <2>4. CASE a > i + 1
    <3>1. a - 1 \in 1..n /\ new[a] = keys[a - 1] /\ a - 1 < b - 1
      BY <1>1, <1>2, <1>5, <2>4
    <3> QED
      BY <1>3, <2>1, <3>1
  <2> QED
    BY <1>5, <2>2, <2>3, <2>4
<1> QED
  BY <1>1, <1>5, <1>6, <1>7, <1>8

\* The items an insert leaves in the array: data in place of those of its key.
LEMMA ItemsAfterInsert ==
  ASSUME keys \in Seq(Items \cup {Uninit}), NEW data \in Items, NEW i \in 0..Len(keys),
         \A j \in 1..i : keys[j] # Uninit /\ Comparator(keys[j], data) = -1,
         \A j \in i + 1..Len(keys) : keys[j] # Uninit => Comparator(keys[j], data) = 1,
         NEW new, new = InsertAt(keys, i + 1, data)
  PROVE  ToSet(new) \ {Uninit} = {d \in ToSet(keys) \ {Uninit} : d.key # data.key} \cup {data}
<1> DEFINE n == Len(keys)
           p == i + 1
<1>1. n \in Nat /\ DOMAIN keys = 1..n /\ \A j \in 1..n : keys[j] \in Items \cup {Uninit}
  BY LenProperties, ElementOfSeq
<1>2. /\ new \in Seq(Items \cup {Uninit}) /\ Len(new) = n + 1
      /\ \A a \in 1..n + 1 : new[a] = IF a < p THEN keys[a] ELSE IF a = p THEN data ELSE keys[a - 1]
  <2> DEFINE D == Items \cup {Uninit}
  <2>1. keys \in Seq(D) /\ data \in D /\ i + 1 \in 1..n + 1
    BY <1>1
  <2> HIDE DEF D
  <2>2. \A q \in 1..n + 1 :
          /\ InsertAt(keys, q, data) \in Seq(D) /\ Len(InsertAt(keys, q, data)) = n + 1
          /\ \A a \in 1..n + 1 : InsertAt(keys, q, data)[a] =
               IF a < q THEN keys[a] ELSE IF a = q THEN data ELSE keys[a - 1]
    BY <2>1, InsertFacts
  <2> QED
    BY <2>1, <2>2 DEF D
<1>3. DOMAIN new = 1..n + 1
  BY <1>2, LenProperties
<1>4. \A j \in 1..n : keys[j] # Uninit => keys[j].key # data.key
  <2> SUFFICES ASSUME NEW j \in 1..n, keys[j] # Uninit PROVE keys[j].key # data.key
    OBVIOUS
  <2>1. keys[j] \in Items /\ (j \in 1..i \/ j \in i + 1..n)
    BY <1>1
  <2>2. Comparator(keys[j], data) # 0
    BY <2>1
  <2> QED
    BY <2>1, <2>2, SameKey
<1>5. p \in 1..n + 1 /\ data # Uninit
  BY <1>1, ItemsAre
<1> HIDE DEF n, p
<1>6. \A a \in 1..n + 1 : new[a] # data => \E j \in 1..n : new[a] = keys[j]
  <2> SUFFICES ASSUME NEW a \in 1..n + 1, new[a] # data PROVE \E j \in 1..n : new[a] = keys[j]
    OBVIOUS
  <2>1. CASE a < p
    <3>1. a \in 1..n /\ new[a] = keys[a]
      BY <1>1, <1>2, <1>5, <2>1
    <3> QED
      BY <3>1
  <2>2. CASE a > p
    <3>1. a - 1 \in 1..n /\ new[a] = keys[a - 1]
      BY <1>1, <1>2, <1>5, <2>2
    <3> QED
      BY <3>1
  <2>3. a # p
    BY <1>2
  <2> QED
    BY <1>1, <1>5, <2>1, <2>2, <2>3
<1>7. \A j \in 1..n : \E a \in 1..n + 1 : new[a] = keys[j]
  <2> SUFFICES ASSUME NEW j \in 1..n PROVE \E a \in 1..n + 1 : new[a] = keys[j]
    OBVIOUS
  <2>1. CASE j < p
    <3>1. j \in 1..n + 1 /\ new[j] = keys[j]
      BY <1>1, <1>2, <2>1
    <3> QED
      BY <3>1
  <2>2. CASE j >= p
    <3>1. j + 1 \in 1..n + 1 /\ ~(j + 1 < p) /\ j + 1 # p /\ j + 1 - 1 = j
      BY <1>1, <1>5, <2>2
    <3>2. new[j + 1] = keys[j + 1 - 1]
      BY <1>2, <3>1
    <3> QED
      BY <3>1, <3>2
  <2> QED
    BY <1>1, <1>5, <2>1, <2>2
<1>8. new[p] = data
  BY <1>2, <1>5
<1>9. ToSet(new) = {new[a] : a \in 1..n + 1} /\ ToSet(keys) = {keys[a] : a \in 1..n}
  BY <1>1, <1>3, Zenon DEF ToSet, n
<1>10. \A d \in ToSet(keys) \ {Uninit} : d.key # data.key /\ d \in ToSet(new)
  <2> SUFFICES ASSUME NEW d \in ToSet(keys) \ {Uninit} PROVE d.key # data.key /\ d \in ToSet(new)
    OBVIOUS
  <2>1. PICK j \in 1..n : d = keys[j]
    BY <1>9
  <2>2. PICK a \in 1..n + 1 : new[a] = keys[j]
    BY <1>7
  <2> QED
    BY <1>4, <1>9, <2>1, <2>2
<1>11. data \in ToSet(new)
  BY <1>5, <1>8, <1>9
<1>12. \A d \in ToSet(new) : d = data \/ d \in ToSet(keys)
  <2> SUFFICES ASSUME NEW d \in ToSet(new), d # data PROVE d \in ToSet(keys)
    OBVIOUS
  <2>1. PICK a \in 1..n + 1 : d = new[a]
    BY <1>9
  <2>2. PICK j \in 1..n : new[a] = keys[j]
    BY <1>6, <2>1
  <2> QED
    BY <1>9, <2>1, <2>2
<1> QED
  BY <1>5, <1>10, <1>11, <1>12

\* A put of a key that is there: data takes its place, and a pointer that nobody
\* has set is counted behind.
LEMMA AfterReplace ==
  ASSUME keys \in Seq(Items \cup {Uninit}), SetInOrder, NEW data \in Items, NEW p \in 1..Len(keys),
         keys[p] # Uninit, Comparator(keys[p], data) = 0,
         NEW new, new \in Seq(Items \cup {Uninit}), Len(new) = Len(keys) + 1,
         \A a \in 1..Len(keys) : new[a] = IF a = p THEN data ELSE keys[a],
         new[Len(keys) + 1] = Uninit
  PROVE  /\ \A a, b \in 1..Len(keys) + 1 :
              a < b /\ new[b] # Uninit => new[a] # Uninit /\ Comparator(new[a], new[b]) = -1
         /\ ToSet(new) \ {Uninit} = {d \in ToSet(keys) \ {Uninit} : d.key # data.key} \cup {data}
<1> DEFINE n == Len(keys)
<1>1. n \in Nat /\ DOMAIN keys = 1..n /\ \A j \in 1..n : keys[j] \in Items \cup {Uninit}
  BY LenProperties, ElementOfSeq
<1>2. DOMAIN new = 1..n + 1
  BY LenProperties
<1>3. \A a, b \in 1..n : a < b /\ keys[b] # Uninit =>
         keys[a] # Uninit /\ Comparator(keys[a], keys[b]) = -1
  BY <1>1 DEF SetInOrder
<1>4. keys[p] \in Items /\ data # Uninit
  BY <1>1, ItemsAre
<1>5. keys[p].key = data.key /\ \A x : /\ Comparator(x, keys[p]) = Comparator(x, data)
                                        /\ Comparator(keys[p], x) = Comparator(data, x)
  BY <1>4, SameKey
<1> HIDE DEF n
<1>6. ASSUME NEW a \in 1..n + 1, NEW b \in 1..n + 1, a < b, new[b] # Uninit
      PROVE  new[a] # Uninit /\ Comparator(new[a], new[b]) = -1
  <2>1. a \in 1..n /\ b \in 1..n
    BY <1>1, <1>6 DEF n
  <2>2. new[a] = (IF a = p THEN data ELSE keys[a]) /\ new[b] = (IF b = p THEN data ELSE keys[b])
    BY <2>1 DEF n
  <2>3. keys[b] # Uninit
    BY <1>6, <2>2
  <2>4. keys[a] # Uninit /\ Comparator(keys[a], keys[b]) = -1
    BY <1>3, <1>6, <2>1, <2>3
  <2>5. CASE a = p
    <3>1. b # p
      BY <1>1, <1>6, <2>5
    <3> QED
      BY <1>4, <1>5, <2>2, <2>4, <2>5, <3>1
  <2>6. CASE b = p
    <3>1. a # p
      BY <1>1, <1>6, <2>6
    <3> QED
      BY <1>4, <1>5, <2>2, <2>4, <2>6, <3>1
  <2>7. CASE a # p /\ b # p
    BY <2>2, <2>4, <2>7
  <2> QED
    BY <2>5, <2>6, <2>7
<1>7. ToSet(new) = {new[a] : a \in 1..n + 1} /\ ToSet(keys) = {keys[a] : a \in 1..n}
  BY <1>1, <1>2, Zenon DEF ToSet, n
<1>8. p \in 1..n /\ p \in 1..n + 1 /\ new[p] = data
  BY <1>1 DEF n
<1>9. ASSUME NEW j \in 1..n, keys[j] # Uninit, j # p PROVE keys[j].key # data.key
  <2>1. keys[j] \in Items /\ (j < p \/ p < j)
    BY <1>1, <1>8, <1>9
  <2>2. Comparator(keys[j], keys[p]) = -1 \/ Comparator(keys[p], keys[j]) = -1
    BY <1>3, <1>8, <1>9, <2>1
  <2>3. keys[j].key # keys[p].key
    <3>1. keys[j].key = keys[p].key => Comparator(keys[j], keys[p]) = 0 /\ Comparator(keys[p], keys[j]) = 0
      BY <1>4, <2>1, SameKey
    <3> QED
      BY <2>2, <3>1
  <2> QED
    BY <1>5, <2>3
<1>10. ASSUME NEW d \in ToSet(keys) \ {Uninit}, d.key # data.key PROVE d \in ToSet(new)
  <2>1. PICK j \in 1..n : d = keys[j]
    BY <1>7
  <2>2. j # p
    BY <1>5, <1>10, <2>1
  <2>3. j \in 1..n + 1 /\ new[j] = keys[j]
    BY <1>1, <2>2 DEF n
  <2> QED
    BY <1>7, <2>1, <2>3
<1>11. data \in ToSet(new)
  BY <1>7, <1>8
<1>12. ASSUME NEW d \in ToSet(new) \ {Uninit}, d # data PROVE d \in ToSet(keys) /\ d.key # data.key
  <2>1. PICK a \in 1..n + 1 : d = new[a]
    BY <1>7
  <2>2. a \in 1..n /\ a # p
    BY <1>1, <1>8, <1>12, <2>1 DEF n
  <2>3. d = keys[a]
    BY <2>1, <2>2 DEF n
  <2> QED
    BY <1>7, <1>9, <1>12, <2>2, <2>3
<1>13. ToSet(new) \ {Uninit} = {d \in ToSet(keys) \ {Uninit} : d.key # data.key} \cup {data}
  BY <1>4, <1>10, <1>11, <1>12
<1> QED
  BY <1>6, <1>13 DEF n

\* The item last put under each key, after one more put.
LEMMA LastPutAppend ==
  ASSUME NEW s \in Seq(Items), NEW data \in Items
  PROVE  LastPut(Append(s, data)) = {d \in LastPut(s) : d.key # data.key} \cup {data}
<1> DEFINE n == Len(s)
           t == Append(s, data)
           L == {i \in 1..n : \A j \in 1..n : s[j].key = s[i].key => j <= i}
           M == {i \in 1..n + 1 : \A j \in 1..n + 1 : t[j].key = t[i].key => j <= i}
<1>1. n \in Nat /\ DOMAIN s = 1..n
  BY LenProperties
<1>2. t \in Seq(Items) /\ Len(t) = n + 1 /\ t[n + 1] = data /\ \A i \in 1..n : t[i] = s[i]
  BY AppendProperties
<1>3. DOMAIN t = 1..n + 1
  BY <1>2, LenProperties
<1> HIDE DEF t
<1>4. LastPut(s) = {s[i] : i \in L} /\ LastPut(t) = {t[i] : i \in M}
  BY <1>1, <1>3 DEF LastPut
<1> HIDE DEF n
<1>5. n + 1 \in M
  BY <1>1, <1>2
<1>6. \A i \in 1..n : i \in M <=> i \in L /\ s[i].key # data.key
  <2> SUFFICES ASSUME NEW i \in 1..n PROVE i \in M <=> i \in L /\ s[i].key # data.key
    OBVIOUS
  <2>1. ASSUME i \in M PROVE i \in L /\ s[i].key # data.key
    <3>1. ~(n + 1 <= i) /\ n + 1 \in 1..n + 1
      BY <1>1
    <3>2. s[i].key # data.key
      BY <1>2, <2>1, <3>1
    <3>3. \A j \in 1..n : j \in 1..n + 1
      BY <1>1
    <3> QED
      BY <1>2, <2>1, <3>2, <3>3
  <2>2. ASSUME i \in L, s[i].key # data.key PROVE i \in M
    <3>1. i \in 1..n + 1 /\ \A j \in 1..n + 1 : j \in 1..n \/ j = n + 1
      BY <1>1
    <3> QED
      BY <1>2, <2>2, <3>1
  <2> QED
    BY <2>1, <2>2
<1>7. M \subseteq 1..n + 1 /\ L \subseteq 1..n /\ \A i \in 1..n + 1 : i \in 1..n \/ i = n + 1
  BY <1>1
<1> HIDE DEF L, M
<1>8. \A d \in {t[i] : i \in M} : d = data \/ (d \in {s[i] : i \in L} /\ d.key # data.key)
  BY <1>2, <1>6, <1>7
<1>9. \A d \in {s[i] : i \in L} : d.key # data.key => d \in {t[i] : i \in M}
  BY <1>2, <1>6, <1>7
<1>10. data \in {t[i] : i \in M}
  BY <1>2, <1>5
<1>11. LastPut(t) = {d \in LastPut(s) : d.key # data.key} \cup {data}
  BY <1>4, <1>8, <1>9, <1>10
<1> QED
  BY <1>11 DEF t

LEMMA PutTyped ==
  ASSUME NEW D, NEW s \in Seq(D), NEW d \in D
  PROVE  /\ \A p \in 1..Len(s) + 1 : InsertAt(s, p, d) \in Seq(D) /\ Len(InsertAt(s, p, d)) = Len(s) + 1
         /\ \A p \in 1..Len(s) : [s EXCEPT ![p] = d] \in Seq(D) /\ Len([s EXCEPT ![p] = d]) = Len(s)
BY InsertFacts, ExceptSeq

LEMMA PutStep ==
  ASSUME SInv, NEW data \in Items, Put(data)
  PROVE  SInv'
<1> DEFINE D == Items \cup {Uninit}
           at == Place(data)
           i == IF Comparator(keys[at.middle + 1], data) > 0 THEN at.middle ELSE at.middle + 1
<1>1. InBuilding /\ Common /\ phase = "building" /\ max > key_num
  BY DEF SInv, Put
<1>2. /\ keys \in Seq(D) /\ key_num = Len(keys) /\ key_num <= MAX /\ key_num = Len(given)
      /\ SetInOrder /\ ToSet(keys) \ {Uninit} = LastPut(given) /\ (Set => Rearranged(keys, given))
      /\ written = <<>> /\ file = <<>> /\ ~complete /\ buf \in Buffers
      /\ given \in Seq(Items) /\ max = MAX /\ key_num \in Nat
  BY <1>1, LenProperties DEF InBuilding, Array, Common
<1>3. CASE key_num > 0 /\ Place(data).how = "unset"
  BY <1>3, FaultStep DEF Put
<1>4. CASE ~(key_num > 0 /\ Place(data).how = "unset")
  <2>1. /\ keys' = _sstdata_binaryinsert(data) /\ key_num' = key_num + 1
        /\ given' = Append(given, data) /\ max' = max /\ buf' = buf /\ file' = file
        /\ phase' = phase /\ complete' = complete /\ written' = written
        /\ bigest_key' = Last(keys') /\ smallest_key' = Head(keys')
    BY <1>4 DEF Put
  <2>2. given' \in Seq(Items) /\ Len(given') = key_num + 1
    BY <1>2, <2>1, AppendProperties
  <2>3. Common'
    BY <1>1, <1>2, <2>1, <2>2 DEF Common
  <2>4. key_num + 1 <= MAX
    BY <1>1, <1>2, Capacity
  <2>7. LastPut(given') = {d \in LastPut(given) : d.key # data.key} \cup {data}
    BY <1>2, <2>1, LastPutAppend
  <2>5. /\ keys' \in Seq(D) /\ Len(keys') = key_num + 1 /\ SetInOrder'
        /\ ToSet(keys') \ {Uninit} = LastPut(given') /\ (Set' => Rearranged(keys', given'))
    <3>1. CASE key_num = 0
      <4>1. keys' = <<data>>
        BY <2>1, <3>1 DEF _sstdata_binaryinsert
      <4>2. keys = <<>> /\ given = <<>>
        BY <1>2, <3>1, EmptySeq
      <4>3. given' = <<data>>
        BY <2>1, <4>2
      <4>4. <<data>> \in Seq(D) /\ <<data>> \in Seq(Items) /\ Len(<<data>>) = 1
            /\ DOMAIN <<data>> = {1} /\ <<data>>[1] = data
        OBVIOUS
      <4>5. Rearranged(<<data>>, <<data>>)
        BY <4>4, RearrangedSelf
      <4>6. SetInOrder'
        BY <4>1, <4>4 DEF SetInOrder
      <4>7. ToSet(<<data>>) = {data} /\ data # Uninit
        BY <4>4, ItemsAre DEF ToSet
      <4>8. LastPut(given') = {data}
        <5>1. ToSet(keys) = {}
          BY <4>2 DEF ToSet
        <5> QED
          BY <1>2, <2>7, <5>1
      <4> QED
        BY <3>1, <4>1, <4>3, <4>4, <4>5, <4>6, <4>7, <4>8
    <3>2. CASE key_num > 0
      <4>1. keys \in Seq(data_t \cup {Uninit})
        <5>1. D \subseteq data_t \cup {Uninit}
          BY ItemsAre
        <5> QED
          BY <1>2, <5>1, SeqSubset
      <4>2. data \in data_t /\ Uninit \notin data_t
        BY ItemsAre
      <4>3. Placed(data, at)
        BY <1>2, <3>2, <4>1, <4>2, PlaceIs
      <4>9. InOrder(keys, key_num)
        BY <1>2, ArrayInOrder
      <4>4. /\ at.middle \in 0..key_num - 1 /\ at.how \in {"none", "equal"}
            /\ keys[at.middle + 1] # Uninit
            /\ at.how = "equal" => Comparator(keys[at.middle + 1], data) = 0
            /\ at.how = "none" =>
                 /\ \A j \in 1..i : keys[j] # Uninit /\ Comparator(keys[j], data) = -1
                 /\ \A j \in i + 1..key_num : keys[j] # Uninit => Comparator(keys[j], data) = 1
        BY <1>4, <3>2, <4>3, <4>9 DEF Placed
      <4>5. at.middle + 1 \in 1..key_num /\ i \in 0..key_num /\ i + 1 \in 1..key_num + 1
        BY <1>2, <4>4
      <4>6. keys' = IF at.how = "equal" THEN Append([keys EXCEPT ![at.middle + 1] = data], Uninit)
                    ELSE InsertAt(keys, i + 1, data)
        <5>1. key_num # 0
          BY <1>2, <3>2
        <5> QED
          BY <2>1, <5>1, Zenon DEF _sstdata_binaryinsert
      <4> HIDE DEF at, i
      <4>7. CASE at.how = "equal"
        <5> DEFINE ex == [keys EXCEPT ![at.middle + 1] = data]
        <5>1. ex \in Seq(D) /\ Len(ex) = Len(keys)
              /\ \A a \in 1..Len(keys) : ex[a] = IF a = at.middle + 1 THEN data ELSE keys[a]
          <6>1. data \in D /\ keys \in Seq(D) /\ key_num = Len(keys) /\ at.middle + 1 \in 1..key_num
            BY <1>2, <4>5
          <6> HIDE DEF D
          <6>2. \A p \in 1..Len(keys) : [keys EXCEPT ![p] = data] \in Seq(D)
                                            /\ Len([keys EXCEPT ![p] = data]) = Len(keys)
            BY <6>1, PutTyped
          <6>3. DOMAIN keys = 1..Len(keys)
            BY <6>1, LenProperties
          <6> QED
            BY <6>1, <6>2, <6>3
        <5> HIDE DEF ex
        <5>2. Append(ex, Uninit) \in Seq(D) /\ Len(Append(ex, Uninit)) = Len(ex) + 1
              /\ Append(ex, Uninit)[Len(ex) + 1] = Uninit
              /\ \A a \in 1..Len(ex) : Append(ex, Uninit)[a] = ex[a]
          BY <5>1, AppendProperties
        <5>3. keys' = Append(ex, Uninit)
          BY <4>6, <4>7 DEF ex
        <5>4. Len(keys') = Len(keys) + 1 /\ keys' \in Seq(D) /\ keys'[Len(keys) + 1] = Uninit
              /\ \A a \in 1..Len(keys) : keys'[a] = IF a = at.middle + 1 THEN data ELSE keys[a]
          BY <5>1, <5>2, <5>3
        <5>6. DOMAIN keys' = 1..Len(keys) + 1
          BY <5>4, LenProperties
        <5>5. ~Set'
          <6>1. Len(keys) + 1 \in DOMAIN keys'
            <7>1. Len(keys) \in Nat
              BY <1>2
            <7> QED
              BY <5>6, <7>1
          <6>2. Uninit \in ToSet(keys')
            BY <5>4, <6>1, Zenon DEF ToSet
          <6> QED
            BY <6>2 DEF Set
        <5>7. PICK new : new = keys'
          OBVIOUS
        <5>8. PICK p : p = at.middle + 1
          OBVIOUS
        <5>9. /\ p \in 1..Len(keys) /\ keys[p] # Uninit /\ Comparator(keys[p], data) = 0
              /\ new \in Seq(D) /\ Len(new) = Len(keys) + 1 /\ new[Len(keys) + 1] = Uninit
              /\ \A a \in 1..Len(keys) : new[a] = IF a = p THEN data ELSE keys[a]
          BY <1>2, <4>4, <4>5, <4>7, <5>4, <5>7, <5>8
        <5>13. /\ keys \in Seq(Items \cup {Uninit}) /\ SetInOrder /\ data \in Items
               /\ p \in 1..Len(keys) /\ keys[p] # Uninit /\ Comparator(keys[p], data) = 0
               /\ new \in Seq(Items \cup {Uninit}) /\ Len(new) = Len(keys) + 1
               /\ \A a \in 1..Len(keys) : new[a] = IF a = p THEN data ELSE keys[a]
               /\ new[Len(keys) + 1] = Uninit
          BY <1>2, <5>9
        <5>10. /\ \A a, b \in 1..Len(keys) + 1 :
                    a < b /\ new[b] # Uninit => new[a] # Uninit /\ Comparator(new[a], new[b]) = -1
               /\ ToSet(new) \ {Uninit} = {d \in ToSet(keys) \ {Uninit} : d.key # data.key} \cup {data}
          BY ONLY <5>13, AfterReplace
        <5>11. SetInOrder'
          BY <5>6, <5>7, <5>10 DEF SetInOrder
        <5>12. ToSet(keys') \ {Uninit} = LastPut(given')
          BY <1>2, <2>7, <5>7, <5>10
        <5> QED
          BY <1>2, <5>4, <5>5, <5>11, <5>12
      <4>8. CASE at.how = "none"
        <5>1. keys' = InsertAt(keys, i + 1, data)
          BY <4>6, <4>8
        <5>3. keys' \in Seq(D) /\ Len(keys') = key_num + 1
          <6>1. data \in D /\ keys \in Seq(D) /\ key_num = Len(keys) /\ i + 1 \in 1..key_num + 1
            BY <1>2, <4>5
          <6> HIDE DEF D
          <6>2. \A p \in 1..Len(keys) + 1 : InsertAt(keys, p, data) \in Seq(D)
                                            /\ Len(InsertAt(keys, p, data)) = Len(keys) + 1
            BY <6>1, PutTyped
          <6> QED
            BY <5>1, <6>1, <6>2, Zenon
        <5>4. Uninit \in ToSet(keys') <=> Uninit \in ToSet(keys)
          BY <1>2, <4>5, <5>1, SetAfterInsert
        <5>5. PICK new : new = keys'
          OBVIOUS
        <5>6. PICK p : p = i
          OBVIOUS
        <5>7. /\ p \in 0..Len(keys) /\ new = InsertAt(keys, p + 1, data)
              /\ \A j \in 1..p : keys[j] # Uninit /\ Comparator(keys[j], data) = -1
              /\ \A j \in p + 1..Len(keys) : keys[j] # Uninit => Comparator(keys[j], data) = 1
          BY <1>2, <4>4, <4>5, <4>8, <5>1, <5>5, <5>6
        <5>8. \A a, b \in 1..Len(keys) + 1 :
                a < b /\ new[b] # Uninit => new[a] # Uninit /\ Comparator(new[a], new[b]) = -1
          BY <1>2, <5>7, OrderedAfterInsert
        <5>9. ToSet(new) \ {Uninit} = {d \in ToSet(keys) \ {Uninit} : d.key # data.key} \cup {data}
          BY <1>2, <5>7, ItemsAfterInsert
        <5>10. SetInOrder'
          <6>1. DOMAIN keys' = 1..Len(keys) + 1
            BY <1>2, <5>3, LenProperties
          <6> QED
            BY <5>5, <5>8, <6>1 DEF SetInOrder
        <5>11. ToSet(keys') \ {Uninit} = LastPut(given')
          BY <1>2, <2>7, <5>5, <5>9
        <5>12. ASSUME Set' PROVE Rearranged(keys', given')
          <6>1. Set
            BY <5>4, <5>12 DEF Set
          <6>2. keys \in Seq(Items)
            BY <1>2, <6>1, SetItems
          <6>3. Rearranged(keys, given) /\ i + 1 \in 1..Len(keys) + 1
            BY <1>2, <4>5, <6>1
          <6>4. Rearranged(InsertAt(keys, i + 1, data), Append(given, data))
            BY <1>2, <6>2, <6>3, RearrangedInsert
          <6> QED
            BY <2>1, <5>1, <6>4
        <5> QED
          BY <5>3, <5>10, <5>11, <5>12
      <4> QED
        BY <4>4, <4>7, <4>8
    <3> QED
      BY <1>2, <3>1, <3>2
  <2>6. Array'
    BY <2>1, <2>2, <2>4, <2>5 DEF Array, Bounds
  <2>8. InBuilding'
    BY <1>2, <2>1, <2>6 DEF InBuilding
  <2> QED
    BY <1>1, <2>1, <2>3, <2>8 DEF SInv
<1> QED
  BY <1>3, <1>4

\* The end of a process leaves nothing but the file.
LEMMA ForgetStep ==
  ASSUME SInv, Forget, ~complete => Unsaved
  PROVE  SInv'
<1>1. /\ phase' = "closed" /\ keys' = <<>> /\ max' = MAX /\ buf' = buffer_new(RESERVE)
      /\ file' = file /\ given' = given /\ written' = written /\ complete' = complete
  BY DEF Forget
<1>2. Common'
  BY <1>1 DEF SInv, Common, Phases, Saved
<1>3. buf' \in Buffers /\ buf'.SEEK = 0
  BY <1>1, NewBuffer
<1>4. InClosed'
  BY <1>1, <1>3 DEF InClosed, Unsaved
<1> QED
  BY <1>1, <1>2, <1>4 DEF SInv

\* A file with nothing but its head, of any length the table can have.
LEMMA HeadUnsaved ==
  ASSUME NEW n \in Nat, n <= MAX, file = HeadBytes(n)
  PROVE  Unsaved
<1>1. CASE n = 0
  <2>1. HeadBytes(0) \in Seq(Byte)
    BY <1>1, HeadBehind
  <2>2. file = HeadBytes(0) \o <<>>
    BY <1>1, <2>1, ConcatEmptySeq
  <2>3. <<>> \in Seq(Byte)
    BY EmptySeq
  <2> QED
    BY <2>2, <2>3 DEF Unsaved
<1>2. CASE n > 0
  <2>1. n \in 1..MAX
    BY <1>2, Capacity
  <2> QED
    BY <2>1 DEF Unsaved
<1> QED
  BY <1>1, <1>2

LEMMA UnsavedNow ==
  ASSUME SInv, ~complete,
         phase \in {"building", "headed", "flushed", "compact", "compacted", "reading", "sorted"}
  PROVE  Unsaved
<1>1. CASE phase = "building"
  BY <1>1 DEF SInv, InBuilding, Unsaved
<1>2. CASE phase = "headed"
  <2>1. key_num \in Nat /\ key_num <= MAX /\ file = HeadBytes(key_num)
    BY <1>2, LenProperties DEF SInv, InHeaded, Array
  <2> QED
    BY <2>1, HeadUnsaved
<1>3. CASE phase = "compact"
  BY <1>3 DEF SInv, InCompact, Holds, Unsaved
<1>4. CASE phase = "reading"
  BY <1>4 DEF SInv, InReading
<1>5. CASE phase \in {"flushed", "compacted", "sorted"}
  BY <1>5 DEF SInv, InFlushed, InCompacted, InSorted
<1> QED
  BY <1>1, <1>2, <1>3, <1>4, <1>5

LEMMA CloseStep ==
  ASSUME SInv, Close
  PROVE  SInv'
<1>1. CASE Uninit \in ToSet(keys)
  BY <1>1, FaultStep DEF Close
<1>2. CASE Uninit \notin ToSet(keys)
  BY <1>2, UnsavedNow, ForgetStep DEF Close
<1> QED
  BY <1>1, <1>2

LEMMA CrashStep ==
  ASSUME SInv, Crash
  PROVE  SInv'
BY UnsavedNow, ForgetStep DEF Crash

\* What was read, sorted (_sstdata_sort).
LEMMA SortStep ==
  ASSUME SInv, Sort
  PROVE  SInv'
<1>1. /\ phase = "reading" /\ keys # <<>> /\ keys' = FoldLeft(Inserted, <<>>, keys)
      /\ phase' = "sorted" /\ UNCHANGED <<key_num, max, file, given, written, complete>>
  BY DEF Sort
<1>2. complete /\ Read
  BY <1>1 DEF SInv, Common, InReading
<1>3. keys \in Seq(data_t) /\ keys \in Seq(Records) /\ key_num = Len(keys) /\ Rearranged(keys, Stored(given))
  BY <1>2, ItemsAre, SeqSubset DEF Read
<1>4. /\ keys' \in Seq(data_t) /\ NonDecreasing(keys') /\ Rearranged(keys', keys)
  BY <1>1, <1>3, SortIs
<1>5. Rearranged(keys', Stored(given)) /\ Len(keys') = Len(keys)
  BY <1>3, <1>4, RearrangedTrans DEF Rearranged
<1>6. keys' \in Seq(Records)
  <2>1. Len(keys') \in Nat /\ DOMAIN keys' = 1..Len(keys') /\ \A i \in 1..Len(keys) : keys[i] \in Records
    BY <1>3, <1>4, LenProperties, ElementOfSeq
  <2>2. \A i \in 1..Len(keys') : keys'[i] \in Records
    <3>1. \A i \in 1..Len(keys') : \E j \in 1..Len(keys) : keys'[i] = keys[j]
      BY <1>4, RearrangedItems DEF Covers
    <3> QED
      BY <2>1, <3>1
  <2>3. keys' \in [1..Len(keys') -> Records]
    <3>1. keys' = [i \in DOMAIN keys' |-> keys'[i]]
      BY <1>4, SeqDef
    <3> QED
      BY <2>1, <2>2, <3>1
  <2> QED
    BY <2>1, <2>3, FunctionIsSeq
<1>7. Read'
  BY <1>1, <1>3, <1>5, <1>6 DEF Read
<1>8. Common'
  BY <1>1 DEF SInv, Common, Phases, Saved
<1>9. InSorted'
  BY <1>1, <1>2, <1>4, <1>7 DEF InSorted
<1> QED
  BY <1>1, <1>8, <1>9 DEF SInv

\* What sstdata_open does with a head and what is behind it.
Opened(n, body) ==
  \E b : /\ Readable(b) /\ b.SEEK = 0 /\ b.buf = body
         /\ ReadItems(b, n).short => Fault
         /\ ReadItems(b, n).short = FALSE =>
              /\ keys' = ReadItems(b, n).items /\ key_num' = n /\ max' = MAX
              /\ bigest_key' = (IF n = 0 THEN Uninit ELSE Last(keys'))
              /\ smallest_key' = (IF n = 0 THEN Uninit ELSE Head(keys'))
              /\ phase' = "reading"
              /\ file' = file /\ given' = given /\ written' = written /\ complete' = complete

LEMMA OpenReads ==
  ASSUME Open, InClosed, NEW n \in Nat, n <= MAX, NEW body \in Seq(Byte), file = HeadBytes(n) \o body
  PROVE  Opened(n, body)
<1> DEFINE head == Filled(buf, SubSeq(file, 1, 12))
           m == buffer_getint(Skip(head, 4))
           size == Len(file) - 12
           b0 == IF size > buf.buflen THEN buffer_new(size) ELSE buf
           data == Filled(buffer_seekfirst(buffer_clear(b0)), SubSeq(file, 13, Len(file)))
           read == ReadItems(data, m)
<1>1. /\ HeadBytes(n) \in Seq(Byte) /\ Len(HeadBytes(n)) = 12 /\ n <= INT_MAX
  BY HeadBehind
<1>2. /\ Len(file) = 12 + Len(body) /\ SubSeq(file, 1, 12) = HeadBytes(n)
      /\ SubSeq(file, 13, Len(file)) = body
  BY <1>1, FileParts, Zenon
<1>3. Len(body) \in Nat /\ size = Len(body) /\ ~(Len(file) < 12)
  BY <1>2, LenProperties
<1>4. buf \in Buffers /\ buf.SEEK = 0
  BY DEF InClosed
<1>5. m = n /\ buffer_getint(Skip(head, 8)) = MAX
  BY <1>1, <1>2, <1>4, HeadRead, Zenon
<1>6. b0 \in Buffers
  BY <1>3, <1>4, BufferOf
<1>7. Readable(data) /\ data.SEEK = 0 /\ data.buf = body
  <2> HIDE DEF b0
  <2>1. data = [[buffer_clear(b0) EXCEPT !.SEEK = 0] EXCEPT !.buf = body]
    BY <1>2, Zenon DEF Filled, buffer_seekfirst
  <2>2. buffer_clear(b0) \in Buffers
    BY <1>6, ClearIn
  <2>3. DOMAIN buffer_clear(b0) = {"buf", "SEEK", "NUL", "buflen"}
    BY <2>2, BufferFacts
  <2> DEFINE c == buffer_clear(b0)
             d == [[c EXCEPT !.SEEK = 0] EXCEPT !.buf = body]
  <2> HIDE DEF c
  <2>4. DOMAIN d = {"buf", "SEEK", "NUL", "buflen"} /\ d.SEEK = 0 /\ d.buf = body
    BY <2>3 DEF c
  <2>5. Readable(d)
    BY <2>4 DEF Readable
  <2> QED
    BY <2>1, <2>4, <2>5, Zenon DEF c
<1>8. IF read.short THEN Fault
      ELSE /\ keys' = read.items /\ key_num' = m /\ max' = buffer_getint(Skip(head, 8))
           /\ bigest_key' = (IF m = 0 THEN Uninit ELSE Last(read.items))
           /\ smallest_key' = (IF m = 0 THEN Uninit ELSE Head(read.items))
           /\ buf' = read.buf /\ phase' = "reading"
           /\ UNCHANGED <<file, given, written, complete>>
  BY <1>3, Zenon DEF Open
<1> HIDE DEF data, head, m
<1>9. read = ReadItems(data, n)
  BY <1>5
<1>10. Readable(data) /\ data.SEEK = 0 /\ data.buf = body
       /\ (ReadItems(data, n).short => Fault)
       /\ (ReadItems(data, n).short = FALSE =>
              /\ keys' = ReadItems(data, n).items /\ key_num' = n /\ max' = MAX
              /\ bigest_key' = (IF n = 0 THEN Uninit ELSE Last(keys'))
              /\ smallest_key' = (IF n = 0 THEN Uninit ELSE Head(keys'))
              /\ phase' = "reading"
              /\ file' = file /\ given' = given /\ written' = written /\ complete' = complete)
  BY <1>5, <1>7, <1>8, <1>9
<1> QED
  BY <1>10, Zenon DEF Opened

LEMMA OpenStep ==
  ASSUME SInv, Open
  PROVE  SInv'
<1>1. InClosed /\ Common
  BY DEF SInv, Open
<1>2. CASE complete
  <2>12. PICK items : items = written
    OBVIOUS
  <2>1. PICK body : /\ Holds(body, items) /\ Rearranged(items, given) /\ Len(given) <= MAX
                    /\ file = HeadBytes(Len(given)) \o body
    BY <1>1, <1>2, <2>12 DEF Common, Saved
  <2>2. body \in Seq(Byte) /\ items \in Seq(Items) /\ given \in Seq(Items) /\ Len(given) \in Nat
        /\ Len(items) = Len(given)
    BY <1>1, <2>1, LenProperties DEF Holds, Common, Rearranged
  <2>3. Opened(Len(given), body)
    BY <1>1, <2>1, <2>2, OpenReads
  <2>4. PICK b : /\ Readable(b) /\ b.SEEK = 0 /\ b.buf = body
                 /\ ReadItems(b, Len(given)).short = FALSE =>
                      /\ keys' = ReadItems(b, Len(given)).items /\ key_num' = Len(given)
                      /\ max' = MAX /\ phase' = "reading"
                      /\ bigest_key' = (IF Len(given) = 0 THEN Uninit ELSE Last(keys'))
                      /\ smallest_key' = (IF Len(given) = 0 THEN Uninit ELSE Head(keys'))
                      /\ file' = file /\ given' = given /\ written' = written /\ complete' = complete
    BY <2>3, Zenon DEF Opened
  <2>5. /\ ReadItems(b, Len(given)).short = FALSE
        /\ ReadItems(b, Len(given)).items = Stored(items)
    <3>1. Holds(b.buf, items)
      BY <2>1, <2>4
    <3>2. /\ ReadItems(b, Len(items)).short = FALSE
          /\ ReadItems(b, Len(items)).items = Stored(items)
      BY <2>4, <3>1, ReadBack
    <3> QED
      BY <2>2, <3>2
  <2>6. keys' = Stored(items) /\ key_num' = Len(given) /\ max' = MAX /\ phase' = "reading"
        /\ file' = file /\ given' = given /\ written' = written /\ complete' = complete
        /\ bigest_key' = (IF Len(given) = 0 THEN Uninit ELSE Last(keys'))
        /\ smallest_key' = (IF Len(given) = 0 THEN Uninit ELSE Head(keys'))
    BY <2>4, <2>5, Zenon
  <2>7. Stored(items) \in Seq(Records) /\ Len(Stored(items)) = Len(given)
    BY <2>2, StoredFacts
  <2>8. Rearranged(Stored(items), Stored(given))
    BY <2>1, <2>2, RearrangedStored
  <2>9. Read'
    BY <2>6, <2>7, <2>8 DEF Read
  <2>10. Common'
    BY <1>1, <2>6 DEF Common, Phases, Saved
  <2>13. Bounds'
    BY <2>2, <2>6 DEF Bounds
  <2>14. keys' = Stored(written')
    BY <2>6, <2>12
  <2>11. InReading'
    BY <1>2, <2>6, <2>9, <2>13, <2>14 DEF InReading
  <2> QED
    BY <2>6, <2>10, <2>11 DEF SInv
<1>3. CASE ~complete /\ Len(file) < 12
  <2>1. /\ phase' = "reading" /\ keys' = keys /\ max' = max /\ file' = file /\ given' = given
        /\ complete' = complete /\ written' = written /\ key_num' = 0
    BY <1>3, Zenon DEF Open
  <2>2. keys = <<>> /\ Unsaved
    BY <1>1, <1>3 DEF InClosed
  <2>3. Common'
    BY <1>1, <1>3, <2>1 DEF Common, Phases
  <2>4. InReading'
    BY <1>3, <2>1, <2>2 DEF InReading, Unsaved
  <2> QED
    BY <2>1, <2>3, <2>4 DEF SInv
<1>4. CASE ~complete /\ ~(Len(file) < 12)
  <2>1. Unsaved
    BY <1>1, <1>4 DEF InClosed
  <2>2. CASE file = <<>>
    <3>1. Len(<<>>) = 0
      OBVIOUS
    <3> QED
      BY <1>4, <2>2, <3>1
  <2>3. ASSUME NEW n \in 1..MAX, file = HeadBytes(n) PROVE SInv'
    <3>1. n \in Nat /\ n <= MAX /\ n > 0
      BY Capacity
    <3>2. HeadBytes(n) \in Seq(Byte) /\ <<>> \in Seq(Byte)
      BY <3>1, HeadBehind, EmptySeq
    <3>3. file = HeadBytes(n) \o <<>>
      BY <2>3, <3>2, ConcatEmptySeq
    <3>4. Opened(n, <<>>)
      BY <1>1, <3>1, <3>2, <3>3, OpenReads
    <3>5. PICK b : b.SEEK = 0 /\ b.buf = <<>> /\ (ReadItems(b, n).short => Fault)
      BY <3>4, Zenon DEF Opened
    <3>6. Fault
      BY <3>1, <3>5, ReadShort
    <3> QED
      BY <3>6, FaultStep
  <2>4. ASSUME NEW body \in Seq(Byte), file = HeadBytes(0) \o body PROVE SInv'
    <3>1. 0 \in Nat /\ 0 <= MAX
      BY Capacity
    <3>2. Opened(0, body)
      BY <1>1, <2>4, <3>1, OpenReads
    <3>3. PICK b : ReadItems(b, 0).short = FALSE =>
                      /\ keys' = ReadItems(b, 0).items /\ max' = MAX /\ phase' = "reading"
                      /\ key_num' = 0 /\ file' = file /\ given' = given /\ complete' = complete
      BY <3>2, Zenon DEF Opened
    <3>4. keys' = <<>> /\ key_num' = 0 /\ max' = MAX /\ phase' = "reading" /\ file' = file /\ given' = given
          /\ complete' = complete
      BY <3>3, ReadNone, Zenon
    <3>5. Common'
      BY <1>1, <1>4, <3>4 DEF Common, Phases
    <3>6. InReading'
      BY <1>4, <2>1, <3>4 DEF InReading, Unsaved
    <3> QED
      BY <3>4, <3>5, <3>6 DEF SInv
  <2> QED
    BY <2>1, <2>2, <2>3, <2>4 DEF Unsaved
<1> QED
  BY <1>2, <1>3, <1>4

LEMMA StutterStep ==
  ASSUME SInv, UNCHANGED vars
  PROVE  SInv'
<1>1. Common'
  BY DEF SInv, Common, Saved, vars
<1>2. Array => Array'
  BY DEF Array, Set, SetInOrder, Bounds, vars
<1>3. Read => Read'
  BY DEF Read, vars
<1>4. Unsaved => Unsaved'
  BY DEF Unsaved, vars
<1>5. /\ phase' = "new" => InNew'
      /\ phase' = "building" => InBuilding'
      /\ phase' = "headed" => InHeaded'
      /\ phase' = "flushed" => InFlushed'
  BY <1>2 DEF SInv, InNew, InBuilding, InHeaded, InFlushed, vars
<1>6. /\ phase' = "compact" => InCompact'
      /\ phase' = "compacted" => InCompacted'
  BY DEF SInv, InCompact, InCompacted, vars
<1>7. /\ phase' = "closed" => InClosed'
      /\ phase' = "reading" => InReading'
      /\ phase' = "sorted" => InSorted'
  BY <1>3, <1>4 DEF SInv, InClosed, InReading, InSorted, Bounds, vars
<1> QED
  BY <1>1, <1>5, <1>6, <1>7 DEF SInv

LEMMA NextStep ==
  ASSUME SInv, [Next]_vars
  PROVE  SInv'
<1>1. CASE Build
  BY <1>1, BuildStep
<1>2. CASE BuildCompact
  BY <1>2, BuildCompactStep
<1>3. CASE \E data \in Items : Put(data) \/ CompactPut(data)
  BY <1>3, PutStep, CompactPutStep
<1>4. CASE CompactEnd
  BY <1>4, CompactEndStep
<1>5. CASE WriteHead
  BY <1>5, WriteHeadStep
<1>6. CASE WriteData
  BY <1>6, WriteDataStep
<1>7. CASE Close
  BY <1>7, CloseStep
<1>8. CASE Crash
  BY <1>8, CrashStep
<1>9. CASE Open
  BY <1>9, OpenStep
<1>10. CASE Sort
  BY <1>10, SortStep
<1>11. CASE \E key \in Keys : Get(key)
  BY <1>11, FaultStep DEF Get
<1>12. CASE UNCHANGED vars
  BY <1>12, StutterStep
<1> QED
  BY <1>1, <1>2, <1>3, <1>4, <1>5, <1>6, <1>7, <1>8, <1>9, <1>10, <1>11, <1>12 DEF Next

LEMMA TableInvariance == Spec => []SInv
<1>1. Init => SInv
  BY SInitOK
<1>2. SInv /\ [Next]_vars => SInv'
  BY NextStep
<1> QED
  BY <1>1, <1>2, PTL DEF Spec

-----------------------------------------------------------------------------
(* The properties. *)

\* The array of a table that is built.
LEMMA ArrayFacts ==
  ASSUME SInv, phase \in {"building", "headed", "flushed"}
  PROVE  /\ keys \in Seq(Items \cup {Uninit}) /\ given \in Seq(Items) /\ key_num = Len(keys)
         /\ SetInOrder /\ ToSet(keys) \ {Uninit} = LastPut(given)
         /\ key_num = Len(given) /\ key_num \in Nat /\ Bounds
<1>1. Array /\ given \in Seq(Items)
  BY DEF SInv, Common, InBuilding, InHeaded, InFlushed
<1> QED
  BY <1>1, LenProperties DEF Array

\* An item that is read again shows what the item shows.
LEMMA CountStored ==
  ASSUME NEW items \in Seq(Items), NEW x
  PROVE  Count(x, Stored(items)) = Count(x, items)
<1> DEFINE n == Len(items)
<1>1. /\ n \in Nat /\ DOMAIN items = 1..n /\ \A i \in 1..n : items[i] \in Items
      /\ DOMAIN Stored(items) = 1..n /\ \A i \in 1..n : Stored(items)[i] = Reread(items[i])
  BY LenProperties, ElementOfSeq, StoredFacts
<1>2. \A i \in 1..n : Shown(Stored(items)[i]) = Shown(items[i])
  BY <1>1, RereadFacts
<1> HIDE DEF n
<1>3. {i \in 1..n : Shown(Stored(items)[i]) = Shown(x)} = {i \in 1..n : Shown(items[i]) = Shown(x)}
  BY <1>2
<1> QED
  BY <1>1, <1>3 DEF Count

\* What was read of a complete file: the stored items in some order.
LEMMA ReadFacts ==
  ASSUME SInv, phase \in {"reading", "sorted"}, complete
  PROVE  /\ keys \in Seq(Records) /\ given \in Seq(Items) /\ key_num = Len(keys) /\ max = MAX
         /\ Rearranged(keys, Stored(given)) /\ Len(keys) = Len(given) /\ Len(given) \in Nat
<1>1. Read /\ given \in Seq(Items) /\ max = MAX
  BY DEF SInv, Common, InReading, InSorted
<1>2. Len(Stored(given)) = Len(given)
  BY <1>1, StoredFacts
<1> QED
  BY <1>1, <1>2, LenProperties DEF Read, Rearranged

LEMMA SInvSorted == SInv => KeysSorted
<1> SUFFICES ASSUME SInv PROVE KeysSorted
  OBVIOUS
<1>1. phase \in {"building", "headed", "flushed"} =>
       /\ key_num = Len(keys) /\ SetInOrder
       /\ ToSet(keys) \ {Uninit} = LastPut(given)
  BY ArrayFacts
<1>2. ASSUME phase = "sorted"
      PROVE  /\ key_num = Len(keys) /\ Len(keys) = Len(given)
             /\ \A i \in 1..Len(keys) - 1 : Comparator(keys[i], keys[i + 1]) # 1
             /\ \A i \in DOMAIN given : Count(given[i], keys) = Count(given[i], given)
  <2>1. complete /\ NonDecreasing(keys)
    BY <1>2 DEF SInv, InSorted
  <2>2. /\ keys \in Seq(Records) /\ given \in Seq(Items) /\ key_num = Len(keys)
        /\ Rearranged(keys, Stored(given)) /\ Len(keys) = Len(given) /\ Len(given) \in Nat
    BY <1>2, <2>1, ReadFacts
  <2>3. ASSUME NEW i \in 1..Len(keys) - 1 PROVE Comparator(keys[i], keys[i + 1]) # 1
    <3>1. i \in 1..Len(keys) /\ i + 1 \in 1..Len(keys) /\ i < i + 1
      BY <2>2
    <3> QED
      BY <2>1, <3>1 DEF NonDecreasing
  <2>4. \A x : Count(x, keys) = Count(x, given)
    <3>1. Stored(given) \in Seq(Records)
      BY <2>2, StoredFacts
    <3>2. \A x : Count(x, keys) = Count(x, Stored(given))
      BY <2>2, <3>1, RearrangedCount
    <3> QED
      BY <2>2, <3>2, CountStored
  <2> QED
    BY <2>2, <2>3, <2>4
<1> QED
  BY <1>1, <1>2 DEF KeysSorted

LEMMA SInvReopened == SInv => ReopenedAsFlushed
<1> SUFFICES ASSUME SInv, phase = "reading", complete
             PROVE  /\ key_num = Len(written) /\ Len(keys) = key_num /\ max = MAX
                    /\ \A i \in DOMAIN written :
                         /\ Shown(keys[i]) = Shown(written[i])
                         /\ keys[i].hash_value = written[i].hash_value
                         /\ Plain(written[i].version) => keys[i].version = written[i].version
                    /\ Len(given) = Len(written)
                    /\ \A i \in DOMAIN given : Count(given[i], keys) = Count(given[i], given)
  BY DEF ReopenedAsFlushed
<1>1. /\ keys \in Seq(Records) /\ given \in Seq(Items) /\ key_num = Len(keys) /\ max = MAX
      /\ Rearranged(keys, Stored(given)) /\ Len(keys) = Len(given) /\ Len(given) \in Nat
  BY ReadFacts
<1>2. keys = Stored(written) /\ written \in Seq(Items) /\ Rearranged(written, given)
  BY DEF SInv, Common, InReading, Saved
<1>3. Len(given) = Len(written)
  BY <1>2 DEF Rearranged
<1>4. ASSUME NEW i \in DOMAIN written
      PROVE  /\ Shown(keys[i]) = Shown(written[i])
             /\ keys[i].hash_value = written[i].hash_value
             /\ Plain(written[i].version) => keys[i].version = written[i].version
  <2>1. i \in 1..Len(written) /\ written[i] \in Items
    BY <1>2, <1>4, LenProperties, ElementOfSeq
  <2>2. keys[i] = Reread(written[i])
    BY <1>2, <2>1, StoredFacts
  <2>3. /\ Shown(keys[i]) = Shown(written[i]) /\ keys[i].hash_value = written[i].hash_value
        /\ keys[i].version = GetLong(written[i].version)
    BY <2>1, <2>2, RereadFacts
  <2> QED
    BY <2>3 DEF Plain
<1>5. \A x : Count(x, keys) = Count(x, given)
  <2>1. Stored(given) \in Seq(Records)
    BY <1>1, StoredFacts
  <2>2. \A x : Count(x, keys) = Count(x, Stored(given))
    BY <1>1, <2>1, RearrangedCount
  <2> QED
    BY <1>1, <2>2, CountStored
<1> QED
  BY <1>1, <1>3, <1>4, <1>5

\* What a get finds in an array whose set pointers come first, strictly in order.
LEMMA FoundIs ==
  ASSUME key_num \in Nat, key_num > 0, keys \in Seq(Records \cup {Uninit}), key_num = Len(keys),
         SetInOrder, keys[1] # Uninit, smallest_key = Head(keys), bigest_key = Last(keys),
         bigest_key # Uninit => smallest_key.hash_value # bigest_key.hash_value, NEW key \in Keys
  PROVE  \/ sstdata_get(key) = Uninit /\ Uninit \in ToSet(keys)
         \/ /\ (\A i \in 1..key_num : keys[i] # Uninit => keys[i].key # key)
                 => sstdata_get(key) = NULL
            /\ \A i \in 1..key_num : keys[i] # Uninit /\ keys[i].key = key =>
                 sstdata_get(key) = IF keys[i].type = "s" THEN keys[i] ELSE NULL
<1> DEFINE h == Hash[key]
           data == [keys[1] EXCEPT !.key = key, !.hash_value = h]
<1>1. /\ DOMAIN keys = 1..key_num /\ \A i \in 1..key_num : keys[i] \in Records \cup {Uninit}
      /\ 1 \in 1..key_num
  BY LenProperties, ElementOfSeq
<1>2. \A i \in 1..key_num : keys[i] # Uninit =>
        /\ keys[i] \in data_t /\ keys[i].hash_value = Hash[keys[i].key]
        /\ keys[i].key \in Keys /\ keys[i].hash_value \in Nat
  BY <1>1 DEF Records, data_t
<1>3. \A i, j \in 1..key_num : i < j /\ keys[j] # Uninit =>
        keys[i] # Uninit /\ Comparator(keys[i], keys[j]) = -1
  BY <1>1 DEF SetInOrder
<1>4. h \in Nat
  BY HashAssumption
<1>5. data \in data_t /\ data.key = key /\ data.hash_value = h
  BY <1>1, <1>2, <1>4 DEF data_t
<1>6. smallest_key = keys[1] /\ bigest_key = keys[key_num] /\ key_num \in 1..key_num
  BY <1>1 DEF Last
<1>7. keys[key_num] # Uninit => keys[1].hash_value <= keys[key_num].hash_value
  <2>1. CASE key_num = 1
    BY <2>1, <1>1, <1>2, <1>6
  <2>2. CASE 1 < key_num
    <3> SUFFICES ASSUME keys[key_num] # Uninit
                 PROVE  keys[1].hash_value <= keys[key_num].hash_value
      OBVIOUS
    <3>1. Comparator(keys[1], keys[key_num]) = -1
      BY <1>1, <1>3, <1>6, <2>2
    <3>2. keys[1] \in data_t /\ keys[key_num] \in data_t
      BY <1>1, <1>2, <1>6
    <3> QED
      BY <3>1, <3>2, ItemOrder
  <2> QED
    BY <2>1, <2>2
<1>8. CASE h <= smallest_key.hash_value /\ bigest_key = Uninit
  <2>1. sstdata_get(key) = Uninit
    <3>1. key_num # 0
      OBVIOUS
    <3> QED
      BY <1>8, <3>1, Zenon DEF sstdata_get
  <2>2. Uninit \in ToSet(keys)
    BY <1>1, <1>6, <1>8 DEF ToSet
  <2> QED
    BY <2>1, <2>2
<1>9. CASE ~(h <= smallest_key.hash_value /\ bigest_key = Uninit)
  <2>1. ~OutOfRange(h)
    <3>1. CASE bigest_key = Uninit
      BY <1>9, <3>1 DEF OutOfRange
    <3>2. CASE bigest_key # Uninit
      <4>1. /\ smallest_key.hash_value \in Nat /\ bigest_key.hash_value \in Nat
            /\ smallest_key.hash_value <= bigest_key.hash_value
            /\ smallest_key.hash_value # bigest_key.hash_value
        BY <1>1, <1>2, <1>6, <1>7, <3>2
      <4> QED
        BY <1>4, <4>1 DEF OutOfRange
    <3> QED
      BY <3>1, <3>2
  <2>2. sstdata_get(key) = _sstdata_binarysearch(data.hash_value, data.key)
    <3>1. key_num # 0
      OBVIOUS
    <3>2. sstdata_get(key) = _sstdata_binarysearch(h, key)
      BY <1>9, <2>1, <3>1, Zenon DEF sstdata_get
    <3> QED
      BY <1>5, <3>2
  <2> HIDE DEF data, h
  <2>3. InOrder(keys, key_num)
    BY <1>1, <1>2, <1>3 DEF InOrder
  <2>4. \/ sstdata_get(key) = Uninit /\ \E i \in 1..key_num : keys[i] = Uninit
        \/ /\ (\A i \in 1..key_num : keys[i] # Uninit => Comparator(keys[i], data) # 0)
                => sstdata_get(key) = NULL
           /\ \A i \in 1..key_num : keys[i] # Uninit /\ Comparator(keys[i], data) = 0 =>
                sstdata_get(key) = IF keys[i].type = "s" THEN keys[i] ELSE NULL
    BY <1>5, <2>2, <2>3, SearchIs, ItemsAre
  <2>5. \A i \in 1..key_num : keys[i] # Uninit =>
          (Comparator(keys[i], data) = 0 <=> keys[i].key = key)
    <3> SUFFICES ASSUME NEW i \in 1..key_num, keys[i] # Uninit
                 PROVE  Comparator(keys[i], data) = 0 <=> keys[i].key = key
      OBVIOUS
    <3>1. keys[i] \in data_t /\ keys[i].hash_value = Hash[keys[i].key]
      BY <1>2
    <3>2. Comparator(keys[i], data) = 0 <=> keys[i].hash_value = data.hash_value /\ keys[i].key = data.key
      BY <1>5, <3>1, ItemOrder
    <3> QED
      BY <1>5, <3>1, <3>2 DEF h
  <2>6. (\E i \in 1..key_num : keys[i] = Uninit) => Uninit \in ToSet(keys)
    BY <1>1 DEF ToSet
  <2> QED
    BY <2>4, <2>5, <2>6
<1> QED
  BY <1>8, <1>9

\* Every item last put under its key is in the array, and every key in the array
\* is one of an item put.
Keeps ==
  \A i \in DOMAIN given :
    (\A j \in DOMAIN given : given[j].key = given[i].key => j <= i) =>
      \E k \in 1..key_num : keys[k] # Uninit /\ Shown(keys[k]) = Shown(given[i])
Covered ==
  \A k \in 1..key_num : keys[k] # Uninit => \E i \in DOMAIN given : given[i].key = keys[k].key

\* A get under a key finds the last item put under it.
LEMMA GetIs ==
  ASSUME key_num \in Nat, key_num > 0, keys \in Seq(Records \cup {Uninit}), key_num = Len(keys),
         SetInOrder, keys[1] # Uninit, smallest_key = Head(keys), bigest_key = Last(keys),
         bigest_key # Uninit => smallest_key.hash_value # bigest_key.hash_value, NEW key \in Keys,
         given \in Seq(Items), Keeps, Covered
  PROVE  LET of == {i \in DOMAIN given : given[i].key = key}
             found == sstdata_get(key)
         IN \/ found = Uninit /\ Uninit \in ToSet(keys)
            \/ IF of = {} THEN found = NULL
               ELSE IF given[Max(of)].type = "d" THEN found = NULL
               ELSE /\ found \notin {NULL, Uninit}
                    /\ Shown(found) = Shown(given[Max(of)])
<1> DEFINE of == {i \in DOMAIN given : given[i].key = key}
           found == sstdata_get(key)
           n == Len(given)
<1>1. /\ n \in Nat /\ DOMAIN given = 1..n /\ \A i \in 1..n : given[i] \in Items
      /\ \A i \in 1..key_num : keys[i] \in Records \cup {Uninit}
  BY LenProperties, ElementOfSeq
<1>2. \/ found = Uninit /\ Uninit \in ToSet(keys)
      \/ /\ (\A i \in 1..key_num : keys[i] # Uninit => keys[i].key # key) => found = NULL
         /\ \A i \in 1..key_num : keys[i] # Uninit /\ keys[i].key = key =>
              found = IF keys[i].type = "s" THEN keys[i] ELSE NULL
  BY FoundIs
<1> HIDE DEF found, n
<1>3. CASE found = Uninit /\ Uninit \in ToSet(keys)
  BY <1>3 DEF found
<1>4. CASE /\ (\A i \in 1..key_num : keys[i] # Uninit => keys[i].key # key) => found = NULL
           /\ \A i \in 1..key_num : keys[i] # Uninit /\ keys[i].key = key =>
                found = IF keys[i].type = "s" THEN keys[i] ELSE NULL
  <2>1. CASE of = {}
    <3>1. \A i \in 1..key_num : keys[i] # Uninit => keys[i].key # key
      BY <2>1 DEF Covered
    <3> QED
      BY <1>4, <2>1, <3>1 DEF found
  <2>2. CASE of # {}
    <3>1. of \subseteq 0..n
      BY <1>1
    <3>2. Max(of) \in of /\ \A i \in of : i <= Max(of)
      <4> HIDE DEF of
      <4> QED
        BY <1>1, <2>2, <3>1, MaxOf
    <3> DEFINE m == Max(of)
    <3>3. m \in 1..n /\ m \in DOMAIN given /\ given[m].key = key
          /\ \A j \in DOMAIN given : given[j].key = given[m].key => j <= m
      BY <1>1, <3>2
    <3> HIDE DEF m
    <3>4. PICK k \in 1..key_num : keys[k] # Uninit /\ Shown(keys[k]) = Shown(given[m])
      BY <3>3 DEF Keeps
    <3>5. keys[k].key = key /\ keys[k].type = given[m].type
      BY <3>3, <3>4 DEF Shown
    <3>6. found = IF keys[k].type = "s" THEN keys[k] ELSE NULL
      BY <1>4, <3>4, <3>5
    <3>7. keys[k] # NULL
      BY <1>1, NullItemAssumption, ItemsAre, <3>4
    <3>8. given[m].type \in {"s", "d"}
      BY <1>1, <3>3, ItemFacts
    <3>9. IF given[m].type = "d" THEN found = NULL
          ELSE found \notin {NULL, Uninit} /\ Shown(found) = Shown(given[m])
      BY <3>4, <3>5, <3>6, <3>7, <3>8
    <3> QED
      BY <2>2, <3>9 DEF m, found
  <2> QED
    BY <2>1, <2>2
<1> QED
  BY <1>2, <1>3, <1>4

\* The array of a table that is built keeps what a get looks for.
LEMMA ArrayKeeps ==
  ASSUME keys \in Seq(Items \cup {Uninit}), given \in Seq(Items), key_num = Len(keys),
         key_num = Len(given), key_num > 0, SetInOrder, ToSet(keys) \ {Uninit} = LastPut(given)
  PROVE  keys[1] # Uninit /\ Keeps /\ Covered
<1>1. /\ key_num \in Nat /\ DOMAIN keys = 1..key_num /\ DOMAIN given = 1..key_num
      /\ \A i \in 1..key_num : given[i] \in Items
  <2>1. Len(keys) \in Nat /\ DOMAIN keys = 1..Len(keys) /\ DOMAIN given = 1..Len(given)
        /\ \A i \in 1..Len(given) : given[i] \in Items
    BY LenProperties, ElementOfSeq
  <2> QED
    BY <2>1
<1>2. \A i \in 1..key_num : given[i] # Uninit
  BY <1>1, ItemsAre
<1>3. ASSUME NEW i \in 1..key_num, \A j \in DOMAIN given : given[j].key = given[i].key => j <= i
      PROVE  \E k \in 1..key_num : keys[k] # Uninit /\ keys[k] = given[i]
  <2>1. given[i] \in LastPut(given)
    BY <1>1, <1>3 DEF LastPut
  <2>2. given[i] \in ToSet(keys)
    BY <2>1
  <2> QED
    BY <1>1, <1>2, <2>2 DEF ToSet
<1>4. keys[1] # Uninit
  <2>1. key_num \in 1..key_num /\ \A j \in DOMAIN given : j <= key_num
    BY <1>1
  <2>2. PICK k \in 1..key_num : keys[k] # Uninit
    BY <1>3, <2>1
  <2>3. 1 \in 1..key_num /\ (k = 1 \/ 1 < k)
    BY <1>1
  <2> QED
    BY <1>1, <2>2, <2>3 DEF SetInOrder
<1>5. Keeps
  BY <1>1, <1>3 DEF Keeps
<1>6. Covered
  <2> SUFFICES ASSUME NEW k \in 1..key_num, keys[k] # Uninit
               PROVE  \E i \in DOMAIN given : given[i].key = keys[k].key
    BY DEF Covered
  <2>1. keys[k] \in ToSet(keys) \ {Uninit}
    BY <1>1 DEF ToSet
  <2>2. PICK i \in DOMAIN given : keys[k] = given[i]
    BY <2>1 DEF LastPut
  <2> QED
    BY <2>2
<1> QED
  BY <1>4, <1>5, <1>6

\* So does the array of a table that was read.
LEMMA ReadKeeps ==
  ASSUME keys \in Seq(Records), given \in Seq(Items), key_num = Len(keys), Len(given) = key_num,
         key_num > 0, Rearranged(keys, Stored(given))
  PROVE  keys[1] # Uninit /\ Keeps /\ Covered
<1> DEFINE shown == Stored(given)
<1>1. /\ key_num \in Nat /\ DOMAIN given = 1..key_num /\ \A i \in 1..key_num : given[i] \in Items
      /\ \A i \in 1..key_num : keys[i] \in Records
  BY LenProperties, ElementOfSeq
<1>2. Len(shown) = key_num /\ \A i \in 1..key_num : Shown(shown[i]) = Shown(given[i])
  <2>1. Len(shown) = key_num /\ \A i \in 1..key_num : shown[i] = Reread(given[i])
    BY StoredFacts
  <2> QED
    BY <1>1, <2>1, RereadFacts
<1> HIDE DEF shown
<1>3. Rearranged(keys, shown)
  BY DEF shown
<1>4. /\ \A i \in 1..key_num : \E j \in 1..key_num : keys[i] = shown[j]
      /\ \A j \in 1..key_num : \E i \in 1..key_num : shown[j] = keys[i]
  <2>1. /\ \A i \in 1..Len(keys) : \E j \in 1..Len(shown) : keys[i] = shown[j]
        /\ \A j \in 1..Len(shown) : \E i \in 1..Len(keys) : shown[j] = keys[i]
    <3>1. Covers(keys, shown) /\ Covers(shown, keys)
      BY <1>3, RearrangedItems
    <3> QED
      BY <3>1 DEF Covers
  <2> QED
    BY <1>2, <2>1, Zenon
<1>5. \A i \in 1..key_num : keys[i] # Uninit
  BY <1>1, ItemsAre
<1>6. \A i \in 1..key_num : \E k \in 1..key_num : Shown(keys[k]) = Shown(given[i])
  <2> TAKE i \in 1..key_num
  <2>1. PICK k \in 1..key_num : shown[i] = keys[k]
    BY <1>4
  <2> QED
    BY <1>2, <2>1
<1>7. Keeps
  BY <1>1, <1>5, <1>6 DEF Keeps
<1>8. Covered
  <2> SUFFICES ASSUME NEW k \in 1..key_num
               PROVE  \E i \in DOMAIN given : given[i].key = keys[k].key
    BY DEF Covered
  <2>1. PICK i \in 1..key_num : keys[k] = shown[i]
    BY <1>4
  <2>2. Shown(keys[k]) = Shown(given[i])
    BY <1>2, <2>1
  <2>3. keys[k].key = given[i].key
    BY <2>2 DEF Shown
  <2> QED
    BY <1>1, <2>3
<1>9. keys[1] # Uninit
  <2>1. 1 \in 1..key_num
    BY <1>1
  <2> QED
    BY <1>5, <2>1
<1> QED
  BY <1>7, <1>8, <1>9

LEMMA SInvFinds == SInv => GetFindsNewest
<1> SUFFICES ASSUME SInv, phase \in {"building", "flushed", "reading", "sorted"}, key_num > 0,
                    phase \in {"reading", "sorted"} => complete /\ SetInOrder,
                    phase = "sorted" => smallest_key = Head(keys) /\ bigest_key = Last(keys),
                    bigest_key # Uninit => smallest_key.hash_value # bigest_key.hash_value,
                    NEW key \in Keys
             PROVE  LET of == {i \in DOMAIN given : given[i].key = key}
                        found == sstdata_get(key)
                    IN \/ found = Uninit /\ Uninit \in ToSet(keys)
                       \/ IF of = {} THEN found = NULL
                          ELSE IF given[Max(of)].type = "d" THEN found = NULL
                          ELSE /\ found \notin {NULL, Uninit}
                               /\ Shown(found) = Shown(given[Max(of)])
  BY DEF GetFindsNewest
<1>1. CASE phase \in {"building", "flushed"}
  <2>1. /\ keys \in Seq(Items \cup {Uninit}) /\ given \in Seq(Items) /\ key_num = Len(keys)
        /\ SetInOrder /\ ToSet(keys) \ {Uninit} = LastPut(given)
        /\ key_num = Len(given) /\ key_num \in Nat /\ Bounds
    BY <1>1, ArrayFacts
  <2>2. keys \in Seq(Records \cup {Uninit})
    <3>1. Items \cup {Uninit} \subseteq Records \cup {Uninit}
      BY ItemsAre
    <3> QED
      BY <2>1, <3>1, SeqSubset
  <2>3. keys[1] # Uninit /\ Keeps /\ Covered
    BY <2>1, ArrayKeeps
  <2>4. smallest_key = Head(keys) /\ bigest_key = Last(keys)
    BY <2>1 DEF Bounds
  <2> QED
    BY <2>1, <2>2, <2>3, <2>4, GetIs
<1>2. CASE phase \in {"reading", "sorted"}
  <2>1. /\ keys \in Seq(Records) /\ given \in Seq(Items) /\ key_num = Len(keys)
        /\ Rearranged(keys, Stored(given)) /\ Len(given) = key_num /\ key_num \in Nat
    BY <1>2, ReadFacts
  <2>2. keys \in Seq(Records \cup {Uninit})
    <3>1. Records \subseteq Records \cup {Uninit}
      OBVIOUS
    <3> QED
      BY <2>1, <3>1, SeqSubset
  <2>3. keys[1] # Uninit /\ Keeps /\ Covered
    BY <2>1, ReadKeeps
  <2>4. smallest_key = Head(keys) /\ bigest_key = Last(keys)
    <3>1. phase = "reading" => Bounds
      BY <1>2 DEF SInv, InReading
    <3> QED
      BY <1>2, <3>1 DEF Bounds
  <2> QED
    BY <1>2, <2>1, <2>2, <2>3, <2>4, GetIs
<1> QED
  BY <1>1, <1>2

(***************************************************************************)
(* Puts keep the set pointers of the array first, strictly in order, and   *)
(* leading to the item last put under each key and to no other, however    *)
(* often a key is put again; and _sstdata_sort sorts what was read and     *)
(* loses nothing: in a table of any capacity (sstdata.c:158-174, 208-277). *)
(***************************************************************************)
THEOREM TableSorted == Spec => []KeysSorted
BY TableInvariance, SInvSorted, PTL

(***************************************************************************)
(* The halving search of sstdata_get finds the item last put under a key,  *)
(* after any number of puts of that key, or ends at a pointer a            *)
(* replacement left unset; and in a file that was written, opened and      *)
(* holds its keys in order it finds the item of the key                    *)
(* (sstdata.c:259-295).                                                    *)
(***************************************************************************)
THEOREM TableFinds == Spec => []GetFindsNewest
BY TableInvariance, SInvFinds, PTL

(***************************************************************************)
(* A file written to its end, item by item (sstdata_compactput) or from    *)
(* the array (sstdata_flush), is read back by sstdata_open item for item   *)
(* in the order in which it was written, byte for byte of every key and    *)
(* value, with as many of each as were put (sstdata.c:47-156).             *)
(***************************************************************************)
THEOREM TableReopened == Spec => []ReopenedAsFlushed
BY TableInvariance, SInvReopened, PTL
=============================================================================
