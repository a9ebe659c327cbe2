------------------------------- MODULE Murmur -------------------------------
(***************************************************************************)
(* PMurHash.c: MurmurHash3 fed in pieces.  A caller calls                  *)
(* PMurHash32_Process with one piece of its data after another and at the  *)
(* end PMurHash32_Result; bytes that do not fill a block of four wait in   *)
(* the carry between two calls.                                            *)
(*                                                                         *)
(* The code never looks at the value of a byte, so the k-th byte of the    *)
(* data is represented by the number k: what holds for these data holds    *)
(* for all.  The arithmetic on a block (multiply, rotate, add) is          *)
(* abstracted to the sequence of the blocks it was done on.  A word is a   *)
(* sequence of four bytes, the lowest first.                               *)
(***************************************************************************)
EXTENDS Integers, Sequences

CONSTANTS MaxFed,     \* bound: the bytes of one hash
          NoByte      \* what stands in a part of the carry that holds no byte of the data

ASSUME MaxFedAssumption == MaxFed \in Nat
ASSUME NoByteAssumption == NoByte \notin Nat

VARIABLES unaligned,  \* the build may read words anywhere
          h1,         \* the running hash: the blocks mixed in
          c, n,       \* the carry word and the number of bytes in it
          ptr,        \* bytes of the data already taken
          addr,       \* the address behind ptr, modulo 4
          len,        \* bytes of this piece still to take
          todo,       \* iterations left of DOBYTES or of the loop over blocks
          pc          \* "idle" between two calls, "lead", "blocks" or "tail" inside

hashVars == <<unaligned, h1, c, n, ptr, addr, len, todo, pc>>

(***************************************************************************)
(* The platforms the macros tell apart, and the ones where a word may be   *)
(* read at any address (or is read byte by byte).                          *)
(***************************************************************************)
Platforms == {"i386", "little endian", "big endian with bswap", "big endian", "unknown"}
UNALIGNED_SAFE(p) == p \in {"i386", "big endian", "unknown"}

(* The next four bytes of the data as one word, in the order of the data on every platform. *)
READ_UINT32 == [k \in 1..4 |-> ptr + k]

(* Appends word k1 to the blocks of the running hash. *)
DOBLOCK(h, k1) == Append(h, k1)

Empty == [k \in 1..4 |-> NoByte]

(* A hash is started with the seed and an empty carry. *)
HashInit ==
  /\ unaligned \in {UNALIGNED_SAFE(p) : p \in Platforms}
  /\ h1 = <<>> /\ c = Empty /\ n = 0
  /\ ptr = 0 /\ addr = 0 /\ len = 0 /\ todo = 0
  /\ pc = "idle"

(* Mutant of Process: the distance from the last aligned address is taken. *)
ProcessWrongSign(l, a) ==
  LET i == IF unaligned THEN (4 - n) % 4 ELSE a
  IN /\ pc = "idle" /\ ptr + l <= MaxFed
     /\ len' = l /\ addr' = a
     /\ todo' = IF i <= l THEN i ELSE 0
     /\ pc' = "lead"
     /\ UNCHANGED <<unaligned, h1, c, n, ptr>>

(***************************************************************************)
(* PMurHash32_Process(&h1, &carry, key, l) with key at an address that is  *)
(* a modulo 4.  The first bytes are taken one by one: until the carry is   *)
(* full, or, where words have to be aligned, until the address is.         *)
(***************************************************************************)
Process(l, a) ==
  LET i == IF unaligned THEN (4 - n) % 4 ELSE (4 - a) % 4
  IN /\ pc = "idle" /\ ptr + l <= MaxFed
     /\ len' = l /\ addr' = a
     /\ todo' = IF i <= l THEN i ELSE 0
     /\ pc' = "lead"
     /\ UNCHANGED <<unaligned, h1, c, n, ptr>>

(* One iteration of DOBYTES. *)
TakeByte ==
  LET word == <<c[2], c[3], c[4], ptr + 1>>
  IN /\ ptr' = ptr + 1 /\ addr' = (addr + 1) % 4
     /\ len' = len - 1 /\ todo' = todo - 1
     /\ IF n = 3 THEN h1' = DOBLOCK(h1, word) /\ c' = Empty /\ n' = 0
                 ELSE h1' = h1 /\ c' = word /\ n' = n + 1

LeadByte == pc = "lead" /\ todo > 0 /\ TakeByte /\ UNCHANGED <<unaligned, pc>>

LeadEnd ==
  /\ pc = "lead" /\ todo = 0
  /\ todo' = len \div 4 /\ pc' = "blocks"
  /\ UNCHANGED <<unaligned, h1, c, n, ptr, addr, len>>

(* Mutant of NextBlock: a carry that holds bytes is passed over. *)
NextBlockNoCarry ==
  /\ pc = "blocks" /\ todo > 0
  /\ h1' = DOBLOCK(h1, READ_UINT32)
  /\ ptr' = ptr + 4 /\ len' = len - 4 /\ todo' = todo - 1
  /\ UNCHANGED <<unaligned, c, n, addr, pc>>

(***************************************************************************)
(* One block of four bytes.  Where words may be read anywhere they are     *)
(* mixed in as they are, whatever the carry holds; elsewhere the carry's n *)
(* bytes come first and the last n bytes of the word become the carry.     *)
(***************************************************************************)
NextBlock ==
  LET w == READ_UINT32
      k == IF unaligned THEN 0 ELSE n
  IN /\ pc = "blocks" /\ todo > 0
     /\ h1' = DOBLOCK(h1, [j \in 1..4 |-> IF j <= k THEN c[4 - k + j] ELSE w[j - k]])
     /\ c' = IF k = 0 THEN c ELSE w
     /\ ptr' = ptr + 4 /\ len' = len - 4 /\ todo' = todo - 1
     /\ UNCHANGED <<unaligned, n, addr, pc>>

BlocksEnd ==
  /\ pc = "blocks" /\ todo = 0
  /\ todo' = len /\ pc' = "tail"
  /\ UNCHANGED <<unaligned, h1, c, n, ptr, addr, len>>

TailByte == pc = "tail" /\ todo > 0 /\ TakeByte /\ UNCHANGED <<unaligned, pc>>

(* The lowest byte of the carry gives way to the count. *)
ProcessReturn ==
  /\ pc = "tail" /\ todo = 0
  /\ c' = [c EXCEPT ![1] = NoByte]
  /\ addr' = 0 /\ pc' = "idle"
  /\ UNCHANGED <<unaligned, h1, n, ptr, len, todo>>

(* What PMurHash32_Result computes the hash from: the blocks, the n highest *)
(* bytes of the carry and the length.                                       *)
PMurHash32_Result(total_length) ==
  [blocks |-> h1, tail |-> [j \in 1..n |-> c[4 - n + j]], length |-> total_length]

(* The hash of the first l bytes in one call: blocks of four, then the rest. *)
AtOnce(l) ==
  [blocks |-> [k \in 1..(l \div 4) |-> [j \in 1..4 |-> 4 * (k - 1) + j]],
   tail |-> [j \in 1..(l % 4) |-> 4 * (l \div 4) + j],
   length |-> l]

HashStep ==
  \/ \E l \in 0..MaxFed, a \in 0..3 : Process(l, a)
  \/ LeadByte \/ LeadEnd \/ NextBlock \/ BlocksEnd \/ TailByte \/ ProcessReturn

HashSpec == HashInit /\ [][HashStep]_hashVars

-----------------------------------------------------------------------------
HashTypeOK ==
  /\ unaligned \in BOOLEAN
  /\ h1 \in Seq([1..4 -> Nat \cup {NoByte}])
  /\ c \in [1..4 -> Nat \cup {NoByte}] /\ n \in 0..3
  /\ ptr \in Nat /\ addr \in 0..3 /\ len \in Nat /\ todo \in Nat
  /\ pc \in {"idle", "lead", "blocks", "tail"}

(***************************************************************************)
(* "Progressive data feeding" (PMurHash.c:20-23): whatever the pieces, the *)
(* addresses they lie at and the platform, between two calls the hash of   *)
(* what was fed is the hash of the same bytes fed at once.                 *)
(***************************************************************************)
SameAsAtOnce == pc = "idle" => PMurHash32_Result(ptr) = AtOnce(ptr)

(***************************************************************************)
(* "Both CPU endian and access-alignment neutral" (PMurHash.c:26): where a *)
(* word must be aligned, the loop over blocks reads at aligned addresses   *)
(* only (PMurHash.c:209-216).                                              *)
(***************************************************************************)
ReadsAligned == pc = "blocks" /\ todo > 0 /\ ~unaligned => addr = 0
=============================================================================
