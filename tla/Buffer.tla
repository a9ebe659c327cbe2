------------------------------- MODULE Buffer -------------------------------
(***************************************************************************)
(* buffer.c: a growing byte buffer (struct buffer) and the encoding of     *)
(* integers, items and bloom filters in it.  buf holds the bytes written   *)
(* so far; SEEK is the number of bytes read.                               *)
(*                                                                         *)
(* The writers of files call fwrite(buffer_detach(b), ..., b->NUL, file),  *)
(* and buffer_detach sets NUL to 0: the order of the arguments decides     *)
(* whether anything is written.  The compilers of the project files        *)
(* evaluate the last argument first, so the old NUL counts (Written).      *)
(***************************************************************************)
EXTENDS Data

CONSTANTS EXTEND      \* bytes buffer_putdata and buffer_putfilter add at a time, 1024

ASSUME ExtendAssumption == EXTEND \in Nat

buffer_t == [buf : Seq(Byte), SEEK : Nat, NUL : Nat, buflen : Nat]

(* The smallest power of two that is at least x, for 0 < x <= 2^30. *)
next_power(x) == 2 ^ (CHOOSE k \in 0..30 : 2 ^ k >= x /\ \A j \in 0..k-1 : 2 ^ j < x)

buffer_extendby(b, l) ==
  IF b.NUL + l <= b.buflen THEN b ELSE [b EXCEPT !.buflen = next_power(b.NUL + l)]

buffer_new(reserve) ==
  LET b == [buf |-> <<>>, SEEK |-> 0, NUL |-> 0, buflen |-> 0]
  IN IF reserve = 0 THEN b ELSE buffer_extendby(b, reserve + 1)

buffer_clear(b) == [b EXCEPT !.NUL = 0, !.buf = <<>>]
buffer_seekfirst(b) == [b EXCEPT !.SEEK = 0]

(* The bytes of an fwrite from b, and b after it. *)
Written(b) == b.buf
buffer_detach(b) == [b EXCEPT !.NUL = 0, !.buf = <<>>]

(* fread into the memory of b, which the reading functions then see. *)
Filled(b, bytes) == [b EXCEPT !.buf = bytes]

Appended(b, bytes) == [b EXCEPT !.buf = @ \o bytes, !.NUL = @ + Len(bytes)]
buffer_putnstr(b, str) == Appended(buffer_extendby(b, Len(str) + 1), str)
buffer_putc(b, char) == Appended(buffer_extendby(b, 2), <<char>>)
(* The greatest int: a number that is written is not above it. *)
INT_MAX == 2147483647
IntBytes(val) == [i \in 1..4 |-> (val \div 256 ^ (i - 1)) % 256]
buffer_putint(b, val) == Appended(buffer_extendby(b, 4), IntBytes(val))
buffer_putlong(b, val) == Appended(buffer_extendby(b, 8), val)

TypeByte(type) == IF type = "s" THEN 115 ELSE 100

buffer_putdata(b, d) ==
  LET l == Len(d.key) + Len(d.value)
      b0 == IF b.NUL + l + 21 >= b.buflen THEN buffer_extendby(b, EXTEND) ELSE b
      b1 == buffer_putint(buffer_putint(buffer_putint(b0, l), Len(d.key)), Len(d.value))
      b2 == buffer_putlong(buffer_putc(b1, TypeByte(d.type)), d.version)
  IN buffer_putnstr(buffer_putnstr(b2, d.key), d.value)

-----------------------------------------------------------------------------
(* Reading.  Each get... returns the value; Skip moves SEEK behind it.     *)
Skip(b, k) == [b EXCEPT !.SEEK = @ + k]
buffer_getnstr(b, k) == SubSeq(b.buf, b.SEEK + 1, b.SEEK + k)
buffer_getchar(b) == b.buf[b.SEEK + 1]

(* A char is signed: or-ing it in sets every higher bit when it is above   *)
(* 127.  buffer_getint masks these bits away before the next byte.         *)
Signed(byte) == IF byte > 127 THEN byte - 256 ELSE byte
buffer_getint(b) ==
  LET v == buffer_getnstr(b, 4)
  IN v[1] + v[2] * 256 + v[3] * 65536 + Signed(v[4]) * 16777216

(* buffer_getlong does not. *)
GetLong(v) == [i \in 1..8 |-> IF \E j \in 1..i-1 : v[j] > 127 THEN 255 ELSE v[i]]
buffer_getlong(b) == GetLong(buffer_getnstr(b, 8))

(* The item at SEEK, and the bytes it takes. *)
buffer_getdata(b) ==
  LET klen == buffer_getint(Skip(b, 4))
      vlen == buffer_getint(Skip(b, 8))
      key == buffer_getnstr(Skip(b, 21), klen)
  IN [key |-> key, value |-> buffer_getnstr(Skip(b, 21 + klen), vlen),
      type |-> IF buffer_getchar(Skip(b, 12)) = 115 THEN "s" ELSE "d",
      version |-> buffer_getlong(Skip(b, 13)), hash_value |-> Hash[key]]
DataBytes(d) == 21 + Len(d.key) + Len(d.value)

(* The version survives a round trip through the buffer. *)
Plain(version) == GetLong(version) = version
=============================================================================
