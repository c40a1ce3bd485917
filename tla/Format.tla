-------------------------------- MODULE Format --------------------------------
(***************************************************************************)
(* The heads of encoded objects: what ext/msgpack/packer.h writes, and     *)
(* what read_primitive of ext/msgpack/unpacker.c makes of it.              *)
(*                                                                         *)
(* The widths are those of the code, 1, 2, 4 and 8 bytes; what a byte can  *)
(* hold is a parameter, so that all widths can be enumerated.  The first   *)
(* byte of a head is written [h, w, n]: its family, the width of the       *)
(* number behind it, and, for w = 0, the number it has in itself.          *)
(***************************************************************************)
EXTENDS Integers, Sequences

CONSTANTS
    Base,           \* what a byte can hold (256 in the code)
    FixNegative,    \* fixint goes down to -FixNegative (32)
    FixRaw,         \* raw strings shorter than this have a fixraw head (32)
    FixCount,       \* arrays and maps shorter than this have a fix head (16)
    FixExt          \* the sizes that have a head of their own (1, 2, 4, 8, 16)

ASSUME FormatAssumption ==
    /\ Base \in Nat /\ Base % 2 = 0 /\ Base > 2
    /\ FixNegative \in 1 .. Base \div 2
    /\ FixRaw \in 1 .. Base /\ FixCount \in 1 .. Base
    /\ FixExt \subseteq 1 .. Base - 1

\* w bytes hold the numbers below Limit(w).
Power[w \in 0 .. 8] == IF w = 0 THEN 1 ELSE Base * Power[w - 1]
Limit(w) == Power[w]
SignedLimit(w) == Limit(w) \div 2

Lead(h, w, n) == [h |-> h, w |-> w, n |-> n]

\* n cast to w bytes, the high one first: _msgpack_be16, _be32, _be64.
Bytes(n, w) ==
    [i \in 1 .. w |-> Lead("byte", 0, ((n % Limit(w)) \div Limit(w - i)) % Base)]

Wide(h, n, w) == <<Lead(h, w, 0)>> \o Bytes(n, w)
Fix(h, n) == <<Lead(h, 0, n)>>

UnsignedWidth(n) == IF n < Limit(1) THEN 1 ELSE IF n < Limit(2) THEN 2
                    ELSE IF n < Limit(4) THEN 4 ELSE 8

\* Mutant: int8 is written for what only fits without the sign.
SignedWidthLate(v) == IF v >= -Limit(1) THEN 1 ELSE IF v >= -SignedLimit(2) THEN 2
                      ELSE IF v >= -SignedLimit(4) THEN 4 ELSE 8

SignedWidth(v) == IF v >= -SignedLimit(1) THEN 1 ELSE IF v >= -SignedLimit(2) THEN 2
                  ELSE IF v >= -SignedLimit(4) THEN 4 ELSE 8

\* _msgpack_packer_write_long_long64, and for the positive numbers that a
\* long long cannot hold msgpack_packer_write_u64.
WriteLong(v) ==
    IF v \in -FixNegative .. Base \div 2 - 1 THEN Fix("int", v)
    ELSE IF v < 0 THEN Wide("int", v, SignedWidth(v))
    ELSE Wide("uint", v, UnsignedWidth(v))

\* msgpack_packer_write_double; bits is the number that has the bits of it.
WriteDouble(bits) == Wide("float", bits, 8)

\* msgpack_packer_write_float
WriteFloat(bits) == Wide("float", bits, 4)

\* What rb_big2ull and rb_big2ll refuse with a RangeError.
IsBig(v) == v >= Limit(8) \/ v < -SignedLimit(8)

\* Mutant: no bit is counted for the sign.
IsOversizedUnsigned(v) == v >= Limit(8) \/ v < -SignedLimit(8)

\* required_size > 8 in msgpack_packer_write_bignum_value: a negative number
\* whose high bit is in use counts as one byte more, -SignedLimit(8) too.
IsOversized(v) == v >= Limit(8) \/ v <= -SignedLimit(8)

LengthWidth(n) == IF n < Limit(1) THEN 1 ELSE IF n < Limit(2) THEN 2 ELSE 4

\* msgpack_packer_write_raw_header; there is no raw8 in compatibility mode.
RawHeader(n, compat) ==
    IF n < FixRaw THEN Fix("str", n)
    ELSE IF compat /\ n < Limit(1) THEN Wide("str", n, 2)
    ELSE Wide("str", n, LengthWidth(n))

\* msgpack_packer_write_bin_header
BinHeader(n) == Wide("bin", n, LengthWidth(n))

\* msgpack_packer_write_array_header and _map_header: no heads of width 1.
CountHeader(h, n) ==
    IF n < FixCount THEN Fix(h, n)
    ELSE Wide(h, n, IF n < Limit(2) THEN 2 ELSE 4)

\* The head that msgpack_packer_write_ext writes.
ExtHeader(n, type) ==
    (IF n \in FixExt THEN Fix("ext", n) ELSE Wide("ext", n, LengthWidth(n)))
        \o Bytes(type, 1)
-----------------------------------------------------------------------------
(* Reading: the head at position i of s. *)

UnsignedAt(s, i, w) ==
    LET value[k \in 0 .. w] == IF k = 0 THEN 0 ELSE Base * value[k - 1] + s[i + k - 1].n
    IN  value[w]

SignedAt(s, i, w) ==
    LET u == UnsignedAt(s, i, w)
    IN  IF u < SignedLimit(w) THEN u ELSE u - Limit(w)

BadHead == [kind |-> "bad", n |-> 0, type |-> 0, end |-> 0]

\* read_primitive: the kind of object, its number (value, bytes, elements or
\* pairs), its extension type, and where the head ends.  "bad" is a byte that
\* begins no object, or an end of the data within the head.
HeadAt(s, i) ==
    LET h   == s[i].h
        w   == s[i].w
        end == i + 1 + w + (IF h = "ext" THEN 1 ELSE 0)
    IN  IF \/ h \in {"byte", "body"}
           \/ end > Len(s) + 1
           \/ \E j \in i + 1 .. end - 1 : s[j].h # "byte"
        THEN BadHead
        ELSE [kind |-> IF h = "uint" THEN "int" ELSE h,
              n    |-> IF w = 0 THEN s[i].n
                       ELSE IF h = "int" THEN SignedAt(s, i + 1, w)
                       ELSE UnsignedAt(s, i + 1, w),
              type |-> IF h = "ext" THEN SignedAt(s, end - 1, 1) ELSE 0,
              end  |-> end]
=============================================================================
