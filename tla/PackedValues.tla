----------------------------- MODULE PackedValues -----------------------------
(***************************************************************************)
(* What Packer promises about the values: read back the way                *)
(* ext/msgpack/unpacker.c and the procs of lib/msgpack/ do, they are the   *)
(* objects that were written.                                              *)
(***************************************************************************)
EXTENDS PackedStream

\* A raw object of kind and size n, all of it the bytes of v.
IsRaw(s, i, kind, n, v) ==
    LET h == HeadAt(s, i)
    IN  /\ h.kind = kind /\ h.n = n
        /\ BodyEnd(s, h.end, n) # 0
        /\ n > 0 => s[h.end].of = v

\* Where the objects vs end if they are what is at position i of s; 0 if not.
RECURSIVE EndOfThese(_, _, _)
EndOfThese(s, i, vs) ==
    IF vs = <<>> THEN i
    ELSE
    LET v == Head(vs)
        d == Data[v]
        rest == Tail(vs)
    IN  IF d.k = "user" THEN EndOfThese(s, i, d.kids \o rest)
        ELSE IF i \notin DOMAIN s THEN 0
        ELSE
        LET h == HeadAt(s, i)
            end == BodyEnd(s, h.end, h.n)
            payload == s[h.end].inner
            \* With a type for big integers the least int64 goes to that type.
            native == -SignedLimit(8) + (IF use.bigints THEN 1 ELSE 0) .. Limit(8) - 1
            On(is, e, then) == IF is THEN EndOfThese(s, e, then) ELSE 0
            kind == CASE d.k = "bin" -> IF use.compat THEN "str" ELSE "bin"
                      [] d.k = "int" -> IF d.n \in native THEN "int" ELSE "ext"
                      [] d.k = "sym" -> IF use.symbols THEN "ext" ELSE "str"
                      [] d.k \in {"plain", "rec", "time"} -> "ext"
                      [] d.k \in {"hash", "pairs"} -> "map"
                      [] d.k = "rows" -> "array"
                      [] d.k = "binhead" -> "bin"
                      [] d.k = "float32" -> "float"
                      [] OTHER -> d.k
        IN  CASE kind = "nil" -> On(h.kind = "nil", h.end, rest)
              [] kind \in {"int", "float"} -> On(h.kind = kind /\ h.n = d.n, h.end, rest)
              [] kind \in {"str", "bin"} -> On(IsRaw(s, i, kind, d.n, v), end, rest)
              [] kind = "array" -> On(h.kind = kind /\ h.n = Len(d.kids), h.end, d.kids \o rest)
              [] kind = "map" -> On(h.kind = kind /\ 2 * h.n = Len(d.kids), h.end, d.kids \o rest)
              [] kind = "ext" /\ d.k = "int" ->
                   On(/\ IsRaw(s, i, "ext", Len(payload), v) /\ h.type = d.type
                      /\ BigintFrom(payload) = d.n, end, rest)
              [] d.k = "time" ->
                   On(/\ IsRaw(s, i, "ext", Len(payload), v) /\ h.type = d.type
                      /\ TimestampFrom(payload) = [sec |-> d.n, nsec |-> d.nsec],
                      end, rest)
              [] kind = "ext" /\ d.k # "rec" ->
                   On(IsRaw(s, i, "ext", d.size, v) /\ h.type = d.type, end, rest)
              [] d.k = "rec" ->
                   LET inner == IF h.n > 0 /\ end # 0 THEN s[h.end].inner ELSE <<>>
                   IN  On(/\ IsRaw(s, i, "ext", Size(inner), v)
                          /\ h.type = d.type
                          /\ EndOfThese(inner, 1, d.kids) = Len(inner) + 1, end, rest)
-----------------------------------------------------------------------------
\* What comes out again is what was written, value for value: the width of
\* every number and length holds it, the sign survives, and the payload of a
\* recursive type is what its proc wrote, that of a time or a big integer is
\* that time or integer (packer.h:115-513, packer.c:104-147, timestamp.rb,
\* bigint.rb).
Decodes ==
    frames = <<>> /\ exact => EndOfThese(Stream, 1, wrote) = Len(Stream) + 1
=============================================================================
