----------------------------- MODULE PackedStream -----------------------------
(***************************************************************************)
(* What Packer promises about the bytes: they are whole objects, for the   *)
(* way ext/msgpack/unpacker.c finds the end of one.                        *)
(***************************************************************************)
EXTENDS Packer

\* Where the n bytes behind a head at position i end; 0 if they do not.
BodyEnd(s, i, n) == IF n = 0 THEN i
                    ELSE IF i \in DOMAIN s /\ s[i].h = "body" /\ s[i].n = n THEN i + 1
                    ELSE 0

\* Where the head at i and the body that belongs to it end; 0 if they do not.
Behind(s, i) ==
    LET h == HeadAt(s, i)
    IN  CASE h.kind = "bad" -> 0
          [] h.kind \in {"str", "bin", "ext"} -> BodyEnd(s, h.end, h.n)
          [] OTHER -> h.end

\* How many objects it says are its elements.
Elements(s, i) ==
    LET h == HeadAt(s, i)
    IN  CASE h.kind = "array" -> h.n
          [] h.kind = "map" -> 2 * h.n
          [] OTHER -> 0

\* Where the n objects from i on end, elements being so many objects more; 0 if
\* they are not all there.
ObjectsEnd(s, i, n) ==
    LET end[x \in (1 .. Len(s) + 1) \X Nat] ==
          IF x[2] = 0 THEN x[1]
          ELSE IF x[1] > Len(s) \/ Behind(s, x[1]) = 0 THEN 0
          ELSE end[<<Behind(s, x[1]), x[2] - 1 + Elements(s, x[1])>>]
    IN  end[<<i, n>>]

\* s is n objects and nothing else.
IsObjects(s, n) == ObjectsEnd(s, 1, n) = Len(s) + 1
-----------------------------------------------------------------------------
\* Between calls, the stream is as many whole objects as were written, if
\* nothing raised and no hash lost pairs: whatever Ruby code did meanwhile to
\* the arrays, and where its buffer was flushed (packer.c:60-64, 118-141).
WholeObjects ==
    frames = <<>> /\ buffer.clean => IsObjects(Stream, Len(wrote))
=============================================================================
