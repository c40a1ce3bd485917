------------------------------- MODULE Payloads -------------------------------
(***************************************************************************)
(* The payloads of the extension types that the library itself brings:     *)
(* Timestamp (lib/msgpack/timestamp.rb, time.rb) and Bigint (bigint.rb),   *)
(* what they write and what they make of it again.  As in Format only what *)
(* a byte can hold is a parameter: a word has four bytes, and the two bits *)
(* that timestamp64 lends from the nanoseconds stay two bits.              *)
(***************************************************************************)
EXTENDS Format, SequencesExt

Word == Limit(4)    \* CHUNK_BITLENGTH is 32

WordAt(s, i) == UnsignedAt(s, i, 4)

Abs(n) == IF n < 0 THEN -n ELSE n

\* Bigint.to_msgpack_ext: the sign, and the words of the number, low one first.
BigintPayload(v) ==
    LET words[n \in Nat] ==
          IF n = 0 THEN <<>> ELSE Bytes(n % Word, 4) \o words[n \div Word]
    IN  Bytes(IF v < 0 THEN 1 ELSE 0, 1) \o words[Abs(v)]

\* Bigint.from_msgpack_ext: the last word, and then the others backwards.
BigintFrom(s) ==
    LET value[i \in Nat] ==
          IF i > Len(s) THEN 0 ELSE value[i + 4] * Word + WordAt(s, i)
    IN  IF s[1].n = 0 THEN value[2] ELSE -value[2]

\* Mutant: the seconds may take one bit more than there is.
TimestampTooLong(sec, nsec) ==
    IF sec >= 0 /\ nsec >= 0 /\ sec < 8 * Word
    THEN IF nsec = 0 /\ sec < Word THEN Bytes(sec, 4)
         ELSE Bytes(4 * nsec + sec \div Word, 4) \o Bytes(sec, 4)
    ELSE Bytes(nsec, 4) \o Bytes(sec, 8)

\* Timestamp.to_msgpack_ext: timestamp32, timestamp64 or timestamp96.
TimestampPayload(sec, nsec) ==
    IF sec >= 0 /\ nsec >= 0 /\ sec < 4 * Word
    THEN IF nsec = 0 /\ sec < Word THEN Bytes(sec, 4)
         ELSE Bytes(4 * nsec + sec \div Word, 4) \o Bytes(sec, 4)
    ELSE Bytes(nsec, 4) \o Bytes(sec, 8)

\* Timestamp.from_msgpack_ext
TimestampFrom(s) ==
    CASE Len(s) = 4  -> [sec |-> WordAt(s, 1), nsec |-> 0]
      [] Len(s) = 8  -> [sec |-> (WordAt(s, 1) % 4) * Word + WordAt(s, 5),
                         nsec |-> WordAt(s, 1) \div 4]
      [] Len(s) = 12 -> [sec |-> SignedAt(s, 5, 8), nsec |-> WordAt(s, 1)]
=============================================================================
