------------------------------- MODULE KeyCache -------------------------------
(***************************************************************************)
(* The cache of hash keys of an unpacker (ext/msgpack/buffer.h): an array  *)
(* of at most Capacity interned strings, or symbols, that a binary search  *)
(* goes through.  A key is the sequence of its bytes; of two interned      *)
(* strings with the same bytes there is only one.                          *)
(***************************************************************************)
EXTENDS Integers, Sequences, SequencesExt

CONSTANT Capacity  \* MSGPACK_KEY_CACHE_CAPACITY (63 in the code)

ASSUME CapacityAssumption == Capacity \in Nat

FirstDifference(s, t) == SelectInSeq([i \in DOMAIN s |-> s[i] - t[i]],
                                     LAMBDA d : d # 0)

\* Mutant: the key is compared as far as both go.
ComparePrefix(s, t) ==
    LET n == IF Len(s) < Len(t) THEN Len(s) ELSE Len(t)
        i == FirstDifference(SubSeq(s, 1, n), SubSeq(t, 1, n))
    IN  IF i = 0 THEN 0 ELSE s[i] - t[i]

\* rstring_cache_cmp: the shorter key comes first, then memcmp decides.
Compare(s, t) ==
    IF Len(s) # Len(t) THEN Len(s) - Len(t)
    ELSE LET i == FirstDifference(s, t)
         IN  IF i = 0 THEN 0 ELSE s[i] - t[i]

\* The loop of rstring_cache_fetch and rsymbol_cache_fetch: where s is, or
\* where it is to be inserted.
Search(cache, s) ==
    LET find[range \in (1 .. Len(cache) + 1) \X (0 .. Len(cache))] ==
          LET low == range[1]  high == range[2]
              mid == (low + high) \div 2
              cmp == Compare(s, cache[mid])
          IN  IF cmp = 0 THEN [hit |-> TRUE, at |-> mid]
              ELSE IF cmp > 0
                   THEN IF mid + 1 <= high THEN find[<<mid + 1, high>>]
                        ELSE [hit |-> FALSE, at |-> mid + 1]
                   ELSE IF low <= mid - 1 THEN find[<<low, mid - 1>>]
                        ELSE [hit |-> FALSE, at |-> mid]
    IN  IF cache = <<>> THEN [hit |-> FALSE, at |-> 1]
        ELSE find[<<1, Len(cache)>>]

\* What the fetch returns, and the cache after it.
Fetched(cache, s) ==
    LET place == Search(cache, s) IN IF place.hit THEN cache[place.at] ELSE s

\* Mutant: a new key goes to the place that was looked at last.
CachedAtMid(cache, s) ==
    LET place == Search(cache, s)
        mid   == IF place.at > Len(cache) THEN Len(cache) ELSE place.at
    IN  IF place.hit \/ Len(cache) >= Capacity THEN cache
        ELSE IF cache = <<>> THEN <<s>> ELSE InsertAt(cache, mid, s)

\* Mutant: one key too many is taken.
CachedBeyond(cache, s) ==
    LET place == Search(cache, s)
    IN  IF place.hit \/ Len(cache) > Capacity THEN cache
        ELSE InsertAt(cache, place.at, s)

Cached(cache, s) ==
    LET place == Search(cache, s)
    IN  IF place.hit \/ Len(cache) >= Capacity THEN cache
        ELSE InsertAt(cache, place.at, s)
=============================================================================
