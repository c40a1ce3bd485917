----------------------------- MODULE BufferProofs -----------------------------
(***************************************************************************)
(* Proofs about Buffer and BufferReads, for any pool of pages, any page    *)
(* size and any lengths: the inductive invariant of a buffer, that its     *)
(* list of chunks is sound, and that it is a queue of bytes.               *)
(***************************************************************************)
EXTENDS BufferReads, BufferLemmas

\* The list holds the bytes that were accepted and have not left.
ListInv ==
    /\ List(chunks, memory, room, rmem_at, rmem_last, live \ foreign, taken - read, written)
    /\ live \subseteq Page /\ foreign \subseteq live
    /\ read \in Nat /\ taken \in Nat /\ written \in Nat /\ read <= taken
    /\ chunks = <<>> => read = 0
    /\ chunks # <<>> => read < Size(chunks[1])

LEMMA StoredIs ==
  ASSUME memory \in Memories, NEW c, Formed(c)
  PROVE  /\ Stored(c) \in Seq(Bytes) /\ Len(Stored(c)) = Size(c)
         /\ \A k \in 1 .. Size(c) : Stored(c)[k] = ByteIn(c, memory, k)
<1>0. c \in Chunk /\ Size(c) \in Nat /\ PageSize \in Nat
  BY SizeIsNat, BufferAssumption DEF Formed
<1>1. CASE c.kind # "page"
  BY <1>0, <1>1, ChunkFields DEF Stored, Size, ByteIn
<1>2. CASE c.kind = "page"
  <2>1. /\ c.at \in Page /\ c.first \in Nat /\ c.last \in Nat /\ c.last <= PageSize
        /\ Size(c) = c.last - c.first /\ c.first <= c.last
    BY <1>0, <1>2, ChunkFields DEF Formed, Size
  <2> DEFINE g == memory[c.at]
  <2>2. g \in [1 .. PageSize -> Bytes]
    BY <2>1 DEF Memories
  <2> HIDE DEF g
  <2>3. \A i \in c.first + 1 .. c.last : g[i] \in Bytes
    BY <1>0, <2>1, <2>2
  <2>4. c.first + 1 \in Int /\ c.last \in Int
    BY <2>1
  <2>5. /\ SubSeq(g, c.first + 1, c.last) \in Seq(Bytes)
        /\ Len(SubSeq(g, c.first + 1, c.last)) =
             IF c.first + 1 <= c.last THEN c.last - (c.first + 1) + 1 ELSE 0
        /\ \A i \in 1 .. c.last - (c.first + 1) + 1 :
             SubSeq(g, c.first + 1, c.last)[i] = g[c.first + 1 + i - 1]
    BY <2>3, <2>4, SubSeqProperties
  <2>6. Stored(c) = SubSeq(g, c.first + 1, c.last)
    BY <1>2 DEF Stored, g
  <2>7. Len(Stored(c)) = Size(c)
    BY <2>1, <2>5, <2>6
  <2>8. ASSUME NEW k \in 1 .. Size(c) PROVE Stored(c)[k] = ByteIn(c, memory, k)
    <3>1. k \in 1 .. c.last - (c.first + 1) + 1 /\ c.first + 1 + k - 1 = c.first + k
      BY <2>1
    <3>2. ByteIn(c, memory, k) = g[c.first + k]
      BY <1>2 DEF ByteIn, g
    <3> QED
      BY <2>5, <2>6, <3>1, <3>2
  <2> QED
    BY <2>5, <2>6, <2>7, <2>8
<1> QED
  BY <1>1, <1>2

\* Where the unread bytes of each chunk begin.
Starts(pos) == [pos EXCEPT ![1] = taken]

LEMMA UnreadIs ==
  ASSUME ListInv, NEW pos \in [1 .. Len(chunks) + 1 -> Nat], Laid(chunks, memory, pos),
         pos[1] = taken - read, NEW i \in 1 .. Len(chunks)
  PROVE  /\ Unread(i) \in Seq(Bytes)
         /\ UnreadSize(i) \in Nat /\ UnreadSize(i) > 0
         /\ Len(Unread(i)) = UnreadSize(i)
         /\ Starts(pos)[i + 1] = Starts(pos)[i] + UnreadSize(i)
         /\ \A j \in 1 .. UnreadSize(i) : Unread(i)[j] = Starts(pos)[i] + j
<1> DEFINE c == chunks[i]
           st == Stored(chunks[i])
<1>0. /\ Shape(chunks, room, rmem_at, rmem_last) /\ memory \in Memories
      /\ Len(chunks) \in Nat /\ Formed(c) /\ Size(c) \in Nat /\ Size(c) > 0
      /\ read \in Nat /\ taken \in Nat /\ read <= taken
      /\ i = 1 => read < Size(c)
  BY ShapeFacts, EmptySeq DEF ListInv, List, Shape
<1>1. /\ st \in Seq(Bytes) /\ Len(st) = Size(c)
      /\ \A k \in 1 .. Size(c) : st[k] = ByteIn(c, memory, k)
  BY <1>0, StoredIs
<1>2. /\ pos[i + 1] = pos[i] + Size(c)
      /\ \A k \in 1 .. Size(c) : ByteIn(c, memory, k) = pos[i] + k
  BY DEF Laid
<1>3. /\ Starts(pos)[1] = taken
      /\ \A k \in 1 .. Len(chunks) + 1 : k # 1 => Starts(pos)[k] = pos[k]
  BY <1>0 DEF Starts
<1>4. i + 1 \in 1 .. Len(chunks) + 1 /\ i + 1 # 1 /\ i \in 1 .. Len(chunks) + 1
  BY <1>0
<1>5. CASE i = 1
  <2>1. /\ Unread(i) = SubSeq(st, read + 1, Size(c)) /\ UnreadSize(i) = Size(c) - read
    BY <1>5 DEF Unread, UnreadSize
  <2> HIDE DEF c, st
  <2>2. /\ SubSeq(st, read + 1, Size(c)) \in Seq(Bytes)
        /\ Len(SubSeq(st, read + 1, Size(c))) = Size(c) - read
        /\ \A j \in 1 .. Size(c) - read :
             SubSeq(st, read + 1, Size(c))[j] = st[read + j]
    BY <1>0, <1>1, <1>5
  <2>3. pos[1] + read = taken
    BY <1>0
  <2>4. ASSUME NEW j \in 1 .. Size(c) - read
        PROVE  SubSeq(st, read + 1, Size(c))[j] = taken + j
    <3>1. read + j \in 1 .. Size(c) /\ pos[1] + (read + j) = taken + j
      BY <1>0, <2>3
    <3> QED
      BY <1>1, <1>2, <1>5, <2>2, <3>1
  <2>5. Starts(pos)[i] = taken /\ Starts(pos)[i + 1] = pos[i + 1]
    BY <1>3, <1>4, <1>5
  <2>6. Size(c) - read \in Nat /\ Size(c) - read > 0
    BY <1>0, <1>5
  <2>7. pos[i + 1] = taken + (Size(c) - read)
    BY <1>0, <1>2, <1>5, <2>3
  <2> QED
    BY <2>1, <2>2, <2>4, <2>5, <2>6, <2>7
<1>6. CASE i # 1
  <2>1. /\ Unread(i) = st /\ UnreadSize(i) = Size(c)
    BY <1>0, <1>6 DEF Unread, UnreadSize
  <2>2. Starts(pos)[i] = pos[i] /\ Starts(pos)[i + 1] = pos[i + 1]
    BY <1>3, <1>4, <1>6
  <2> HIDE DEF c, st
  <2> QED
    BY <1>0, <1>1, <1>2, <2>1, <2>2
<1> QED
  BY <1>5, <1>6

\* What the list of chunks comes to for its readers.
LEMMA Contents ==
  ASSUME ListInv, NEW pos \in [1 .. Len(chunks) + 1 -> Nat], Laid(chunks, memory, pos),
         pos[1] = taken - read, pos[Len(chunks) + 1] = written
  PROVE  /\ \A k \in 0 .. Len(chunks) : SizeOf(k) = Starts(pos)[k + 1] - taken
         /\ Starts(pos) \in [1 .. Len(chunks) + 1 -> Nat]
         /\ Starts(pos)[1] = taken
         /\ \A k \in 1 .. Len(chunks) : Starts(pos)[k + 1] = pos[k + 1]
         /\ Starts(pos)[Len(chunks) + 1] = written
         /\ FlattenSeq([i \in DOMAIN chunks |-> Unread(i)]) = Count(taken, written)
         /\ Readable = written - taken /\ taken <= written
<1> DEFINE n == Len(chunks)
           s == Starts(pos)
           d == [i \in DOMAIN chunks |-> UnreadSize(i)]
           seqs == [i \in DOMAIN chunks |-> Unread(i)]
<1>0. /\ n \in Nat /\ DOMAIN chunks = 1 .. n /\ taken \in Nat /\ read \in Nat
      /\ written \in Nat /\ (chunks = <<>> => read = 0)
      /\ Shape(chunks, room, rmem_at, rmem_last)
  BY ShapeFacts DEF ListInv, List
<1>1. ASSUME NEW i \in 1 .. n
      PROVE  /\ Unread(i) \in Seq(Bytes)
             /\ UnreadSize(i) \in Nat /\ UnreadSize(i) > 0
             /\ Len(Unread(i)) = UnreadSize(i)
             /\ s[i + 1] = s[i] + UnreadSize(i)
             /\ \A j \in 1 .. UnreadSize(i) : Unread(i)[j] = s[i] + j
  BY UnreadIs
<1>2. /\ s \in [1 .. n + 1 -> Nat] /\ s[1] = taken
      /\ \A k \in 1 .. n : s[k + 1] = pos[k + 1]
  BY <1>0 DEF Starts
<1>3. s[n + 1] = written
  <2>1. CASE n = 0
    BY <1>0, <1>2, <2>1, EmptySeq DEF ListInv, List, Shape
  <2>2. CASE n # 0
    BY <1>0, <1>2, <2>2
  <2> QED
    BY <2>1, <2>2
<1> HIDE DEF s
<1>4. ASSUME NEW k \in 0 .. n
      PROVE  SizeOf(k) = s[k + 1] - taken
  <2>1. d \in [1 .. n -> Int] /\ \A i \in 1 .. n : d[i] = UnreadSize(i)
    BY <1>0, <1>1
  <2>2. s \in [1 .. n + 1 -> Int] /\ \A i \in 1 .. n : s[i + 1] = s[i] + d[i]
    BY <1>1, <1>2, <2>1
  <2> HIDE DEF d
  <2>3. SumUpTo(d, k) = s[k + 1] - s[1]
    BY <1>0, <2>1, <2>2, SumIs
  <2> QED
    BY <1>2, <2>3 DEF SizeOf, d
<1>5. FlattenSeq(seqs) = Count(taken, written)
  <2>1. seqs \in [1 .. n -> Seq(Nat)]
    <3>1. \A i \in 1 .. n : Unread(i) \in Seq(Nat)
      <4>1. Bytes \subseteq Nat
        BY BufferAssumption DEF Bytes
      <4> QED
        BY <1>1, <4>1, SeqMonotonic
    <3> QED
      BY <1>0, <3>1
  <2>2. \A i \in 1 .. n : Len(seqs[i]) = s[i + 1] - s[i]
                        /\ \A j \in 1 .. Len(seqs[i]) : seqs[i][j] = s[i] + j
    <3> SUFFICES ASSUME NEW i \in 1 .. n
                 PROVE  Len(seqs[i]) = s[i + 1] - s[i]
                        /\ \A j \in 1 .. Len(seqs[i]) : seqs[i][j] = s[i] + j
      OBVIOUS
    <3>1. i \in 1 .. n + 1 /\ i + 1 \in 1 .. n + 1
      BY <1>0
    <3>2. s[i] \in Nat /\ s[i + 1] \in Nat
      BY <1>2, <3>1
    <3>3. seqs[i] = Unread(i)
      BY <1>0
    <3> HIDE DEF seqs
    <3> QED
      BY <1>1, <3>2, <3>3
  <2> HIDE DEF seqs
  <2>3. FlattenSeq(seqs) = Count(s[1], s[n + 1])
    BY <1>0, <1>2, <2>1, <2>2, FlattenIs
  <2> QED
    BY <1>2, <1>3, <2>3
<1>6. Readable = written - taken
  BY <1>0, <1>3, <1>4 DEF Readable
<1>7. taken <= written
  <2>1. ASSUME NEW i \in 1 .. n PROVE s[i] <= s[i + 1]
    <3>1. i \in 1 .. n + 1
      BY <1>0
    <3>2. s[i] \in Nat
      BY <1>2, <3>1
    <3> QED
      BY <1>1, <3>2
  <2>2. s \in [1 .. n + 1 -> Int]
    BY <1>2
  <2>3. s[1] <= s[n + 1]
    <3>1. n + 1 \in 1 .. n + 1
      BY <1>0
    <3>2. \A i \in 1 .. n + 1 : s[1] <= s[i]
      BY <1>0, <2>1, <2>2, Rising
    <3> QED
      BY <3>1, <3>2
  <2> QED
    BY <1>2, <1>3, <2>3
<1> QED
  BY <1>2, <1>3, <1>4, <1>5, <1>6, <1>7 DEF s
-----------------------------------------------------------------------------
(* The inductive invariant. *)

\* Uses without references to strings; without copies; without any way for
\* bytes to leave but clear.
NoRefs      == HasIo \/ "long" \notin Ops
NoCopies    == ~ HasIo /\ "append" \notin Ops /\ "ensure" \notin Ops
OnlyCleared == ~ HasIo /\ "read" \notin Ops /\ "write_to" \notin Ops

\* The uses in which a list of chunks is sound.  What is left out are buffers
\* without an IO that are passed both references and copies and are then read
\* or written to an IO chunk by chunk.
SoundUse == NoRefs \/ NoCopies \/ OnlyCleared

KindsInv ==
    /\ NoRefs => Simple(chunks)
    /\ NoCopies => AllRefs(chunks, rmem_at)
    /\ OnlyCleared => RestHeld(chunks, rmem_at)

CallInv ==
    /\ pc \in {"idle", "write", "resume", "write_long"}
    /\ pc = "idle" => resume = NoResume /\ text = <<>>
    /\ pc # "idle" => HasIo \/ "write_to" \in Ops
    /\ pc = "write" =>
         chunks # <<>> /\ text = Count(taken, taken + (Size(chunks[1]) - read))
    /\ pc = "resume" => chunks = <<>> /\ text = <<>> /\ resume # NoResume
    /\ pc = "write_long" => /\ HasIo /\ chunks = <<>> /\ resume = NoResume
                            /\ Follows(text, written) /\ written + Len(text) <= MaxBytes
    /\ resume # NoResume => /\ HasIo /\ resume.op \in {"grow", "long"}
                            /\ resume.n \in Nat \ {0} /\ written + resume.n <= MaxBytes
    /\ resume \in [op : {"none", "grow", "long"}, n : Nat]

CountsInv ==
    /\ flushed \in Nat /\ taken <= flushed /\ flushed <= written /\ written <= MaxBytes

BufInv ==
    /\ use \in Uses /\ SoundUse
    /\ ListInv /\ KindsInv /\ CallInv /\ CountsInv

LEMMA CountIs ==
  ASSUME NEW a \in Nat, NEW c \in Nat, a <= c
  PROVE  /\ Count(a, c) \in Seq(Nat) /\ Len(Count(a, c)) = c - a
         /\ \A j \in 1 .. c - a : Count(a, c)[j] = a + j
         /\ c <= MaxBytes => Count(a, c) \in Seq(Bytes)
<1>1. /\ Count(a, c) \in Seq(Nat) /\ Len(Count(a, c)) = c - a
      /\ \A j \in 1 .. c - a : Count(a, c)[j] = a + j
  BY DEF Count
<1>2. ASSUME c <= MaxBytes PROVE Count(a, c) \in Seq(Bytes)
  <2>1. \A j \in 1 .. c - a : a + j \in Bytes
    BY <1>2, BufferAssumption DEF Bytes
  <2>2. c - a \in Nat
    OBVIOUS
  <2> QED
    BY <2>1, <2>2 DEF Count
<1> QED
  BY <1>1, <1>2

\* A sequence of the numbers after a is Count.
LEMMA CountUnique ==
  ASSUME NEW a \in Nat, NEW t \in Seq(Nat), \A j \in 1 .. Len(t) : t[j] = a + j
  PROVE  t = Count(a, a + Len(t))
<1>1. Len(t) \in Nat
  OBVIOUS
<1> DEFINE c == a + Len(t)
           u == Count(a, c)
<1>2. c \in Nat /\ a <= c /\ c - a = Len(t)
  BY <1>1
<1> HIDE DEF c
<1>3. u \in Seq(Nat) /\ Len(u) = Len(t) /\ \A j \in 1 .. Len(t) : u[j] = a + j
  BY <1>2, CountIs
<1> HIDE DEF u
<1>4. t = u
  BY <1>3, SeqEqual
<1> QED
  BY <1>4 DEF u, c

LEMMA MaxOfTwo ==
  ASSUME NEW a \in Nat, NEW b \in Nat
  PROVE  Max({a, b}) = IF a >= b THEN a ELSE b
BY DEF Max

LEMMA MaxOfCount ==
  ASSUME NEW f \in Nat, NEW a \in Nat, NEW c \in Nat, a < c
  PROVE  Max({f} \cup Range(Count(a, c))) = IF f >= c THEN f ELSE c
<1> DEFINE S == {f} \cup Range(Count(a, c))
           x == IF f >= c THEN f ELSE c
<1>1. Range(Count(a, c)) = {a + j : j \in 1 .. c - a}
  BY DEF Range, Count
<1>2. \A y \in S : y \in Nat /\ x >= y
  BY <1>1
<1>3. x \in S
  <2>1. c - a \in 1 .. c - a /\ a + (c - a) = c
    OBVIOUS
  <2> QED
    BY <1>1, <2>1
<1>4. x \in Nat
  OBVIOUS
<1> HIDE DEF S, x
<1>5. Max(S) = x
  <2>1. \E z \in S : \A y \in S : z >= y
    BY <1>2, <1>3
  <2>2. Max(S) \in S /\ \A y \in S : Max(S) >= y
    BY <2>1, Zenon DEF Max
  <2>3. Max(S) \in Nat /\ x >= Max(S) /\ Max(S) >= x
    BY <1>2, <1>3, <2>2, Zenon
  <2> QED
    BY <1>4, <2>3
<1> QED
  BY <1>5 DEF S, x

LEMMA BufInvInit == Init /\ SoundUse => BufInv
<1> SUFFICES ASSUME Init, SoundUse PROVE BufInv
  OBVIOUS
<1>0. /\ chunks = <<>> /\ Len(chunks) = 0 /\ chunks \in Seq(Chunk)
      /\ PageSize \in Nat /\ MaxBytes \in Nat /\ NULL \notin Page
  BY EmptySeq, BufferAssumption DEF Init
<1>1. Shape(chunks, room, rmem_at, rmem_last)
  BY <1>0 DEF Init, Shape, Apart, UnderRest, TailFits
<1>2. memory \in Memories
  BY <1>0 DEF Init, Memories, Blank, Bytes
<1>3. Holds(chunks, memory, 0, 0)
  <2>1. [i \in 1 .. 1 |-> 0] \in [1 .. Len(chunks) + 1 -> Nat]
        /\ Laid(chunks, memory, [i \in 1 .. 1 |-> 0])
        /\ [i \in 1 .. 1 |-> 0][1] = 0 /\ [i \in 1 .. 1 |-> 0][Len(chunks) + 1] = 0
    BY <1>0 DEF Laid
  <2> QED
    BY <2>1 DEF Holds
<1>4. Held(chunks, live \ foreign)
  BY <1>0 DEF Init, Held
<1>5. ListInv
  <2>1. taken - read = 0 /\ written = 0
    BY DEF Init
  <2>2. List(chunks, memory, room, rmem_at, rmem_last, live \ foreign, 0, 0)
    BY <1>1, <1>2, <1>3, <1>4 DEF List
  <2> QED
    BY <2>1, <2>2 DEF ListInv, Init
<1>6. KindsInv
  BY <1>0 DEF KindsInv, Simple, AllRefs, RestHeld, Init
<1>7. CallInv /\ CountsInv
  BY <1>0 DEF CallInv, CountsInv, Init, NoResume
<1> QED
  BY <1>5, <1>6, <1>7 DEF BufInv, Init

\* The facts about the head that follow from the invariant.
LEMMA HeadFacts ==
  ASSUME BufInv
  PROVE  /\ Shape(chunks, room, rmem_at, rmem_last) /\ Len(chunks) \in Nat
         /\ room \in Nat /\ read \in Nat /\ taken \in Nat /\ written \in Nat /\ flushed \in Nat
         /\ MaxBytes \in Nat /\ taken <= written /\ Readable = written - taken
         /\ chunks = <<>> => taken = written /\ read = 0
         /\ chunks # <<>> => /\ Size(chunks[1]) \in Nat /\ read < Size(chunks[1])
                             /\ taken + (Size(chunks[1]) - read) <= written
         /\ TopReadable = 0 <=> chunks = <<>>
         /\ TopReadable > 0 <=> chunks # <<>>
<1>0. /\ Shape(chunks, room, rmem_at, rmem_last) /\ room \in Nat /\ Len(chunks) \in Nat
      /\ read \in Nat /\ taken \in Nat /\ written \in Nat /\ flushed \in Nat
      /\ MaxBytes \in Nat /\ ListInv
  BY ShapeFacts, BufferAssumption DEF BufInv, ListInv, List, Shape, CountsInv
<1>1. PICK pos \in [1 .. Len(chunks) + 1 -> Nat] :
        /\ Laid(chunks, memory, pos) /\ pos[1] = taken - read
        /\ pos[Len(chunks) + 1] = written
  BY DEF BufInv, ListInv, List, Holds
<1>2. Readable = written - taken /\ taken <= written
  BY <1>0, <1>1, Contents
<1>3. chunks = <<>> => taken = written /\ read = 0
  <2> SUFFICES ASSUME chunks = <<>> PROVE taken = written /\ read = 0
    OBVIOUS
  <2>1. Len(chunks) = 0 /\ read = 0
    BY <1>0, EmptySeq DEF ListInv
  <2> QED
    BY <1>0, <1>1, <2>1
<1>4. chunks # <<>> => /\ Size(chunks[1]) \in Nat /\ read < Size(chunks[1])
                       /\ taken + (Size(chunks[1]) - read) <= written
                       /\ UnreadSize(1) = Size(chunks[1]) - read
  <2> SUFFICES ASSUME chunks # <<>>
               PROVE  /\ Size(chunks[1]) \in Nat /\ read < Size(chunks[1])
                      /\ taken + (Size(chunks[1]) - read) <= written
                      /\ UnreadSize(1) = Size(chunks[1]) - read
    OBVIOUS
  <2>1. 1 \in 1 .. Len(chunks) /\ Size(chunks[1]) \in Nat
    BY <1>0, ShapeFacts
  <2>2. read < Size(chunks[1]) /\ UnreadSize(1) = Size(chunks[1]) - read
    BY <1>0 DEF ListInv, UnreadSize
  <2>3. Starts(pos) \in [1 .. Len(chunks) + 1 -> Nat] /\ Starts(pos)[1] = taken
        /\ Starts(pos)[Len(chunks) + 1] = written
    BY <1>0, <1>1, Contents
  <2>4. \A i \in 1 .. Len(chunks) :
          Starts(pos)[i + 1] = Starts(pos)[i] + UnreadSize(i) /\ UnreadSize(i) \in Nat
    BY <1>0, <1>1, UnreadIs
  <2> DEFINE n == Len(chunks)
             g == [i \in 1 .. (n - 1) + 1 |-> Starts(pos)[i + 1]]
  <2>5. n - 1 \in Nat /\ (n - 1) + 1 = n
    BY <2>1
  <2>6. g \in [1 .. (n - 1) + 1 -> Int] /\ g[1] = Starts(pos)[2] /\ g[n] = written
    BY <2>1, <2>3, <2>5
  <2>7. ASSUME NEW i \in 1 .. n - 1 PROVE g[i] <= g[i + 1]
    <3>1. i + 1 \in 1 .. n /\ i \in 1 .. n /\ i + 1 \in 1 .. n + 1
      BY <2>5
    <3>2. g[i] = Starts(pos)[i + 1] /\ g[i + 1] = Starts(pos)[(i + 1) + 1]
      BY <2>5, <3>1
    <3>3. Starts(pos)[i + 1] \in Nat
      BY <2>3, <3>1
    <3> HIDE DEF g
    <3> QED
      BY <2>4, <3>1, <3>2, <3>3
  <2> HIDE DEF g
  <2>8. g[1] <= g[n]
    <3>1. \A i \in 1 .. (n - 1) + 1 : g[1] <= g[i]
      BY <2>5, <2>6, <2>7, Rising
    <3> QED
      BY <2>1, <2>5, <3>1
  <2>9. Starts(pos)[2] = taken + UnreadSize(1)
    BY <2>1, <2>3, <2>4
  <2> QED
    BY <1>0, <2>1, <2>2, <2>6, <2>8, <2>9
<1>5. /\ TopReadable = 0 <=> chunks = <<>>
      /\ TopReadable > 0 <=> chunks # <<>>
  BY <1>0, <1>4 DEF TopReadable
<1> QED
  BY <1>0, <1>2, <1>3, <1>4, <1>5
-----------------------------------------------------------------------------
(* Writing keeps the invariant. *)

LEMMA FreshFollows ==
  ASSUME BufInv, NEW n \in Nat, n > 0, written + n <= MaxBytes
  PROVE  Follows(Fresh(n), written) /\ Len(Fresh(n)) = n
<1>1. written \in Nat /\ MaxBytes \in Nat
  BY HeadFacts
<1>2. Fresh(n) \in Seq(Bytes) /\ Len(Fresh(n)) = n /\ \A k \in 1 .. n : Fresh(n)[k] = written + k
  BY <1>1 DEF Fresh, Bytes
<1> QED
  BY <1>2 DEF Follows

\* A write needs chunks that do not divide, or that are all owned.
LEMMA WritesAreSound ==
  ASSUME BufInv, ~ NoCopies
  PROVE  Simple(chunks) \/ RestHeld(chunks, rmem_at)
BY DEF BufInv, SoundUse, KindsInv

LEMMA GrownKeeps ==
  ASSUME BufInv, ~ NoCopies, use' = use, NEW n \in Nat, n > 0, written + n <= MaxBytes,
         Grown(chunks, rmem_at, taken - read, written + n), written' = written + n,
         UNCHANGED <<foreign, taken, flushed>>
  PROVE  ListInv' /\ KindsInv' /\ CountsInv'
<1>0. /\ Shape(chunks, room, rmem_at, rmem_last) /\ Len(chunks) \in Nat
      /\ read \in Nat /\ taken \in Nat /\ written \in Nat /\ flushed \in Nat /\ MaxBytes \in Nat
      /\ read <= taken
  BY HeadFacts DEF BufInv, ListInv
<1>1. /\ List(chunks', memory', room', rmem_at', rmem_last', live' \ foreign',
              taken' - read', written')
      /\ live' \subseteq Page /\ foreign' \subseteq live' /\ read' = read
      /\ Outgrows(chunks, rmem_at, chunks', rmem_at')
  BY DEF Grown
<1>2. chunks' # <<>> /\ read < Size(chunks'[1])
  <2>1. CASE chunks = <<>>
    <3>1. Shape(chunks', room', rmem_at', rmem_last') /\ chunks' # <<>>
      BY <1>1 DEF List, Outgrows
    <3>2. 1 \in 1 .. Len(chunks') /\ Size(chunks'[1]) \in Nat /\ Size(chunks'[1]) > 0
      BY <3>1, ShapeFacts
    <3>3. read = 0
      BY <2>1, HeadFacts
    <3> QED
      BY <3>1, <3>2, <3>3
  <2>2. CASE chunks # <<>>
    <3>1. 1 \in 1 .. Len(chunks) /\ Size(chunks[1]) \in Nat /\ read < Size(chunks[1])
      BY <1>0, <2>2, ShapeFacts, HeadFacts
    <3>2. Shape(chunks', room', rmem_at', rmem_last') /\ chunks' # <<>>
          /\ Size(chunks'[1]) >= Size(chunks[1])
      BY <1>1, <3>1 DEF List, Outgrows
    <3>3. Size(chunks'[1]) \in Nat
      <4>1. 1 \in 1 .. Len(chunks')
        BY <3>2, ShapeFacts
      <4> QED
        BY <3>2, <4>1, ShapeFacts
    <3> HIDE DEF Size
    <3> QED
      BY <1>0, <3>1, <3>2, <3>3
  <2> QED
    BY <2>1, <2>2
<1>3. ListInv'
  <2>1. taken' = taken /\ written' \in Nat
    BY <1>0
  <2> QED
    BY <1>0, <1>1, <1>2, <2>1 DEF ListInv
<1>4. KindsInv'
  BY <1>1 DEF BufInv, KindsInv, Outgrows, NoRefs, NoCopies, OnlyCleared, HasIo, Ops
<1>5. CountsInv'
  BY <1>0 DEF BufInv, CountsInv
<1> QED
  BY <1>3, <1>4, <1>5

LEMMA WriteKeeps ==
  ASSUME BufInv, ~ NoCopies, use' = use, NEW n \in Nat, n > 0, written + n <= MaxBytes,
         PutInRoom(Fresh(n)) \/ SplitGrow(Fresh(n)) \/ (n > room /\ Grow(chunks, memory, Fresh(n))),
         written' = written + n, UNCHANGED <<foreign, taken, flushed>>
  PROVE  ListInv' /\ KindsInv' /\ CountsInv'
<1>0. /\ taken - read \in Nat /\ written \in Nat
      /\ List(chunks, memory, room, rmem_at, rmem_last, live \ foreign, taken - read, written)
      /\ live \subseteq Page /\ foreign \subseteq live
      /\ Simple(chunks) \/ RestHeld(chunks, rmem_at)
  BY WritesAreSound DEF BufInv, ListInv
<1>1. Follows(Fresh(n), written) /\ Len(Fresh(n)) = n
  BY FreshFollows
<1>2. Grown(chunks, rmem_at, taken - read, written + Len(Fresh(n)))
  BY <1>0, <1>1, PutStep, SplitStep, GrowStep
<1>3. Grown(chunks, rmem_at, taken - read, written + n)
  BY <1>1, <1>2
<1> QED
  BY <1>3, GrownKeeps

\* The same, up to the call of the IO's write method.
LEMMA BeginFlushKeeps ==
  ASSUME BufInv, pc = "idle", use' = use, NEW then, BeginFlush(then),
         HasIo \/ "write_to" \in Ops,
         then \in [op : {"none", "grow", "long"}, n : Nat],
         then # NoResume => /\ HasIo /\ then.op \in {"grow", "long"}
                            /\ then.n \in Nat \ {0} /\ written + then.n <= MaxBytes
  PROVE  BufInv'
<1>0. chunks # <<>> /\ Shape(chunks, room, rmem_at, rmem_last) /\ memory \in Memories /\ ListInv
  BY HeadFacts DEF BeginFlush, BufInv, ListInv, List
<1>1. PICK pos \in [1 .. Len(chunks) + 1 -> Nat] :
        /\ Laid(chunks, memory, pos) /\ pos[1] = taken - read
        /\ pos[Len(chunks) + 1] = written
  BY <1>0 DEF ListInv, List, Holds
<1>2. 1 \in 1 .. Len(chunks) /\ Size(chunks[1]) \in Nat /\ taken \in Nat
  BY <1>0, ShapeFacts, HeadFacts
<1>3. Starts(pos)[1] = taken
  BY <1>0, <1>1, Contents
<1>4. /\ Unread(1) \in Seq(Bytes) /\ Len(Unread(1)) = UnreadSize(1)
      /\ \A j \in 1 .. UnreadSize(1) : Unread(1)[j] = taken + j
  BY <1>0, <1>1, <1>2, <1>3, UnreadIs, ZenonT(60)
<1>5. Unread(1) = Count(taken, taken + (Size(chunks[1]) - read))
  <2>1. Unread(1) \in Seq(Nat)
    <3>1. Bytes \subseteq Nat
      BY DEF Bytes
    <3> QED
      BY <1>4, <3>1, SeqMonotonic
  <2>2. Len(Unread(1)) = Size(chunks[1]) - read
    BY <1>4 DEF UnreadSize
  <2>3. Unread(1) = Count(taken, taken + Len(Unread(1)))
    BY <1>2, <1>4, <2>1, CountUnique
  <2> QED
    BY <2>2, <2>3
<1>6. /\ UNCHANGED <<chunks, read, room, rmem_at, rmem_last>>
      /\ UNCHANGED <<memory, live, foreign, written, taken, flushed>>
      /\ pc' = "write" /\ text' = Unread(1) /\ resume' = then
  BY DEF BeginFlush, bvars
<1>7. ListInv' /\ KindsInv' /\ CountsInv'
  BY <1>6 DEF BufInv, ListInv, KindsInv, CountsInv, NoRefs, NoCopies, OnlyCleared, HasIo, Ops
<1>8. CallInv'
  BY <1>0, <1>5, <1>6 DEF CallInv, HasIo, Ops
<1>9. SoundUse' /\ use' \in Uses
  BY DEF BufInv, SoundUse, NoRefs, NoCopies, OnlyCleared, HasIo, Ops
<1> QED
  BY <1>7, <1>8, <1>9 DEF BufInv

LEMMA UseKeeps ==
  ASSUME BufInv, use' = use
  PROVE  SoundUse' /\ use' \in Uses
BY DEF BufInv, SoundUse, NoRefs, NoCopies, OnlyCleared, HasIo, Ops

\* Nothing waits for the IO after an operation.
LEMMA IdleKeeps ==
  ASSUME pc' = "idle", resume' = NoResume, text' = <<>>
  PROVE  CallInv'
BY DEF CallInv, NoResume

LEMMA ResumeIs ==
  ASSUME NEW op \in {"grow", "long"}, NEW n \in Nat
  PROVE  /\ [op |-> op, n |-> n] \in [op : {"none", "grow", "long"}, n : Nat]
         /\ [op |-> op, n |-> n].op = op /\ [op |-> op, n |-> n].n = n
         /\ [op |-> op, n |-> n] # NoResume
BY DEF NoResume

LEMMA AppendCopyKeeps ==
  ASSUME BufInv, use' = use, NEW n \in Lengths, AppendCopy(n)
  PROVE  BufInv'
<1>0. n \in Nat /\ n > 0 /\ pc = "idle" /\ written + n <= MaxBytes /\ ~ NoCopies
  BY BufferAssumption DEF AppendCopy, NoCopies
<1>1. CASE (PutInRoom(Fresh(n)) \/ SplitGrow(Fresh(n))) /\ Accept(n) /\ Quiet
  <2>1. written' = written + n /\ UNCHANGED <<foreign, taken, flushed>>
        /\ pc' = pc /\ resume' = resume /\ text' = text
    BY <1>1 DEF Accept, Quiet
  <2>2. ListInv' /\ KindsInv' /\ CountsInv'
    BY <1>0, <1>1, <2>1, WriteKeeps
  <2>3. CallInv'
    BY <1>0, <2>1, IdleKeeps DEF BufInv, CallInv
  <2> QED
    BY <2>2, <2>3, UseKeeps DEF BufInv
<1>2. CASE MustFlush /\ BeginFlush([op |-> "grow", n |-> n])
  BY <1>0, <1>2, ResumeIs, BeginFlushKeeps DEF MustFlush
<1> QED
  BY <1>1, <1>2 DEF AppendCopy

LEMMA EnsureWriteKeeps ==
  ASSUME BufInv, use' = use, NEW n \in Lengths, EnsureWrite(n)
  PROVE  BufInv'
<1>0. n \in Nat /\ n > 0 /\ pc = "idle" /\ written + n <= MaxBytes /\ ~ NoCopies
  BY BufferAssumption DEF EnsureWrite, NoCopies
<1>1. CASE (PutInRoom(Fresh(n)) \/ (n > room /\ Grow(chunks, memory, Fresh(n))))
           /\ Accept(n) /\ Quiet
  <2>1. written' = written + n /\ UNCHANGED <<foreign, taken, flushed>>
        /\ pc' = pc /\ resume' = resume /\ text' = text
    BY <1>1 DEF Accept, Quiet
  <2>2. ListInv' /\ KindsInv' /\ CountsInv'
    BY <1>0, <1>1, <2>1, WriteKeeps
  <2>3. CallInv'
    BY <1>0, <2>1, IdleKeeps DEF BufInv, CallInv
  <2> QED
    BY <2>2, <2>3, UseKeeps DEF BufInv
<1>2. CASE MustFlush /\ BeginFlush([op |-> "grow", n |-> n])
  BY <1>0, <1>2, ResumeIs, BeginFlushKeeps DEF MustFlush
<1> QED
  BY <1>1, <1>2 DEF EnsureWrite

\* The string itself becomes the tail.
LEMMA AppendReferenceKeeps ==
  ASSUME BufInv, use' = use, NEW n \in LongLengths, AppendReference(n)
  PROVE  BufInv'
<1>0. /\ n \in Nat /\ n > 0 /\ pc = "idle" /\ written + n <= MaxBytes /\ ~ NoRefs /\ ~ HasIo
      /\ live \ foreign \subseteq Page
  BY BufferAssumption DEF AppendReference, NoRefs, Accept, BufInv, ListInv
<1> DEFINE s == Fresh(n)
           lo == taken - read
           own == live \ foreign
           cs2 == Append(chunks, OtherChunk("ref", s))
<1>1. /\ chunks' = cs2 /\ room' = 0 /\ rmem_last' = Rewound(chunks) /\ written' = written + n
      /\ UNCHANGED <<read, rmem_at, memory, live, foreign, taken, flushed>>
      /\ pc' = pc /\ text' = text /\ resume' = resume
  BY DEF AppendReference, Accept, Quiet
<1>2. Follows(s, written) /\ Len(s) = n
  BY <1>0, FreshFollows
<1>3. /\ lo \in Nat /\ written \in Nat /\ read \in Nat /\ taken \in Nat
      /\ List(chunks, memory, room, rmem_at, rmem_last, own, lo, written)
      /\ own \subseteq Page
  BY <1>0 DEF BufInv, ListInv
<1>4. MayBeOther(chunks, "ref", s)
  BY DEF MayBeOther
<1> HIDE DEF s, lo, own
<1>5. /\ List(cs2, memory, 0, rmem_at, Rewound(chunks), own, lo, written + Len(s))
      /\ "ref" = "heap" => Outgrows(chunks, rmem_at, cs2, rmem_at)
      /\ RestHeld(chunks, rmem_at) => RestHeld(cs2, rmem_at)
      /\ Len(cs2) = Len(chunks) + 1 /\ cs2[Len(chunks) + 1].kind = "ref"
      /\ \A i \in 1 .. Len(chunks) : cs2[i] = chunks[i]
  BY ONLY <1>2, <1>3, <1>4, GrowByOther
<1> HIDE DEF cs2
<1>6. Len(chunks) \in Nat /\ Shape(chunks, room, rmem_at, rmem_last)
  BY HeadFacts
<1>7. cs2 # <<>>
  BY <1>5, <1>6, EmptySeq
<1>8. read < Size(cs2[1])
  <2>1. CASE chunks = <<>>
    <3>1. Len(chunks) = 0 /\ read = 0 /\ Shape(cs2, 0, rmem_at, Rewound(chunks))
      BY <1>5, <2>1, HeadFacts, EmptySeq DEF List
    <3>2. 1 \in 1 .. Len(cs2) /\ Size(cs2[1]) \in Nat /\ Size(cs2[1]) > 0
      BY <1>5, <3>1, ShapeFacts
    <3> QED
      BY <3>1, <3>2
  <2>2. CASE chunks # <<>>
    <3>1. 1 \in 1 .. Len(chunks) /\ read < Size(chunks[1])
      BY <1>6, <2>2, ShapeFacts, HeadFacts
    <3> QED
      BY <1>5, <3>1
  <2> QED
    BY <2>1, <2>2
<1>9. ListInv'
  <2>1. /\ List(chunks', memory', room', rmem_at', rmem_last', live' \ foreign',
                taken' - read', written')
    BY <1>1, <1>2, <1>5 DEF lo, own
  <2>2. written' \in Nat /\ taken' \in Nat /\ read' \in Nat /\ read' <= taken'
        /\ live' \subseteq Page /\ foreign' \subseteq live'
    BY <1>0, <1>1, <1>3 DEF BufInv, ListInv
  <2>3. chunks' # <<>> /\ read' < Size(chunks'[1])
    BY <1>1, <1>7, <1>8
  <2> QED
    BY <2>1, <2>2, <2>3 DEF ListInv
<1>10. KindsInv'
  <2>1. NoCopies => AllRefs(cs2, rmem_at)
    <3> SUFFICES ASSUME NoCopies, NEW i \in 1 .. Len(chunks) + 1
                 PROVE  rmem_at = NULL /\ cs2[i].kind = "ref"
      BY <1>5 DEF AllRefs
    <3>1. AllRefs(chunks, rmem_at)
      BY DEF BufInv, KindsInv
    <3>2. i \in 1 .. Len(chunks) \/ i = Len(chunks) + 1
      BY <1>6
    <3> QED
      BY <1>5, <3>1, <3>2 DEF AllRefs
  <2>2. OnlyCleared => RestHeld(cs2, rmem_at)
    BY <1>5 DEF BufInv, KindsInv
  <2> QED
    BY <1>0, <1>1, <2>1, <2>2 DEF KindsInv, NoRefs, NoCopies, OnlyCleared, HasIo, Ops
<1>11. CountsInv'
  BY <1>0, <1>1, HeadFacts DEF CountsInv, BufInv
<1>12. CallInv'
  BY <1>0, <1>1, IdleKeeps DEF BufInv, CallInv
<1> QED
  BY <1>9, <1>10, <1>11, <1>12, UseKeeps DEF BufInv

\* What is done with a long string when there is an IO and nothing before it.
LEMMA LongAfterFlushKeeps ==
  ASSUME BufInv, use' = use, HasIo, chunks = <<>>, NEW n \in Nat, n > 0,
         written + n <= MaxBytes, LongAfterFlush(n), resume' = NoResume,
         UNCHANGED <<foreign, taken, flushed>>
  PROVE  BufInv'
<1>0. ~ NoCopies
  BY DEF NoCopies
<1>1. CASE /\ pc' = "write_long" /\ text' = Fresh(n)
           /\ UNCHANGED <<bvars, memory, live, written>>
  <2>1. Follows(Fresh(n), written) /\ Len(Fresh(n)) = n
    BY FreshFollows
  <2>2. UNCHANGED <<chunks, read, room, rmem_at, rmem_last>>
    BY <1>1 DEF bvars
  <2>3. ListInv' /\ KindsInv' /\ CountsInv'
    BY <1>1, <2>2 DEF BufInv, ListInv, KindsInv, CountsInv, NoRefs, NoCopies, OnlyCleared,
                      HasIo, Ops
  <2>4. CallInv'
    BY <1>1, <2>1, <2>2 DEF CallInv, NoResume, HasIo, Ops
  <2> QED
    BY <2>3, <2>4, UseKeeps DEF BufInv
<1>2. CASE /\ PutInRoom(Fresh(n)) \/ SplitGrow(Fresh(n))
           /\ Accept(n)
           /\ pc' = "idle" /\ text' = <<>>
  <2>1. written' = written + n
    BY <1>2 DEF Accept
  <2>2. ListInv' /\ KindsInv' /\ CountsInv'
    BY <1>0, <1>2, <2>1, WriteKeeps
  <2> QED
    BY <1>2, <2>2, IdleKeeps, UseKeeps DEF BufInv
<1> QED
  BY <1>1, <1>2 DEF LongAfterFlush

LEMMA AppendLongKeeps ==
  ASSUME BufInv, use' = use, NEW n \in LongLengths, AppendLong(n)
  PROVE  BufInv'
<1>0. n \in Nat /\ n > 0 /\ pc = "idle" /\ written + n <= MaxBytes /\ HasIo /\ resume = NoResume
  BY BufferAssumption DEF AppendLong, BufInv, CallInv
<1>1. CASE MustFlush /\ BeginFlush([op |-> "long", n |-> n])
  BY <1>0, <1>1, ResumeIs, BeginFlushKeeps DEF MustFlush
<1>2. CASE ~ MustFlush /\ LongAfterFlush(n) /\ UNCHANGED <<foreign, taken, flushed, resume>>
  <2>1. chunks = <<>>
    BY <1>0, <1>2, HeadFacts DEF MustFlush
  <2> QED
    BY <1>0, <1>2, <2>1, LongAfterFlushKeeps
<1> QED
  BY <1>1, <1>2 DEF AppendLong

LEMMA FeedFromIoKeeps ==
  ASSUME BufInv, use' = use, NEW n \in Lengths, FeedFromIo(n)
  PROVE  BufInv'
<1>0. n \in Nat /\ n > 0 /\ pc = "idle" /\ ~ NoCopies /\ written + n <= MaxBytes
      /\ written' = written + n /\ UNCHANGED <<foreign, taken, flushed>>
      /\ pc' = pc /\ resume' = resume /\ text' = text
      /\ (PutInRoom(Fresh(n)) \/ SplitGrow(Fresh(n)))
  BY BufferAssumption DEF FeedFromIo, NoCopies, Accept, Quiet
<1>1. ListInv' /\ KindsInv' /\ CountsInv'
  BY <1>0, WriteKeeps
<1>2. CallInv'
  BY <1>0, IdleKeeps DEF BufInv, CallInv
<1> QED
  BY <1>1, <1>2, UseKeeps DEF BufInv

LEMMA ResumeKeeps ==
  ASSUME BufInv, use' = use, Resume
  PROVE  BufInv'
<1>0. /\ pc = "resume" /\ chunks = <<>> /\ HasIo /\ text = <<>> /\ resume' = NoResume
      /\ resume.n \in Nat /\ resume.n > 0 /\ written + resume.n <= MaxBytes
      /\ UNCHANGED <<foreign, taken, flushed>> /\ ~ NoCopies /\ room = 0
  BY HeadFacts DEF Resume, BufInv, CallInv, NoCopies, Shape
<1>1. CASE /\ Grow(chunks, memory, Fresh(resume.n))
           /\ Accept(resume.n)
           /\ pc' = "idle" /\ UNCHANGED text
  <2>1. written' = written + resume.n /\ resume.n > room
    BY <1>0, <1>1 DEF Accept
  <2>2. ListInv' /\ KindsInv' /\ CountsInv'
    BY <1>0, <1>1, <2>1, WriteKeeps
  <2> QED
    BY <1>0, <1>1, <2>2, IdleKeeps, UseKeeps DEF BufInv
<1>2. CASE LongAfterFlush(resume.n)
  BY <1>0, <1>2, LongAfterFlushKeeps
<1> QED
  BY <1>1, <1>2 DEF Resume
-----------------------------------------------------------------------------
(* Reading and flushing keep the invariant. *)

\* Where the bytes of each chunk of the list begin.
Places(pos) ==
    /\ pos \in [1 .. Len(chunks) + 1 -> Nat]
    /\ Laid(chunks, memory, pos)
    /\ pos[1] = taken - read /\ pos[Len(chunks) + 1] = written

LEMMA PlacesExist == BufInv => \E pos : Places(pos)
BY DEF BufInv, ListInv, List, Holds, Places

\* A list that is used up chunk by chunk is divisible.
LEMMA ReadsAreSound ==
  ASSUME BufInv, ~ OnlyCleared
  PROVE  Divisible(chunks, rmem_at)
BY DEF BufInv, SoundUse, KindsInv, Divisible

\* n bytes leave: the first k chunks and r bytes of the next.
LEMMA ConsumeKeeps ==
  ASSUME BufInv, NEW pos, Places(pos), NEW k \in 0 .. Len(chunks), NEW r \in Nat,
         ~ OnlyCleared \/ k = Len(chunks), Consume(k, r),
         k < Len(chunks) => r < UnreadSize(k + 1),
         k = Len(chunks) => r = 0,
         taken' = Starts(pos)[k + 1] + r,
         use' = use, foreign' = foreign, written' = written,
         flushed' \in Nat, taken' <= flushed', flushed' <= written
  PROVE  /\ ListInv' /\ KindsInv' /\ CountsInv'
         /\ chunks' = <<>> <=> k = Len(chunks)
         /\ \A i \in 1 .. Len(chunks) - k : chunks'[i] = chunks[i + k]
         /\ Len(chunks') = Len(chunks) - k
<1> DEFINE lo == taken - read
           n == Len(chunks)
<1>a. /\ n \in Nat /\ read \in Nat /\ taken \in Nat /\ written \in Nat
      /\ ListInv /\ read <= taken /\ MaxBytes \in Nat
      /\ live \subseteq Page /\ foreign \subseteq live
      /\ List(chunks, memory, room, rmem_at, rmem_last, live \ foreign, lo, written)
      /\ Shape(chunks, room, rmem_at, rmem_last)
  BY HeadFacts DEF BufInv, ListInv
<1>0. n \in Nat /\ k \in Nat /\ k <= n /\ lo \in Nat
  BY <1>a
<1>1. /\ pos \in [1 .. n + 1 -> Nat] /\ Laid(chunks, memory, pos)
      /\ pos[1] = lo /\ pos[n + 1] = written
  BY DEF Places
<1>2. Divisible(chunks, rmem_at) \/ k = n
  BY ReadsAreSound
<1> HIDE DEF lo
<1>3. /\ List(chunks', memory', room', rmem_at', rmem_last', live' \ foreign,
              pos[k + 1], pos[n + 1])
      /\ live' \subseteq Page /\ foreign \subseteq live'
      /\ Simple(chunks) => Simple(chunks')
      /\ AllRefs(chunks, rmem_at) => AllRefs(chunks', rmem_at')
      /\ k = n => RestHeld(chunks', rmem_at')
      /\ chunks' = <<>> <=> k = n
      /\ \A i \in 1 .. n - k : chunks'[i] = chunks[i + k]
      /\ Len(chunks') = n - k
  BY <1>a, <1>0, <1>1, <1>2, ConsumeStep
<1>4. /\ Starts(pos)[1] = taken
      /\ \A i \in 1 .. n : Starts(pos)[i + 1] = pos[i + 1]
  BY <1>a, <1>0, <1>1, Contents DEF lo
<1>5. read' = IF k = 0 THEN read + r ELSE r
  BY DEF Consume
<1>6. pos[k + 1] \in Nat
  <2>1. k + 1 \in 1 .. n + 1
    BY <1>a, <1>0
  <2> QED
    BY <1>1, <2>1
<1>7. read' \in Nat /\ taken' \in Nat /\ read' <= taken' /\ taken' - read' = pos[k + 1]
  <2>1. CASE k = 0
    BY <1>a, <1>0, <1>1, <1>4, <1>5, <2>1 DEF lo
  <2>2. CASE k # 0
    <3>1. k \in 1 .. n
      BY <1>a, <1>0, <2>2
    <3>2. taken' = pos[k + 1] + r /\ read' = r
      BY <1>4, <1>5, <2>2, <3>1
    <3> QED
      BY <1>6, <3>2
  <2> QED
    BY <2>1, <2>2
<1>8. chunks' = <<>> => read' = 0
  <2> SUFFICES ASSUME k = n PROVE read' = 0
    BY <1>3
  <2>1. CASE n = 0
    <3>1. chunks = <<>>
      BY <1>a, <1>0, <2>1, EmptySeq DEF Shape
    <3> QED
      BY <1>5, <2>1, <3>1, HeadFacts
  <2>2. CASE n # 0
    BY <1>5, <2>2
  <2> QED
    BY <2>1, <2>2
<1>9. chunks' # <<>> => read' < Size(chunks'[1])
  <2> SUFFICES ASSUME k # n PROVE read' < Size(chunks'[1])
    BY <1>3
  <2>1. k < n /\ 1 \in 1 .. n - k /\ k + 1 \in 1 .. n /\ 1 + k = k + 1
    BY <1>a, <1>0
  <2>2. chunks'[1] = chunks[k + 1] /\ Size(chunks[k + 1]) \in Nat
    BY <1>a, <1>0, <1>3, <2>1, ShapeFacts
  <2>3. r < Size(chunks[k + 1]) - (IF k + 1 = 1 THEN read ELSE 0)
    BY <2>1 DEF UnreadSize
  <2> HIDE DEF n
  <2>4. read' < Size(chunks[k + 1])
    <3> DEFINE z == Size(chunks[k + 1])
    <3>1. z \in Nat /\ r < z - (IF k + 1 = 1 THEN read ELSE 0)
      BY <2>2, <2>3
    <3> HIDE DEF z
    <3>2. read' < z
      BY <1>a, <1>0, <1>5, <3>1
    <3> QED
      BY <3>2 DEF z
  <2> QED
    BY <2>2, <2>4
<1>10. ListInv'
  <2>1. List(chunks', memory', room', rmem_at', rmem_last', live' \ foreign',
             taken' - read', written')
    BY <1>1, <1>3, <1>7
  <2> QED
    BY <1>a, <1>0, <1>3, <1>7, <1>8, <1>9, <2>1 DEF ListInv
<1>11. KindsInv'
  BY <1>3 DEF BufInv, KindsInv, NoRefs, NoCopies, OnlyCleared, HasIo, Ops
<1>12. CountsInv'
  BY DEF BufInv, CountsInv
<1> QED
  BY <1>3, <1>10, <1>11, <1>12

LEMMA ReadKeeps ==
  ASSUME BufInv, use' = use, NEW n \in Nat, Read(n)
  PROVE  BufInv'
<1>0. /\ pc = "idle" /\ ~ OnlyCleared /\ n <= Readable
      /\ taken' = taken + n /\ flushed' = Max({flushed, taken + n})
      /\ UNCHANGED <<foreign, written, pc, text, resume>>
  BY DEF Read, OnlyCleared
<1>1. PICK k \in 0 .. Len(chunks) :
        /\ SizeOf(k) <= n
        /\ k < Len(chunks) => n < SizeOf(k + 1)
        /\ Consume(k, n - SizeOf(k))
  BY DEF Read
<1>2. PICK pos : Places(pos)
  BY PlacesExist
<1>a. /\ Len(chunks) \in Nat /\ taken \in Nat /\ written \in Nat /\ flushed \in Nat
      /\ Readable = written - taken /\ flushed <= written /\ MaxBytes \in Nat
  BY HeadFacts DEF BufInv, CountsInv
<1>3. /\ \A j \in 0 .. Len(chunks) : SizeOf(j) = Starts(pos)[j + 1] - taken
      /\ Starts(pos) \in [1 .. Len(chunks) + 1 -> Nat]
      /\ Starts(pos)[Len(chunks) + 1] = written
  BY <1>2, Contents DEF Places, BufInv
<1> DEFINE r == n - SizeOf(k)
<1>4. /\ SizeOf(k) = Starts(pos)[k + 1] - taken /\ Starts(pos)[k + 1] \in Nat
      /\ r \in Nat /\ taken' = Starts(pos)[k + 1] + r
  <2>1. k + 1 \in 1 .. Len(chunks) + 1
    BY <1>a
  <2>2. SizeOf(k) = Starts(pos)[k + 1] - taken
    BY <1>3
  <2>3. Starts(pos)[k + 1] \in Nat
    BY <1>3, <2>1
  <2> QED
    BY <1>0, <1>a, <1>1, <2>2, <2>3
<1>5. k < Len(chunks) => r < UnreadSize(k + 1)
  <2> SUFFICES ASSUME k < Len(chunks) PROVE r < UnreadSize(k + 1)
    OBVIOUS
  <2>1. k + 1 \in 1 .. Len(chunks) /\ k + 1 \in 0 .. Len(chunks) /\ k + 1 + 1 \in 1 .. Len(chunks) + 1
    BY <1>a
  <2>2. /\ Starts(pos)[k + 1 + 1] = Starts(pos)[k + 1] + UnreadSize(k + 1)
        /\ UnreadSize(k + 1) \in Nat
    BY <1>2, <2>1, UnreadIs DEF Places, BufInv
  <2>3. SizeOf(k + 1) = Starts(pos)[k + 1 + 1] - taken /\ Starts(pos)[k + 1 + 1] \in Nat
    BY <1>3, <2>1
  <2> DEFINE a == Starts(pos)[k + 1]
             z == Starts(pos)[k + 1 + 1]
             w == UnreadSize(k + 1)
             b == SizeOf(k)
             e == SizeOf(k + 1)
  <2>4. z = a + w /\ w \in Nat /\ e = z - taken /\ b = a - taken /\ n < e /\ a \in Nat
    BY <1>1, <1>4, <2>2, <2>3
  <2> HIDE DEF a, z, w, b, e
  <2>5. n - b < w
    BY <1>a, <2>4
  <2> QED
    BY <2>5 DEF b, w
<1>6. k = Len(chunks) => r = 0
  BY <1>0, <1>a, <1>1, <1>3, <1>4
<1>7. flushed' \in Nat /\ taken' <= flushed' /\ flushed' <= written
  <2>1. taken + n \in Nat /\ taken + n <= written
    BY <1>0, <1>a
  <2> QED
    BY <1>0, <1>a, <2>1, MaxOfTwo
<1>8. Consume(k, r)
  BY <1>1
<1> HIDE DEF r
<1>9. ListInv' /\ KindsInv' /\ CountsInv'
  BY <1>0, <1>2, <1>4, <1>5, <1>6, <1>7, <1>8, ConsumeKeeps
<1>10. CallInv'
  BY <1>0, IdleKeeps DEF BufInv, CallInv
<1> QED
  BY <1>9, <1>10, UseKeeps DEF BufInv

\* n bytes pass by an empty list.
LEMMA PassKeeps ==
  ASSUME BufInv, chunks = <<>>, use' = use, NEW n \in Nat, written + n <= MaxBytes,
         written' = written + n, taken' = taken + n, flushed' = written + n,
         UNCHANGED <<chunks, read, room, rmem_at, rmem_last>>,
         UNCHANGED <<memory, live, foreign>>
  PROVE  ListInv' /\ KindsInv' /\ CountsInv'
<1>1. /\ taken \in Nat /\ written \in Nat /\ taken = written /\ read = 0 /\ MaxBytes \in Nat
      /\ written + n \in Nat
  BY HeadFacts
<1>2. ListInv'
  <2>1. /\ Shape(chunks, room, rmem_at, rmem_last) /\ memory \in Memories
        /\ Held(chunks, live \ foreign) /\ Len(chunks) = 0
        /\ live \subseteq Page /\ foreign \subseteq live
    BY EmptySeq DEF BufInv, ListInv, List
  <2>2. Holds(chunks, memory, written + n, written + n)
    <3> DEFINE pos == [i \in 1 .. 1 |-> written + n]
    <3>1. pos \in [1 .. Len(chunks) + 1 -> Nat] /\ Laid(chunks, memory, pos)
          /\ pos[1] = written + n /\ pos[Len(chunks) + 1] = written + n
      BY <1>1, <2>1 DEF Laid
    <3> QED
      BY <3>1 DEF Holds
  <2>3. taken' - read' = written + n /\ written' = written + n
    BY <1>1
  <2> QED
    BY <1>1, <2>1, <2>2, <2>3 DEF ListInv, List
<1>3. KindsInv'
  BY DEF BufInv, KindsInv, NoRefs, NoCopies, OnlyCleared, HasIo, Ops
<1>4. CountsInv'
  BY <1>1 DEF CountsInv
<1> QED
  BY <1>2, <1>3, <1>4

LEMMA ReadDirectlyKeeps ==
  ASSUME BufInv, use' = use, NEW n \in Nat, ReadDirectly(n)
  PROVE  BufInv'
<1>0. /\ pc = "idle" /\ chunks = <<>> /\ taken = written
      /\ written' = written + n /\ written + n <= MaxBytes
      /\ taken' = taken + n /\ flushed' = Max({flushed, taken + n})
      /\ UNCHANGED <<chunks, read, room, rmem_at, rmem_last>>
      /\ UNCHANGED <<memory, live, foreign>> /\ UNCHANGED <<pc, text, resume>>
  BY HeadFacts DEF ReadDirectly, Accept, bvars
<1>1. /\ taken \in Nat /\ flushed \in Nat /\ flushed <= written
  BY HeadFacts DEF BufInv, CountsInv
<1>2. flushed' = written + n
  BY <1>0, <1>1, MaxOfTwo
<1>3. ListInv' /\ KindsInv' /\ CountsInv'
  BY <1>0, <1>2, PassKeeps
<1>4. CallInv'
  BY <1>0, IdleKeeps DEF BufInv, CallInv
<1> QED
  BY <1>3, <1>4, UseKeeps DEF BufInv

LEMMA ClearKeeps ==
  ASSUME BufInv, use' = use, Clear
  PROVE  BufInv'
<1>0. /\ pc = "idle" /\ Consume(Len(chunks), 0) /\ taken' = written /\ flushed' = written
      /\ UNCHANGED <<foreign, written, pc, text, resume>>
  BY DEF Clear
<1>1. PICK pos : Places(pos)
  BY PlacesExist
<1>2. Len(chunks) \in Nat /\ written \in Nat
  BY HeadFacts
<1>3. Starts(pos)[Len(chunks) + 1] = written
  BY <1>1, Contents DEF Places, BufInv
<1> DEFINE k == Len(chunks)
<1>4. k \in 0 .. Len(chunks) /\ taken' = Starts(pos)[k + 1] + 0 /\ Consume(k, 0)
  BY <1>0, <1>2, <1>3
<1> HIDE DEF k
<1>5. ListInv' /\ KindsInv' /\ CountsInv'
  <2>1. k = Len(chunks)
    BY DEF k
  <2>2. ~ (k < Len(chunks)) /\ 0 \in Nat
    BY <1>2, <2>1
  <2> QED
    BY <1>0, <1>1, <1>2, <1>4, <2>1, <2>2, ConsumeKeeps
<1>6. CallInv'
  BY <1>0, IdleKeeps DEF BufInv, CallInv
<1> QED
  BY <1>5, <1>6, UseKeeps DEF BufInv

LEMMA FlushKeeps ==
  ASSUME BufInv, use' = use, Flush
  PROVE  BufInv'
<1>1. NoResume \in [op : {"none", "grow", "long"}, n : Nat]
  BY DEF NoResume
<1> QED
  BY <1>1, BeginFlushKeeps DEF Flush

\* The string of a call of the IO's write method.
LEMMA TextReceived ==
  ASSUME BufInv, NEW a \in Nat, NEW c \in Nat, a < c, text = Count(a, c), Received,
         taken <= a, c <= written'
  PROVE  /\ flushed' \in Nat /\ c <= flushed' /\ flushed <= flushed'
         /\ flushed' = IF flushed >= c THEN flushed ELSE c
<1>1. flushed \in Nat
  BY HeadFacts
<1>2. flushed' = Max({flushed} \cup Range(Count(a, c)))
  BY DEF Received
<1>3. flushed' = IF flushed >= c THEN flushed ELSE c
  BY <1>1, <1>2, MaxOfCount
<1> QED
  BY <1>1, <1>3

LEMMA WriteReturnsKeeps ==
  ASSUME BufInv, use' = use, WriteReturns
  PROVE  BufInv'
<1>0. /\ pc = "write" /\ Received /\ taken' = taken + UnreadSize(1) /\ Consume(1, 0)
      /\ UNCHANGED <<foreign, written>> /\ resume' = resume
      /\ chunks # <<>> /\ text = Count(taken, taken + (Size(chunks[1]) - read))
      /\ ~ OnlyCleared
  BY DEF WriteReturns, BufInv, CallInv, OnlyCleared
<1>1. PICK pos : Places(pos)
  BY PlacesExist
<1>2. /\ Len(chunks) \in Nat /\ taken \in Nat /\ written \in Nat /\ flushed \in Nat
      /\ flushed <= written /\ read \in Nat
      /\ Size(chunks[1]) \in Nat /\ read < Size(chunks[1])
      /\ taken + (Size(chunks[1]) - read) <= written
  BY <1>0, HeadFacts DEF BufInv, CountsInv
<1>3. Len(chunks) >= 1 /\ UnreadSize(1) = Size(chunks[1]) - read
  <2>1. Shape(chunks, room, rmem_at, rmem_last)
    BY HeadFacts
  <2> QED
    BY <1>0, <1>2, <2>1, ShapeFacts DEF UnreadSize
<1> DEFINE c == taken + UnreadSize(1)
           k == 1
<1>4. c \in Nat /\ taken < c /\ c <= written /\ text = Count(taken, c) /\ taken' = c
  BY <1>0, <1>2, <1>3
<1>5. ASSUME NEW i \in 1 .. Len(chunks)
      PROVE  /\ Unread(i) \in Seq(Bytes)
             /\ UnreadSize(i) \in Nat /\ UnreadSize(i) > 0
             /\ Len(Unread(i)) = UnreadSize(i)
             /\ Starts(pos)[i + 1] = Starts(pos)[i] + UnreadSize(i)
             /\ \A j \in 1 .. UnreadSize(i) : Unread(i)[j] = Starts(pos)[i] + j
  BY <1>1, UnreadIs DEF Places, BufInv
<1>6. Starts(pos)[1] = taken
  BY <1>1, Contents DEF Places, BufInv
<1>7. Starts(pos)[k + 1] = c
  BY <1>3, <1>5, <1>6
<1> HIDE DEF c
<1>8. /\ flushed' \in Nat /\ c <= flushed' /\ flushed' <= written
  BY <1>0, <1>2, <1>4, TextReceived
<1>9. k \in 0 .. Len(chunks) /\ taken' = Starts(pos)[k + 1] + 0 /\ Consume(k, 0)
      /\ (k < Len(chunks) => 0 < UnreadSize(k + 1))
  <2>1. k \in 0 .. Len(chunks) /\ taken' = Starts(pos)[k + 1] + 0 /\ Consume(k, 0)
    BY <1>0, <1>2, <1>3, <1>4, <1>7
  <2>2. ASSUME k < Len(chunks) PROVE 0 < UnreadSize(k + 1)
    <3>1. k + 1 \in 1 .. Len(chunks)
      BY <1>2, <2>2
    <3> QED
      BY <1>5, <3>1
  <2> QED
    BY <2>1, <2>2
<1> HIDE DEF k
<1>10. /\ ListInv' /\ KindsInv' /\ CountsInv'
       /\ chunks' = <<>> <=> k = Len(chunks)
       /\ \A i \in 1 .. Len(chunks) - k : chunks'[i] = chunks[i + k]
  <2>1. taken' <= flushed'
    BY <1>4, <1>8
  <2> QED
    BY <1>0, <1>1, <1>8, <1>9, <2>1, ConsumeKeeps
<1>11. CallInv'
  <2>1. CASE Len(chunks) > 1
    <3>1. /\ text' = Stored(chunks[2]) /\ pc' = "write"
          /\ chunks' # <<>> /\ chunks'[1] = chunks[2] /\ read' = 0
      <4>1. text' = Stored(chunks[2]) /\ pc' = "write"
        BY <1>0, <2>1 DEF WriteReturns, NextText
      <4>2. 1 \in 1 .. Len(chunks) - k /\ k # Len(chunks) /\ 1 + k = 2
        <5> DEFINE n == Len(chunks)
        <5>1. n \in Nat /\ n > 1
          BY <1>2, <2>1
        <5> HIDE DEF n
        <5>2. 1 \in 1 .. n - k /\ k # n /\ 1 + k = 2
          BY <5>1 DEF k
        <5> QED
          BY <5>2 DEF n
      <4>3. read' = 0
        BY <1>0 DEF Consume
      <4> QED
        BY <1>10, <4>1, <4>2, <4>3
    <3>2. /\ Unread(2) \in Seq(Bytes) /\ UnreadSize(2) \in Nat /\ Len(Unread(2)) = UnreadSize(2)
          /\ \A j \in 1 .. UnreadSize(2) : Unread(2)[j] = c + j
          /\ UnreadSize(2) = Size(chunks[2]) /\ Unread(2) = Stored(chunks[2])
      <4>1. 2 \in 1 .. Len(chunks)
        BY <1>2, <2>1
      <4>2. Starts(pos)[2] = c
        BY <1>7 DEF k
      <4>3. UnreadSize(2) = Size(chunks[2]) - 0 /\ Unread(2) = Stored(chunks[2])
        BY DEF UnreadSize, Unread
      <4>4. UnreadSize(2) = Size(chunks[2])
        <5>1. Size(chunks[2]) \in Nat
          BY <4>1, HeadFacts, ShapeFacts
        <5> HIDE DEF Size
        <5> QED
          BY <4>3, <5>1
      <4> QED
        BY <1>5, <4>1, <4>2, <4>3, <4>4
    <3>3. Unread(2) = Count(c, c + Len(Unread(2)))
      <4>1. Unread(2) \in Seq(Nat)
        <5>1. Bytes \subseteq Nat
          BY DEF Bytes
        <5> QED
          BY <3>2, <5>1, SeqMonotonic
      <4> QED
        BY <1>4, <3>2, <4>1, CountUnique
    <3>4. text' = Count(taken', taken' + (Size(chunks'[1]) - read'))
      <4>1. Size(chunks'[1]) - read' = Len(Unread(2))
        BY <3>1, <3>2
      <4> QED
        BY <1>4, <3>1, <3>2, <3>3, <4>1
    <3> QED
      BY <1>0, <3>1, <3>4 DEF BufInv, CallInv, HasIo, Ops
  <2>2. CASE ~ (Len(chunks) > 1)
    <3>1. Len(chunks) = 1
      <4> DEFINE n == Len(chunks)
      <4>1. n \in Nat /\ n >= 1 /\ ~ (n > 1)
        BY <1>2, <1>3, <2>2
      <4> HIDE DEF n
      <4>2. n = 1
        BY <4>1
      <4> QED
        BY <4>2 DEF n
    <3>2. /\ chunks' = <<>> /\ text' = <<>>
          /\ pc' = IF resume = NoResume THEN "idle" ELSE "resume"
      BY <1>10, <2>2, <3>1 DEF WriteReturns, k
    <3> QED
      BY <1>0, <3>2 DEF BufInv, CallInv, HasIo, Ops
  <2> QED
    BY <2>1, <2>2
<1> QED
  BY <1>10, <1>11, UseKeeps DEF BufInv

LEMMA LongWriteReturnsKeeps ==
  ASSUME BufInv, use' = use, LongWriteReturns
  PROVE  BufInv'
<1> DEFINE n == Len(text)
<1>0. /\ pc = "write_long" /\ chunks = <<>> /\ resume = NoResume
      /\ Follows(text, written) /\ written + n <= MaxBytes
      /\ written' = written + n /\ taken' = taken + n /\ Received
      /\ pc' = "idle" /\ text' = <<>> /\ resume' = resume
      /\ UNCHANGED <<chunks, read, room, rmem_at, rmem_last>>
      /\ UNCHANGED <<memory, live, foreign>>
  BY DEF LongWriteReturns, BufInv, CallInv, Accept, bvars
<1>1. /\ taken = written /\ written \in Nat /\ flushed \in Nat /\ flushed <= written
      /\ text \in Seq(Nat) /\ n \in Nat /\ n > 0
      /\ \A j \in 1 .. Len(text) : text[j] = written + j
  <2>1. Bytes \subseteq Nat
    BY DEF Bytes
  <2>2. text \in Seq(Nat)
    BY <1>0, <2>1, SeqMonotonic DEF Follows
  <2> QED
    BY <1>0, <2>2, HeadFacts DEF BufInv, CountsInv, Follows
<1>2. text = Count(written, written + n)
  BY <1>1, CountUnique
<1> HIDE DEF n
<1>3. flushed' = written + n
  <2> DEFINE c == written + n
  <2>1. c \in Nat /\ written < c /\ text = Count(written, c) /\ c <= written' /\ flushed < c
        /\ taken <= written
    BY <1>0, <1>1, <1>2
  <2> HIDE DEF c
  <2>2. flushed' = IF flushed >= c THEN flushed ELSE c
    BY <1>0, <1>1, <2>1, TextReceived
  <2>3. flushed' = c
    BY <1>1, <2>1, <2>2
  <2> QED
    BY <2>3 DEF c
<1>4. ListInv' /\ KindsInv' /\ CountsInv'
  BY <1>0, <1>1, <1>3, PassKeeps
<1>5. CallInv'
  BY <1>0, IdleKeeps
<1> QED
  BY <1>4, <1>5, UseKeeps DEF BufInv

LEMMA WriteRaisesKeeps ==
  ASSUME BufInv, use' = use, WriteRaises
  PROVE  BufInv'
<1>0. /\ pc' = "idle" /\ text' = <<>> /\ resume' = NoResume
      /\ UNCHANGED <<chunks, read, room, rmem_at, rmem_last>>
      /\ UNCHANGED <<memory, live, foreign, written, taken>>
      /\ flushed' = flushed \/ (pc = "write" /\ Received)
  BY DEF WriteRaises, bvars
<1>1. ListInv' /\ KindsInv'
  BY <1>0 DEF BufInv, ListInv, KindsInv, NoRefs, NoCopies, OnlyCleared, HasIo, Ops
<1>2. CountsInv'
  <2>1. CASE flushed' = flushed
    BY <1>0, <2>1 DEF BufInv, CountsInv
  <2>2. CASE pc = "write" /\ Received
    <3> DEFINE c == taken + (Size(chunks[1]) - read)
    <3>1. /\ taken \in Nat /\ written \in Nat /\ flushed \in Nat /\ flushed <= written
          /\ written <= MaxBytes
          /\ chunks # <<>> /\ read \in Nat /\ Size(chunks[1]) \in Nat
          /\ read < Size(chunks[1]) /\ c <= written /\ text = Count(taken, c)
      BY <2>2, HeadFacts DEF BufInv, CallInv, CountsInv
    <3>2. c \in Nat /\ taken < c /\ taken <= taken
      BY <3>1
    <3> HIDE DEF c
    <3>3. /\ flushed' \in Nat /\ c <= flushed' /\ flushed' <= written
      BY <1>0, <2>2, <3>1, <3>2, TextReceived
    <3> QED
      BY <1>0, <3>1, <3>2, <3>3 DEF CountsInv
  <2> QED
    BY <1>0, <2>1, <2>2
<1> QED
  BY <1>0, <1>1, <1>2, IdleKeeps, UseKeeps DEF BufInv
-----------------------------------------------------------------------------
(* The rest of the process keeps the invariant. *)

LEMMA ForeignAllocKeeps ==
  ASSUME BufInv, use' = use, NEW p \in Page, ForeignAlloc(p)
  PROVE  BufInv'
<1>0. /\ p \notin live /\ live' = live \cup {p} /\ foreign' = foreign \cup {p}
      /\ memory' = [memory EXCEPT ![p] = Blank]
      /\ UNCHANGED <<chunks, read, room, rmem_at, rmem_last>>
      /\ UNCHANGED <<written, taken, flushed, pc, text, resume>>
  BY DEF ForeignAlloc, bvars
<1>1. /\ Shape(chunks, room, rmem_at, rmem_last) /\ memory \in Memories
      /\ Holds(chunks, memory, taken - read, written) /\ Held(chunks, live \ foreign)
      /\ live \subseteq Page /\ foreign \subseteq live
  BY DEF BufInv, ListInv, List
<1>2. live' \ foreign' = live \ foreign /\ live' \subseteq Page /\ foreign' \subseteq live'
  BY <1>0, <1>1
<1>3. memory' \in Memories
  <2>1. Blank \in [1 .. PageSize -> Bytes]
    BY BufferAssumption DEF Blank, Bytes
  <2> QED
    BY <1>0, <1>1, <2>1 DEF Memories
<1>4. ASSUME NEW i \in 1 .. Len(chunks), NEW k
      PROVE  ByteIn(chunks[i], memory', k) = ByteIn(chunks[i], memory, k)
  <2>1. chunks[i].kind = "page" => chunks[i].at \in live
    BY <1>1, HeldLive
  <2>2. chunks[i].kind = "page" => memory'[chunks[i].at] = memory[chunks[i].at]
    BY <1>0, <1>1, <2>1 DEF Memories
  <2> QED
    BY <2>2 DEF ByteIn
<1>5. Holds(chunks, memory', taken - read, written)
  <2>1. PICK pos \in [1 .. Len(chunks) + 1 -> Nat] :
          Laid(chunks, memory, pos) /\ pos[1] = taken - read /\ pos[Len(chunks) + 1] = written
    BY <1>1 DEF Holds
  <2>2. Laid(chunks, memory', pos)
    BY <1>4, <2>1 DEF Laid
  <2> QED
    BY <2>1, <2>2 DEF Holds
<1>6. ListInv'
  BY <1>0, <1>1, <1>2, <1>3, <1>5 DEF BufInv, ListInv, List
<1>7. KindsInv' /\ CountsInv'
  BY <1>0 DEF BufInv, KindsInv, CountsInv, NoRefs, NoCopies, OnlyCleared, HasIo, Ops
<1>8. CallInv'
  BY <1>0 DEF BufInv, CallInv, HasIo, Ops
<1> QED
  BY <1>6, <1>7, <1>8, UseKeeps DEF BufInv

LEMMA ForeignFreeKeeps ==
  ASSUME BufInv, use' = use, NEW p \in Page, ForeignFree(p)
  PROVE  BufInv'
<1>0. /\ p \in foreign /\ live' = live \ {p} /\ foreign' = foreign \ {p}
      /\ UNCHANGED <<chunks, read, room, rmem_at, rmem_last>>
      /\ UNCHANGED <<memory, written, taken, flushed, pc, text, resume>>
  BY DEF ForeignFree, bvars
<1>1. live \subseteq Page /\ foreign \subseteq live
  BY DEF BufInv, ListInv
<1>2. live' \ foreign' = live \ foreign /\ live' \subseteq Page /\ foreign' \subseteq live'
  BY <1>0, <1>1
<1>3. ListInv'
  BY <1>0, <1>2 DEF BufInv, ListInv
<1>4. KindsInv' /\ CountsInv'
  BY <1>0 DEF BufInv, KindsInv, CountsInv, NoRefs, NoCopies, OnlyCleared, HasIo, Ops
<1>5. CallInv'
  BY <1>0 DEF BufInv, CallInv, HasIo, Ops
<1> QED
  BY <1>3, <1>4, <1>5, UseKeeps DEF BufInv

\* The invariant is inductive.
LEMMA NextKeeps ==
  ASSUME BufInv, Next
  PROVE  BufInv'
<1>0. use' = use /\ Step
  BY DEF Next
<1>1. CASE \E n \in Lengths : AppendCopy(n)
  BY <1>0, <1>1, AppendCopyKeeps
<1>2. CASE \E n \in Lengths : EnsureWrite(n)
  BY <1>0, <1>2, EnsureWriteKeeps
<1>3. CASE \E n \in Lengths : FeedFromIo(n)
  BY <1>0, <1>3, FeedFromIoKeeps
<1>4. CASE \E n \in Lengths : ReadDirectly(n)
  <2>1. Lengths \subseteq Nat
    BY BufferAssumption
  <2> QED
    BY <1>0, <1>4, <2>1, ReadDirectlyKeeps
<1>5. CASE \E n \in LongLengths : AppendReference(n)
  BY <1>0, <1>5, AppendReferenceKeeps
<1>6. CASE \E n \in LongLengths : AppendLong(n)
  BY <1>0, <1>6, AppendLongKeeps
<1>7. CASE \E n \in 1 .. MaxBytes : Read(n)
  <2>1. 1 .. MaxBytes \subseteq Nat
    BY BufferAssumption
  <2> QED
    BY <1>0, <1>7, <2>1, ReadKeeps
<1>8. CASE Clear
  BY <1>0, <1>8, ClearKeeps
<1>9. CASE Flush
  BY <1>0, <1>9, FlushKeeps
<1>10. CASE FlushTurn
  BY <1>0, <1>10, WriteReturnsKeeps, ResumeKeeps, LongWriteReturnsKeeps DEF FlushTurn
<1>11. CASE WriteRaises
  BY <1>0, <1>11, WriteRaisesKeeps
<1>12. CASE \E p \in Page : ForeignAlloc(p)
  BY <1>0, <1>12, ForeignAllocKeeps
<1>13. CASE \E p \in Page : ForeignFree(p)
  BY <1>0, <1>13, ForeignFreeKeeps
<1> QED
  BY <1>0, <1>1, <1>2, <1>3, <1>4, <1>5, <1>6, <1>7, <1>8, <1>9, <1>10, <1>11, <1>12, <1>13
     DEF Step

LEMMA BufInvStutters ==
  ASSUME BufInv, UNCHANGED vars
  PROVE  BufInv'
<1>1. /\ UNCHANGED <<use, chunks, read, room, rmem_at, rmem_last, memory, live, foreign>>
      /\ UNCHANGED <<written, taken, flushed, pc, text, resume>>
  BY DEF vars
<1> QED
  BY <1>1 DEF BufInv, ListInv, KindsInv, CallInv, CountsInv, SoundUse, NoRefs, NoCopies,
              OnlyCleared, HasIo, Ops
-----------------------------------------------------------------------------
(* Reads of more than one step. *)

\* What a call has taken, at each of its turns.
CallsInv ==
    /\ call \in [op : Methods \cup {"none"}, n : ReadSizes \cup {0},
                 from : Bytes, state : Outcomes]
    /\ out \in Seq(Bytes)
    /\ TakenIsOut /\ AllOrNothing
    /\ Running /\ call.op \in {"read", "skip"} /\ call.n > 0 => Len(out) < call.n

LEMMA FirstBytesAre ==
  ASSUME BufInv, NEW n \in Nat, n <= Readable
  PROVE  /\ FirstBytes(n) \in Seq(Bytes) /\ Len(FirstBytes(n)) = n
         /\ \A i \in 1 .. n : FirstBytes(n)[i] = taken + i
<1>1. PICK pos : Places(pos)
  BY PlacesExist
<1>2. FlattenSeq([i \in DOMAIN chunks |-> Unread(i)]) = Count(taken, written)
  BY <1>1, Contents DEF Places, BufInv
<1>3. /\ taken \in Nat /\ written \in Nat /\ taken <= written /\ written <= MaxBytes
      /\ n <= written - taken
  BY HeadFacts DEF BufInv, CountsInv
<1> DEFINE q == Count(taken, written)
<1>4. /\ q \in Seq(Bytes) /\ Len(q) = written - taken
      /\ \A j \in 1 .. written - taken : q[j] = taken + j
  BY <1>3, CountIs
<1>5. FirstBytes(n) = SubSeq(q, 1, n)
  BY <1>2 DEF FirstBytes
<1> HIDE DEF q
<1>6. /\ SubSeq(q, 1, n) \in Seq(Bytes) /\ Len(SubSeq(q, 1, n)) = n
      /\ \A i \in 1 .. n : SubSeq(q, 1, n)[i] = q[i]
  BY <1>3, <1>4
<1>7. \A i \in 1 .. n : i \in 1 .. written - taken
  BY <1>3
<1> QED
  BY <1>4, <1>5, <1>6, <1>7

LEMMA MinOfTwo ==
  ASSUME NEW a \in Nat, NEW b \in Nat
  PROVE  Min({a, b}) = IF a <= b THEN a ELSE b
BY DEF Min

LEMMA ConcatIs ==
  ASSUME NEW S, NEW a \in Seq(S), NEW b \in Seq(S)
  PROVE  /\ a \o b \in Seq(S) /\ Len(a \o b) = Len(a) + Len(b)
         /\ \A i \in 1 .. Len(a) : (a \o b)[i] = a[i]
         /\ \A i \in Len(a) + 1 .. Len(a) + Len(b) : (a \o b)[i] = b[i - Len(a)]
BY ConcatProperties

LEMMA SuffixIs ==
  ASSUME NEW S, NEW s \in Seq(S), NEW n \in Int, 0 <= n, n <= Len(s)
  PROVE  /\ SubSeq(s, n + 1, Len(s)) \in Seq(S)
         /\ Len(SubSeq(s, n + 1, Len(s))) = Len(s) - n
         /\ \A j \in 1 .. Len(s) - n : SubSeq(s, n + 1, Len(s))[j] = s[n + j]
<1> DEFINE m == n + 1
<1>0. m \in Int /\ Len(s) \in Int /\ m >= 1
  OBVIOUS
<1>1. \A i \in m .. Len(s) : s[i] \in S
  BY <1>0
<1>2. Len(s) - m + 1 = Len(s) - n /\ (m <= Len(s) \/ Len(s) - n = 0)
  OBVIOUS
<1>3. \A j \in 1 .. Len(s) - n : m + j - 1 = n + j
  OBVIOUS
<1> HIDE DEF m
<1>4. /\ SubSeq(s, m, Len(s)) \in Seq(S)
      /\ Len(SubSeq(s, m, Len(s))) = IF m <= Len(s) THEN Len(s) - m + 1 ELSE 0
      /\ \A i \in 1 .. Len(s) - m + 1 : SubSeq(s, m, Len(s))[i] = s[m + i - 1]
  BY <1>0, <1>1, SubSeqProperties
<1>5. /\ SubSeq(s, m, Len(s)) \in Seq(S)
      /\ Len(SubSeq(s, m, Len(s))) = Len(s) - n
      /\ \A j \in 1 .. Len(s) - n : SubSeq(s, m, Len(s))[j] = s[n + j]
  BY <1>2, <1>3, <1>4
<1> QED
  BY <1>5 DEF m

LEMMA GetsLength ==
  ASSUME CallsInv, NEW s \in Seq(Bytes), Gets(s)
  PROVE  Len(out') = Len(out) + Len(s)
<1>1. out \in Seq(Bytes) /\ out' = out \o s
  BY DEF CallsInv, Gets
<1> QED
  BY <1>1, ConcatProperties

\* What a call gets is what leaves the buffer or passes it.
LEMMA GetsKeeps ==
  ASSUME CallsInv, Running, taken \in Nat, NEW k \in Nat, NEW s \in Seq(Bytes), Len(s) = k,
         \A i \in 1 .. k : s[i] = taken + i,
         Gets(s), taken' = taken + k, call'.from = call.from
  PROVE  TakenIsOut' /\ out' \in Seq(Bytes) /\ Len(out') = Len(out) + k
<1>1. /\ out \in Seq(Bytes) /\ Len(out) \in Nat /\ call.from \in Nat
      /\ taken = call.from + Len(out)
      /\ \A i \in 1 .. Len(out) : out[i] = call.from + i
      /\ out' = out \o s
  BY DEF CallsInv, TakenIsOut, Gets, Bytes
<1> DEFINE m == Len(out)
<1>2. /\ out' \in Seq(Bytes) /\ Len(out') = m + k
      /\ \A i \in 1 .. m : out'[i] = out[i]
      /\ \A i \in m + 1 .. m + k : out'[i] = s[i - m]
  <2>1. /\ out \o s \in Seq(Bytes) /\ Len(out \o s) = Len(out) + Len(s)
        /\ \A i \in 1 .. Len(out) : (out \o s)[i] = out[i]
        /\ \A i \in Len(out) + 1 .. Len(out) + Len(s) : (out \o s)[i] = s[i - Len(out)]
    BY <1>1, ConcatIs
  <2>2. Len(s) = k /\ out' = out \o s
    BY <1>1
  <2> QED
    BY <2>1, <2>2, Zenon
<1>5. DOMAIN out' = 1 .. m + k
  BY <1>2
<1>6. /\ m \in Nat /\ taken = call.from + m
      /\ \A i \in 1 .. m : out[i] = call.from + i
  BY <1>1
<1> HIDE DEF m
<1>3. ASSUME NEW i \in 1 .. m + k PROVE out'[i] = call'.from + i
  <2>1. CASE i \in 1 .. m
    <3>1. out'[i] = out[i]
      BY <1>2, <2>1
    <3> QED
      BY <1>6, <2>1, <3>1
  <2>2. CASE i \notin 1 .. m
    <3>1. i - m \in 1 .. k /\ i \in Nat /\ i \in m + 1 .. m + k
      BY <1>6, <2>2
    <3>2. out'[i] = s[i - m]
      BY <1>2, <3>1
    <3>3. s[i - m] = taken + (i - m)
      BY <3>1
    <3> QED
      BY <1>1, <1>6, <3>1, <3>2, <3>3, SMTT(30)
  <2> QED
    BY <2>1, <2>2
<1>4. taken' = call'.from + Len(out')
  BY <1>1, <1>2, <1>6
<1> QED
  BY <1>2, <1>3, <1>4, <1>5 DEF TakenIsOut, m

LEMMA CallFields ==
  ASSUME CallsInv
  PROVE  /\ call.n \in Nat /\ call.from \in Bytes /\ Len(out) \in Nat
         /\ \A outcome \in Outcomes :
              LET c == [call EXCEPT !.state = outcome]
              IN  /\ c \in [op : Methods \cup {"none"}, n : ReadSizes \cup {0},
                            from : Bytes, state : Outcomes]
                  /\ c.op = call.op /\ c.n = call.n /\ c.from = call.from /\ c.state = outcome
<1>1. ReadSizes \subseteq Nat
  BY ReadsAssumption
<1> QED
  BY <1>1 DEF CallsInv

\* A turn of read or skip.
LEMMA TurnKeeps ==
  ASSUME CallsInv, Running, taken \in Nat, call.op \in {"read", "skip"},
         NEW k \in Nat, call.n > 0 => k <= call.n - Len(out),
         NEW s \in Seq(Bytes), Len(s) = k, \A i \in 1 .. k : s[i] = taken + i,
         Gets(s), taken' = taken + k, Turn(k)
  PROVE  CallsInv'
<1>0. call.n \in Nat /\ Len(out) \in Nat /\ (call.n > 0 => Len(out) < call.n)
  BY CallFields DEF CallsInv
<1>1. CASE ~ (k = call.n - Len(out)) /\ call' = call
  <2>1. TakenIsOut' /\ out' \in Seq(Bytes) /\ Len(out') = Len(out) + k
    BY <1>1, GetsKeeps
  <2>2. call.n > 0 => Len(out') < call.n
    BY <1>0, <1>1, <2>1, CallFields
  <2> QED
    BY <1>1, <2>1, <2>2 DEF CallsInv, AllOrNothing, Running
<1>2. CASE call' = [call EXCEPT !.state = "returned"]
  <2>1. /\ call' \in [op : Methods \cup {"none"}, n : ReadSizes \cup {0},
                      from : Bytes, state : Outcomes]
        /\ call'.op = call.op /\ call'.from = call.from /\ call'.state = "returned"
    BY <1>2, CallFields DEF Outcomes
  <2>2. TakenIsOut' /\ out' \in Seq(Bytes)
    BY <2>1, GetsKeeps
  <2> QED
    BY <2>1, <2>2 DEF CallsInv, AllOrNothing, Running
<1> QED
  BY <1>1, <1>2 DEF Turn, End

LEMMA LimitIs ==
  ASSUME CallsInv, Running, call.op \in {"read", "skip"}
  PROVE  /\ Limit \in Nat
         /\ call.n > 0 => Limit = call.n - Len(out)
         /\ call.n > 0 \/ HasIo => Limit > 0
         /\ ~ (call.n > 0) /\ ~ HasIo => Limit = MaxBytes
<1>1. /\ call.n \in Nat /\ Len(out) \in Nat /\ (call.n > 0 => Len(out) < call.n)
      /\ IoBufferSize \in Nat /\ IoBufferSize > 0 /\ MaxBytes \in Nat
  BY CallFields, BufferAssumption, ReadsAssumption DEF CallsInv
<1> QED
  BY <1>1 DEF Limit

\* A turn of read or skip that ends the call short leaves nothing behind.
EndsAtEof ==
    call'.op \in {"read", "skip"} /\ call'.state = "returned"
      /\ (call.n = 0 \/ Len(out') < call.n)
    => written' = taken' /\ (HasIo => written' = MaxBytes)

LEMMA TakeBufferedKeeps ==
  ASSUME BufInv, CallsInv, Running, use' = use, TakeBuffered
  PROVE  BufInv' /\ CallsInv' /\ EndsAtEof
<1> DEFINE k == Min({Limit, Readable})
<1>0. call.op \in {"read", "skip"} /\ Read(k) /\ Gets(FirstBytes(k)) /\ Turn(k)
      /\ chunks # <<>> /\ taken' = taken + k /\ written' = written
  BY HeadFacts DEF TakeBuffered, Read
<1>1. /\ taken \in Nat /\ written \in Nat /\ taken <= written /\ Readable = written - taken
      /\ MaxBytes \in Nat /\ written <= MaxBytes /\ Readable > 0 /\ Readable \in Nat
  <2>1. /\ Size(chunks[1]) \in Nat /\ read < Size(chunks[1]) /\ read \in Nat
        /\ taken + (Size(chunks[1]) - read) <= written
    BY <1>0, HeadFacts
  <2>2. written > taken
    <3> DEFINE z == Size(chunks[1])
    <3>1. z \in Nat /\ read < z /\ read \in Nat /\ taken + (z - read) <= written
          /\ taken \in Nat /\ written \in Nat
      BY <2>1, HeadFacts
    <3> HIDE DEF z
    <3> QED
      BY <3>1
  <2> QED
    BY <2>2, HeadFacts DEF BufInv, CountsInv
<1>2. /\ Limit \in Nat
      /\ call.n > 0 => Limit = call.n - Len(out)
      /\ call.n > 0 \/ HasIo => Limit > 0
      /\ ~ (call.n > 0) /\ ~ HasIo => Limit = MaxBytes
  BY <1>0, LimitIs
<1>3. k = IF Limit <= Readable THEN Limit ELSE Readable
  BY <1>1, <1>2, MinOfTwo
<1> HIDE DEF k
<1>4. k \in Nat /\ k <= Readable /\ (call.n > 0 => k <= call.n - Len(out))
  BY <1>1, <1>2, <1>3
<1>5. /\ FirstBytes(k) \in Seq(Bytes) /\ Len(FirstBytes(k)) = k
      /\ \A i \in 1 .. k : FirstBytes(k)[i] = taken + i
  BY <1>4, FirstBytesAre
<1>6. CallsInv'
  BY <1>0, <1>1, <1>4, <1>5, TurnKeeps
<1>7. EndsAtEof
  <2> SUFFICES ASSUME call'.op \in {"read", "skip"}, call'.state = "returned",
                      call.n = 0 \/ Len(out') < call.n
               PROVE  written' = taken' /\ ~ HasIo
    BY DEF EndsAtEof
  <2>1. call.n \in Nat /\ Len(out) \in Nat /\ call.state # "returned"
    BY CallFields DEF Running
  <2>2. Len(out') = Len(out) + k
    BY <1>0, <1>5, GetsLength
  <2>3. ~ HasIo \/ k = call.n - Len(out)
    BY <1>0, <2>1 DEF Turn
  <2>4. k # call.n - Len(out) \/ ~ HasIo
    BY <1>1, <1>2, <1>3, <2>1, <2>2
  <2>5. k = Readable
    BY <1>1, <1>2, <1>3, <2>1, <2>2, <2>3, <2>4
  <2> QED
    BY <1>0, <1>1, <2>3, <2>4, <2>5
<1>8. BufInv'
  BY <1>0, <1>4, ReadKeeps
<1> QED
  BY <1>6, <1>7, <1>8

LEMMA TakeFromIoKeeps ==
  ASSUME BufInv, CallsInv, Running, use' = use, NEW k \in Lengths, TakeFromIo(k)
  PROVE  BufInv' /\ CallsInv' /\ EndsAtEof
<1>0. /\ call.op \in {"read", "skip"} /\ HasIo /\ k <= Limit /\ ReadDirectly(k)
      /\ Gets(Fresh(k)) /\ Turn(k) /\ k \in Nat /\ k > 0
      /\ taken' = taken + k /\ written + k <= MaxBytes /\ taken = written
  <2>1. k \in Nat /\ k > 0
    BY BufferAssumption
  <2>2. taken = written
    BY HeadFacts DEF TakeFromIo, ReadDirectly
  <2> QED
    BY <2>1, <2>2 DEF TakeFromIo, ReadDirectly, Accept
<1>1. taken \in Nat /\ (call.n > 0 => Limit = call.n - Len(out))
  BY <1>0, HeadFacts, LimitIs
<1>2. Fresh(k) \in Seq(Bytes) /\ Len(Fresh(k)) = k /\ \A i \in 1 .. k : Fresh(k)[i] = taken + i
  BY <1>0, FreshFollows DEF Follows
<1>3. CallsInv'
  BY <1>0, <1>1, <1>2, TurnKeeps
<1>4. EndsAtEof
  <2> SUFFICES ASSUME call'.state = "returned", call.n = 0 \/ Len(out') < call.n
               PROVE  FALSE
    BY DEF EndsAtEof
  <2>1. call.n \in Nat /\ Len(out) \in Nat /\ call.state # "returned"
    BY CallFields DEF Running
  <2>2. Len(out') = Len(out) + k
    BY <1>0, <1>2, GetsLength
  <2>3. k = call.n - Len(out)
    BY <1>0, <2>1 DEF Turn
  <2> QED
    BY <1>0, <2>1, <2>2, <2>3
<1>5. BufInv'
  BY <1>0, ReadDirectlyKeeps
<1> QED
  BY <1>3, <1>4, <1>5

LEMMA FeedMoreKeeps ==
  ASSUME BufInv, CallsInv, Running, use' = use, NEW k \in Lengths, FeedMore(k)
  PROVE  BufInv' /\ CallsInv' /\ EndsAtEof
<1>1. call' = call /\ out' = out /\ taken' = taken /\ FeedFromIo(k)
  BY DEF FeedMore, FeedFromIo, Quiet
<1>2. CallsInv'
  BY <1>1 DEF CallsInv, TakenIsOut, AllOrNothing, Running
<1> QED
  BY <1>1, <1>2, FeedFromIoKeeps DEF EndsAtEof, Running

LEMMA TakeAllKeeps ==
  ASSUME BufInv, CallsInv, Running, use' = use, TakeAll
  PROVE  BufInv' /\ CallsInv' /\ EndsAtEof
<1> DEFINE k == call.n
<1>a. /\ call.op \in {"read_all", "skip_all"} /\ k <= Readable /\ Read(k)
      /\ Gets(FirstBytes(k)) /\ call' = [call EXCEPT !.state = "returned"]
      /\ taken' = taken + k
  BY DEF TakeAll, End, Read
<1>0. k \in Nat /\ taken \in Nat
  BY CallFields, HeadFacts
<1>1. /\ call' \in [op : Methods \cup {"none"}, n : ReadSizes \cup {0},
                    from : Bytes, state : Outcomes]
      /\ call'.op = call.op /\ call'.from = call.from /\ call'.state = "returned"
      /\ call'.n = call.n
  BY <1>a, <1>0, CallFields DEF Outcomes
<1> HIDE DEF k
<1>2. /\ FirstBytes(k) \in Seq(Bytes) /\ Len(FirstBytes(k)) = k
      /\ \A i \in 1 .. k : FirstBytes(k)[i] = taken + i
  BY <1>a, <1>0, FirstBytesAre
<1>3. TakenIsOut' /\ out' \in Seq(Bytes) /\ Len(out') = Len(out) + k
  BY <1>a, <1>0, <1>1, <1>2, GetsKeeps
<1>4. Len(out) = 0
  BY <1>a, <1>0 DEF CallsInv, AllOrNothing, Running
<1>5. Len(out') = call'.n
  BY <1>a, <1>0, <1>1, <1>3, <1>4 DEF k
<1>6. CallsInv'
  BY <1>a, <1>0, <1>1, <1>3, <1>5 DEF CallsInv, AllOrNothing, Running
<1>7. BufInv'
  BY <1>a, <1>0, ReadKeeps
<1>8. EndsAtEof
  BY <1>a, <1>1 DEF EndsAtEof
<1> QED
  BY <1>6, <1>7, <1>8

LEMMA CallEndsKeeps ==
  ASSUME BufInv, CallsInv, Running, use' = use, AtEnd \/ IoRaises
  PROVE  BufInv' /\ CallsInv' /\ EndsAtEof
<1>0. UNCHANGED vars /\ out' = out /\ taken' = taken /\ written' = written
  BY DEF AtEnd, IoRaises, vars
<1>1. PICK outcome \in Outcomes :
        /\ call' = [call EXCEPT !.state = outcome]
        /\ call.op \in {"read_all", "skip_all"} => outcome # "returned"
        /\ outcome # "running"
        /\ outcome = "returned" /\ call.op \in {"read", "skip"} =>
             TopReadable = 0 /\ (HasIo => written = MaxBytes)
  BY DEF AtEnd, IoRaises, End, Outcomes
<1>2. /\ call' \in [op : Methods \cup {"none"}, n : ReadSizes \cup {0},
                    from : Bytes, state : Outcomes]
      /\ call'.op = call.op /\ call'.from = call.from /\ call'.state = outcome
      /\ call'.n = call.n
  BY <1>1, CallFields
<1>3. CallsInv'
  BY <1>0, <1>1, <1>2 DEF CallsInv, TakenIsOut, AllOrNothing, Running
<1>4. EndsAtEof
  BY <1>0, <1>1, <1>2, HeadFacts DEF EndsAtEof
<1> QED
  BY <1>0, <1>3, <1>4, BufInvStutters
-----------------------------------------------------------------------------
(* The cache of hash keys. *)

\* The order of the keys: the shorter one first, then by the bytes.
Before(s, t) ==
    \/ Len(s) < Len(t)
    \/ /\ Len(s) = Len(t)
       /\ \E i \in 1 .. Len(s) : s[i] < t[i] /\ \A j \in 1 .. i - 1 : s[j] = t[j]

LEMMA FirstDifferenceIs ==
  ASSUME NEW s \in Key, NEW t \in Key, Len(s) = Len(t)
  PROVE  LET i == FirstDifference(s, t)
         IN  \/ i = 0 /\ s = t
             \/ i \in 1 .. Len(s) /\ s[i] # t[i] /\ \A j \in 1 .. i - 1 : s[j] = t[j]
<1> DEFINE n == Len(s)
           I == {i \in 1 .. n : s[i] # t[i]}
<1>0. /\ n \in Nat /\ s \in [1 .. n -> Nat] /\ t \in [1 .. n -> Nat]
  BY DEF Key
<1>1. FirstDifference(s, t) = IF I # {} THEN Min(I) ELSE 0
  <2> DEFINE d == [i \in DOMAIN s |-> s[i] - t[i]]
  <2>1. FirstDifference(s, t) =
          IF {i \in 1 .. Len(d) : d[i] # 0} # {} THEN Min({i \in 1 .. Len(d) : d[i] # 0}) ELSE 0
    BY DEF FirstDifference, SelectInSeq
  <2>2. Len(d) = n /\ \A i \in 1 .. n : d[i] # 0 <=> s[i] # t[i]
    BY <1>0
  <2> HIDE DEF d
  <2>3. {i \in 1 .. Len(d) : d[i] # 0} = I
    BY <2>2
  <2> HIDE DEF I
  <2> QED
    BY <2>1, <2>3
<1>2. CASE I = {}
  <2>1. s = t
    BY <1>0, <1>2
  <2> HIDE DEF I
  <2> QED
    BY <1>1, <1>2, <2>1
<1>3. CASE I # {}
  <2>1. I \in SUBSET Nat
    OBVIOUS
  <2>2. PICK x \in I : \A y \in I : x <= y
    <3> HIDE DEF I
    <3> QED
      BY <1>3, <2>1, Least
  <2>3. Min(I) \in I /\ \A y \in I : Min(I) <= y
    <3> HIDE DEF I
    <3> QED
      BY <2>2, Zenon DEF Min
  <2> DEFINE i == FirstDifference(s, t)
  <2>4. i \in I /\ \A y \in I : i <= y
    <3> HIDE DEF I
    <3> QED
      BY <1>1, <1>3, <2>3
  <2> HIDE DEF i
  <2>5. i \in 1 .. n /\ s[i] # t[i]
    BY <2>4
  <2>6. ASSUME NEW j \in 1 .. i - 1 PROVE s[j] = t[j]
    <3>1. j \in 1 .. n /\ ~ (i <= j)
      BY <1>0, <2>5
    <3> QED
      BY <2>4, <3>1
  <2> QED
    BY <2>5, <2>6 DEF i
<1> QED
  BY <1>2, <1>3

LEMMA CompareIs ==
  ASSUME NEW s \in Key, NEW t \in Key
  PROVE  /\ Compare(s, t) \in Int
         /\ Compare(s, t) = 0 <=> s = t
         /\ Compare(s, t) < 0 <=> Before(s, t)
         /\ Compare(s, t) > 0 <=> Before(t, s)
<1> DEFINE n == Len(s)
<1>0. n \in Nat /\ Len(t) \in Nat
  BY DEF Key
<1>1. CASE Len(s) # Len(t)
  <2>1. Compare(s, t) = Len(s) - Len(t)
    BY <1>1 DEF Compare
  <2> QED
    BY <1>0, <1>1, <2>1 DEF Before
<1>2. CASE Len(s) = Len(t)
  <2> DEFINE i == FirstDifference(s, t)
  <2>1. \/ i = 0 /\ s = t
        \/ i \in 1 .. Len(s) /\ s[i] # t[i] /\ \A j \in 1 .. i - 1 : s[j] = t[j]
    BY <1>2, FirstDifferenceIs
  <2>2. Compare(s, t) = IF i = 0 THEN 0 ELSE s[i] - t[i]
    BY <1>2 DEF Compare
  <2> HIDE DEF i
  <2>3. CASE i = 0
    <3>1. s = t
      BY <2>1, <2>3, <1>0
    <3>2. ~ Before(s, t) /\ ~ Before(t, s)
      <4>1. \A k \in 1 .. n : s[k] \in Nat
        BY DEF Key
      <4> QED
        BY <1>0, <3>1, <4>1 DEF Before
    <3> QED
      BY <2>2, <2>3, <3>1, <3>2
  <2>4. CASE i # 0
    <3>1. i \in 1 .. n /\ s[i] # t[i] /\ \A j \in 1 .. i - 1 : s[j] = t[j]
      BY <2>1, <2>4
    <3>2. \A k \in 1 .. n : s[k] \in Nat /\ t[k] \in Nat
      BY <1>2 DEF Key
    <3>3. Compare(s, t) = s[i] - t[i] /\ s # t
      BY <2>2, <2>4, <3>1
    <3>4. s[i] < t[i] <=> Before(s, t)
      <4>1. ASSUME s[i] < t[i] PROVE Before(s, t)
        BY <1>2, <3>1, <4>1 DEF Before
      <4>2. ASSUME Before(s, t) PROVE s[i] < t[i]
        <5>1. PICK k \in 1 .. n : s[k] < t[k] /\ \A j \in 1 .. k - 1 : s[j] = t[j]
          BY <1>0, <1>2, <4>2 DEF Before
        <5>2. k = i
          <6>1. k < i => k \in 1 .. i - 1
            BY <1>0, <3>1
          <6>2. i < k => i \in 1 .. k - 1
            BY <1>0, <3>1
          <6>3. ~ (k < i)
            BY <3>2, <5>1, <3>1, <6>1
          <6>4. ~ (i < k)
            BY <3>1, <5>1, <6>2
          <6> QED
            BY <1>0, <3>1, <6>3, <6>4
        <5> QED
          BY <5>1, <5>2
      <4> QED
        BY <4>1, <4>2
    <3>5. t[i] < s[i] <=> Before(t, s)
      <4>1. ASSUME t[i] < s[i] PROVE Before(t, s)
        <5>1. i \in 1 .. Len(t) /\ \A j \in 1 .. i - 1 : t[j] = s[j]
          BY <1>2, <3>1
        <5> QED
          BY <1>2, <5>1, <4>1 DEF Before
      <4>2. ASSUME Before(t, s) PROVE t[i] < s[i]
        <5>1. PICK k \in 1 .. n : t[k] < s[k] /\ \A j \in 1 .. k - 1 : t[j] = s[j]
          BY <1>0, <1>2, <4>2 DEF Before
        <5>2. k = i
          <6>1. k < i => k \in 1 .. i - 1
            BY <1>0, <3>1
          <6>2. i < k => i \in 1 .. k - 1
            BY <1>0, <3>1
          <6>3. ~ (k < i)
            BY <3>2, <5>1, <3>1, <6>1
          <6>4. ~ (i < k)
            BY <3>1, <5>1, <6>2
          <6> QED
            BY <1>0, <3>1, <6>3, <6>4
        <5> QED
          BY <5>1, <5>2
      <4> QED
        BY <4>1, <4>2
    <3> QED
      BY <3>1, <3>2, <3>3, <3>4, <3>5
  <2> QED
    BY <2>3, <2>4
<1> QED
  BY <1>1, <1>2

LEMMA BeforeIsTransitive ==
  ASSUME NEW a \in Key, NEW b \in Key, NEW c \in Key, Before(a, b), Before(b, c)
  PROVE  Before(a, c)
<1> DEFINE n == Len(a)
<1>0. Len(a) \in Nat /\ Len(b) \in Nat /\ Len(c) \in Nat
  BY DEF Key
<1>1. CASE Len(a) < Len(b) \/ Len(b) < Len(c)
  BY <1>0, <1>1 DEF Before
<1>2. CASE ~ (Len(a) < Len(b)) /\ ~ (Len(b) < Len(c))
  <2>1. /\ Len(b) = n /\ Len(c) = n
        /\ \A k \in 1 .. n : a[k] \in Nat /\ b[k] \in Nat /\ c[k] \in Nat
    <3>1. Len(b) = n /\ Len(c) = n
      BY <1>2 DEF Before
    <3>2. \A k \in 1 .. n : a[k] \in Nat
      BY DEF Key
    <3>3. \A k \in 1 .. n : b[k] \in Nat
      BY <3>1 DEF Key
    <3>4. \A k \in 1 .. n : c[k] \in Nat
      BY <3>1 DEF Key
    <3> QED
      BY <3>1, <3>2, <3>3, <3>4
  <2>2. PICK i \in 1 .. n : a[i] < b[i] /\ \A j \in 1 .. i - 1 : a[j] = b[j]
    BY <1>2 DEF Before
  <2>3. PICK k \in 1 .. n : b[k] < c[k] /\ \A j \in 1 .. k - 1 : b[j] = c[j]
    BY <1>2, <2>1 DEF Before
  <2> DEFINE m == IF i <= k THEN i ELSE k
  <2>4. m \in 1 .. n /\ m <= i /\ m <= k /\ (m = i \/ m = k)
    OBVIOUS
  <2> HIDE DEF m
  <2>5. a[m] < c[m]
    <3>1. m # i => a[m] = b[m]
      <4>1. m # i => m \in 1 .. i - 1
        BY <1>0, <2>4
      <4> QED
        BY <2>2, <4>1
    <3>2. m # k => b[m] = c[m]
      <4>1. m # k => m \in 1 .. k - 1
        BY <1>0, <2>4
      <4> QED
        BY <2>3, <4>1
    <3> QED
      BY <2>1, <2>2, <2>3, <2>4, <3>1, <3>2
  <2>6. ASSUME NEW j \in 1 .. m - 1 PROVE a[j] = c[j]
    <3>1. j \in 1 .. i - 1 /\ j \in 1 .. k - 1
      BY <1>0, <2>4
    <3> QED
      BY <2>2, <2>3, <3>1
  <2> QED
    BY <2>1, <2>4, <2>5, <2>6 DEF Before
<1> QED
  BY <1>1, <1>2

Ranges(c) == (1 .. Len(c) + 1) \X (0 .. Len(c))
Width(range) == IF range[2] < range[1] THEN 0 ELSE range[2] - range[1] + 1

\* One step of the search in the cache c, f being what the next steps return.
Probe(c, s, f, range) ==
    LET low == range[1]  high == range[2]
        mid == (low + high) \div 2
        cmp == Compare(s, c[mid])
    IN  IF cmp = 0 THEN [hit |-> TRUE, at |-> mid]
        ELSE IF cmp > 0
             THEN IF mid + 1 <= high THEN f[<<mid + 1, high>>]
                  ELSE [hit |-> FALSE, at |-> mid + 1]
             ELSE IF low <= mid - 1 THEN f[<<low, mid - 1>>]
                  ELSE [hit |-> FALSE, at |-> mid]

\* A step looks only at narrower ranges.
LEMMA ProbeNarrows ==
  ASSUME NEW c, Len(c) \in Nat, NEW s, NEW range \in Ranges(c), NEW f, NEW g,
         \A q \in Ranges(c) : Width(q) < Width(range) => f[q] = g[q]
  PROVE  Probe(c, s, f, range) = Probe(c, s, g, range)
<1> DEFINE n == Len(c)
           low == range[1]
           high == range[2]
           mid == (low + high) \div 2
           cmp == Compare(s, c[mid])
<1>1. low \in 1 .. n + 1 /\ high \in 0 .. n /\ range = <<low, high>>
  BY DEF Ranges
<1>2. n \in Nat /\ Width(range) = IF high < low THEN 0 ELSE high - low + 1
  BY DEF Width
<1> HIDE DEF n, low, high
<1>3. mid \in Nat /\ (low <= high => low <= mid /\ mid <= high) /\ (high < low => high <= mid /\ mid < low)
  BY <1>1, <1>2
<1> HIDE DEF mid, cmp
<1>4. ASSUME mid + 1 <= high
      PROVE  f[<<mid + 1, high>>] = g[<<mid + 1, high>>]
  <2>1. low <= mid /\ low <= high /\ mid + 1 \in 1 .. n + 1
    BY <1>1, <1>2, <1>3, <1>4
  <2>2. <<mid + 1, high>> \in Ranges(c)
    BY <1>1, <2>1 DEF Ranges, n
  <2>3. Width(<<mid + 1, high>>) = high - (mid + 1) + 1
    BY <1>1, <1>2, <1>3, <1>4 DEF Width
  <2>4. Width(<<mid + 1, high>>) < Width(range)
    BY <1>1, <1>2, <1>3, <2>1, <2>3
  <2> QED
    BY <2>2, <2>4
<1>5. ASSUME low <= mid - 1
      PROVE  f[<<low, mid - 1>>] = g[<<low, mid - 1>>]
  <2>1. mid <= high /\ low <= high /\ mid - 1 \in 0 .. n
    BY <1>1, <1>2, <1>3, <1>5
  <2>2. <<low, mid - 1>> \in Ranges(c)
    BY <1>1, <2>1 DEF Ranges, n
  <2>3. Width(<<low, mid - 1>>) = (mid - 1) - low + 1
    BY <1>1, <1>2, <1>3, <1>5 DEF Width
  <2>4. Width(<<low, mid - 1>>) < Width(range)
    BY <1>1, <1>2, <1>3, <2>1, <2>3
  <2> QED
    BY <2>2, <2>4
<1>6. \A h : Probe(c, s, h, range) =
               IF cmp = 0 THEN [hit |-> TRUE, at |-> mid]
               ELSE IF cmp > 0
                    THEN IF mid + 1 <= high THEN h[<<mid + 1, high>>]
                         ELSE [hit |-> FALSE, at |-> mid + 1]
                    ELSE IF low <= mid - 1 THEN h[<<low, mid - 1>>]
                         ELSE [hit |-> FALSE, at |-> mid]
  BY DEF Probe, cmp, mid, low, high
<1> QED
  BY <1>4, <1>5, <1>6

LEMMA SearchSolved ==
  ASSUME NEW c, Len(c) \in Nat, c # <<>>, NEW s
  PROVE  \E f : /\ Search(c, s) = f[<<1, Len(c)>>]
                /\ \A p \in Ranges(c) : f[p] = Probe(c, s, f, p)
<1> DEFINE n == Len(c)
           find == CHOOSE f : f = [range \in Ranges(c) |-> Probe(c, s, f, range)]
           Solves(f, d) == \A p \in Ranges(c) : Width(p) < d => f[p] = Probe(c, s, f, p)
           B == {d \in 0 .. n + 1 : ~ \E f : Solves(f, d)}
<1>0. n \in Nat /\ n + 1 \in Nat /\ 0 \in Nat
  OBVIOUS
<1>w. \A p \in Ranges(c) : Width(p) \in 0 .. n
  BY <1>0 DEF Ranges, Width
<1>1. 0 \notin B /\ B \subseteq 0 .. n + 1
  BY <1>w
<1> HIDE DEF n
<1>2. ASSUME NEW d \in 0 .. n + 1, d # 0, d - 1 \notin B
      PROVE  d \notin B
  <2>1. d - 1 \in 0 .. n + 1
    BY <1>0, <1>2
  <2>2. PICK f : Solves(f, d - 1)
    BY <1>2, <2>1
  <2> DEFINE g == [p \in Ranges(c) |-> Probe(c, s, f, p)]
  <2>3. \A p \in Ranges(c) : g[p] = Probe(c, s, f, p)
    OBVIOUS
  <2> HIDE DEF g
  <2>4. ASSUME NEW p \in Ranges(c), Width(p) < d
        PROVE  g[p] = Probe(c, s, g, p)
    <3>1. ASSUME NEW q \in Ranges(c), Width(q) < Width(p) PROVE f[q] = g[q]
      <4>1. Width(q) < d - 1
        BY <1>0, <1>w, <2>1, <2>4, <3>1
      <4> QED
        BY <2>2, <2>3, <4>1
    <3>2. Probe(c, s, f, p) = Probe(c, s, g, p)
      BY <3>1, ProbeNarrows
    <3> QED
      BY <2>3, <3>2
  <2> QED
    BY <2>4
<1>3. B = {}
  <2> HIDE DEF B
  <2> QED
    BY <1>0, <1>1, <1>2, Climb
<1>4. PICK f : Solves(f, n + 1)
  <2>0. n + 1 \in 0 .. n + 1
    BY <1>0
  <2>1. n + 1 \notin B
    <3> HIDE DEF B
    <3> QED
      BY <1>3
  <2> HIDE DEF Solves
  <2> QED
    BY <2>0, <2>1
<1>5. \A p \in Ranges(c) : f[p] = Probe(c, s, f, p)
  BY <1>0, <1>4, <1>w
<1> DEFINE g == [p \in Ranges(c) |-> Probe(c, s, f, p)]
<1>6. \A p \in Ranges(c) : g[p] = Probe(c, s, g, p)
  <2>1. \A p \in Ranges(c) : g[p] = f[p]
    BY <1>5
  <2> HIDE DEF g
  <2>2. \A p \in Ranges(c) : Probe(c, s, f, p) = Probe(c, s, g, p)
    BY <2>1, ProbeNarrows
  <2> QED
    BY <1>5, <2>1, <2>2
<1>7. g = [p \in Ranges(c) |-> g[p]]
  OBVIOUS
<1> HIDE DEF g
<1>8. g = [p \in Ranges(c) |-> Probe(c, s, g, p)]
  BY <1>6, <1>7
<1>9. find = [p \in Ranges(c) |-> Probe(c, s, find, p)]
  BY <1>8
<1>10. Search(c, s) = find[<<1, n>>]
  BY DEF Search, Probe, Ranges, n
<1> HIDE DEF find
<1>11. \A p \in Ranges(c) : find[p] = Probe(c, s, find, p)
  BY <1>9, Zenon
<1> QED
  BY <1>10, <1>11 DEF n

Sorted(c) == \A i, j \in 1 .. Len(c) : i < j => Before(c[i], c[j])

\* The place of s in the cache c, or the one where it belongs.
PlaceOf(c, s, r) ==
    /\ r.hit \in BOOLEAN
    /\ r.hit => r.at \in 1 .. Len(c) /\ c[r.at] = s
    /\ ~ r.hit => /\ r.at \in 1 .. Len(c) + 1
                  /\ \A i \in 1 .. Len(c) : i < r.at => Before(c[i], s)
                  /\ \A i \in 1 .. Len(c) : i >= r.at => Before(s, c[i])

\* s is not outside of the range.
Encloses(c, s, low, high) ==
    /\ \A i \in 1 .. Len(c) : i < low => Before(c[i], s)
    /\ \A i \in 1 .. Len(c) : i > high => Before(s, c[i])

LEMMA SearchFinds ==
  ASSUME NEW c \in Seq(Key), Sorted(c), NEW s \in Key
  PROVE  PlaceOf(c, s, Search(c, s))
<1> DEFINE n == Len(c)
<1>0. n \in Nat /\ \A i \in 1 .. n : c[i] \in Key
  OBVIOUS
<1>1. CASE c = <<>>
  <2>1. Search(c, s) = [hit |-> FALSE, at |-> 1] /\ Len(c) = 0
    BY <1>1, EmptySeq DEF Search
  <2> QED
    BY <2>1 DEF PlaceOf
<1>2. CASE c # <<>>
  <2>1. PICK f : /\ Search(c, s) = f[<<1, n>>]
                 /\ \A p \in Ranges(c) : f[p] = Probe(c, s, f, p)
    BY <1>0, <1>2, SearchSolved
  <2> DEFINE Fails(d) == \E low \in 1 .. n, high \in 1 .. n :
                           /\ low <= high /\ d = high - low /\ Encloses(c, s, low, high)
                           /\ ~ PlaceOf(c, s, f[<<low, high>>])
             B == {d \in Nat : Fails(d)}
  <2>2. B = {}
    <3> SUFFICES ASSUME B # {} PROVE FALSE
      OBVIOUS
    <3>1. B \in SUBSET Nat
      OBVIOUS
    <3>2. PICK d \in B : \A e \in B : d <= e
      <4> HIDE DEF B
      <4> QED
        BY <3>1, Least
    <3>3. PICK low \in 1 .. n, high \in 1 .. n :
            /\ low <= high /\ d = high - low /\ Encloses(c, s, low, high)
            /\ ~ PlaceOf(c, s, f[<<low, high>>])
      OBVIOUS
    <3>4. ASSUME NEW lo \in 1 .. n, NEW hi \in 1 .. n, lo <= hi, hi - lo < high - low,
                 Encloses(c, s, lo, hi)
          PROVE  PlaceOf(c, s, f[<<lo, hi>>])
      <4> SUFFICES ASSUME ~ PlaceOf(c, s, f[<<lo, hi>>]) PROVE FALSE
        OBVIOUS
      <4> HIDE DEF n
      <4>0. hi - lo \in Nat
        BY <1>0, <3>4
      <4> DEFINE e == hi - lo
      <4>e. e \in Nat /\ e = hi - lo
        BY <4>0
      <4> HIDE DEF e
      <4>1. Fails(e)
        BY <3>4, <4>e
      <4>2. e \in B
        <5> HIDE DEF Fails
        <5> QED
          BY <4>e, <4>1
      <4> HIDE DEF B
      <4>3. d <= e /\ d = high - low /\ e < high - low
        BY <3>2, <3>3, <3>4, <4>e, <4>2
      <4> QED
        BY <1>0, <4>e, <4>3
    <3> DEFINE mid == (low + high) \div 2
               cmp == Compare(s, c[mid])
               r == f[<<low, high>>]
    <3> HIDE DEF B, Fails
    <3>5. mid \in 1 .. n /\ low <= mid /\ mid <= high
      BY <1>0, <3>3
    <3>6. r = IF cmp = 0 THEN [hit |-> TRUE, at |-> mid]
              ELSE IF cmp > 0
                   THEN IF mid + 1 <= high THEN f[<<mid + 1, high>>]
                        ELSE [hit |-> FALSE, at |-> mid + 1]
                   ELSE IF low <= mid - 1 THEN f[<<low, mid - 1>>]
                        ELSE [hit |-> FALSE, at |-> mid]
      <4>1. <<low, high>> \in Ranges(c)
        BY <1>0 DEF Ranges
      <4>2. r = Probe(c, s, f, <<low, high>>)
        BY <2>1, <4>1
      <4> QED
        BY <4>2 DEF Probe
    <3> HIDE DEF mid
    <3>7. /\ cmp \in Int /\ (cmp = 0 <=> s = c[mid])
          /\ (cmp < 0 <=> Before(s, c[mid])) /\ (cmp > 0 <=> Before(c[mid], s))
      BY <1>0, <3>5, CompareIs
    <3> HIDE DEF cmp, r
    <3>8. CASE cmp = 0
      <4>1. r = [hit |-> TRUE, at |-> mid] /\ c[mid] = s
        BY <3>6, <3>7, <3>8
      <4>2. PlaceOf(c, s, r)
        BY <3>5, <4>1 DEF PlaceOf
      <4> QED
        BY <3>3, <4>2 DEF r
    <3>9. CASE cmp > 0
      <4>1. \A i \in 1 .. n : i < mid + 1 => Before(c[i], s)
        <5> SUFFICES ASSUME NEW i \in 1 .. n, i < mid + 1 PROVE Before(c[i], s)
          OBVIOUS
        <5>1. i = mid \/ i < mid
          BY <3>5
        <5>2. CASE i < mid
          BY <1>0, <3>5, <3>7, <3>9, <5>2, BeforeIsTransitive DEF Sorted
        <5> QED
          BY <3>7, <3>9, <5>1, <5>2
      <4>2. CASE mid + 1 <= high
        <5>1. r = f[<<mid + 1, high>>] /\ mid + 1 \in 1 .. n /\ high - (mid + 1) < high - low
          BY <1>0, <3>3, <3>5, <3>6, <3>9, <4>2
        <5>2. Encloses(c, s, mid + 1, high)
          BY <3>3, <4>1 DEF Encloses
        <5> QED
          BY <3>3, <3>4, <4>2, <5>1, <5>2 DEF r
      <4>3. CASE ~ (mid + 1 <= high)
        <5>1. r = [hit |-> FALSE, at |-> mid + 1] /\ mid = high
          BY <3>5, <3>6, <3>9, <4>3
        <5>2. \A i \in 1 .. n : i >= mid + 1 => Before(s, c[i])
          BY <3>3, <3>5, <5>1 DEF Encloses
        <5>3. PlaceOf(c, s, r)
          BY <1>0, <3>5, <4>1, <5>1, <5>2 DEF PlaceOf
        <5> QED
          BY <3>3, <5>3 DEF r
      <4> QED
        BY <4>2, <4>3
    <3>10. CASE cmp < 0
      <4>0. ~ (cmp = 0) /\ ~ (cmp > 0)
        BY <3>7, <3>10
      <4>1. \A i \in 1 .. n : i > mid - 1 => Before(s, c[i])
        <5> SUFFICES ASSUME NEW i \in 1 .. n, i > mid - 1 PROVE Before(s, c[i])
          OBVIOUS
        <5>1. i = mid \/ mid < i
          BY <3>5
        <5>2. CASE mid < i
          BY <1>0, <3>5, <3>7, <3>10, <5>2, BeforeIsTransitive DEF Sorted
        <5> QED
          BY <3>7, <3>10, <5>1, <5>2
      <4>2. CASE low <= mid - 1
        <5>0. r = f[<<low, mid - 1>>]
          BY <3>6, <4>0, <4>2
        <5>1. r = f[<<low, mid - 1>>] /\ mid - 1 \in 1 .. n /\ (mid - 1) - low < high - low
          BY <1>0, <3>3, <3>5, <4>2, <5>0
        <5>2. Encloses(c, s, low, mid - 1)
          BY <3>3, <4>1 DEF Encloses
        <5> QED
          BY <3>3, <3>4, <4>2, <5>1, <5>2 DEF r
      <4>3. CASE ~ (low <= mid - 1)
        <5>0. r = [hit |-> FALSE, at |-> mid]
          BY <3>6, <4>0, <4>3
        <5>1. r = [hit |-> FALSE, at |-> mid] /\ mid = low
          BY <1>0, <3>5, <4>3, <5>0
        <5>2. \A i \in 1 .. n : i < mid => Before(c[i], s)
          BY <3>3, <3>5, <5>1 DEF Encloses
        <5>3. \A i \in 1 .. n : i >= mid => Before(s, c[i])
          BY <3>5, <4>1
        <5>4. PlaceOf(c, s, r)
          BY <1>0, <3>5, <5>1, <5>2, <5>3 DEF PlaceOf
        <5> QED
          BY <3>3, <5>4 DEF r
      <4> QED
        BY <4>2, <4>3
    <3> QED
      BY <3>7, <3>8, <3>9, <3>10
  <2>3. n > 0 /\ 1 \in 1 .. n /\ n \in 1 .. n /\ 1 <= n /\ n - 1 \in Nat
    BY <1>0, <1>2, EmptySeq
  <2>4. Encloses(c, s, 1, n)
    BY <1>0 DEF Encloses
  <2>5. PlaceOf(c, s, f[<<1, n>>])
    <3> SUFFICES ASSUME ~ PlaceOf(c, s, f[<<1, n>>]) PROVE FALSE
      OBVIOUS
    <3>1. Fails(n - 1)
      BY <2>3, <2>4
    <3>2. n - 1 \in B
      BY <2>3, <3>1
    <3> QED
      BY <2>2, <3>2
  <2> QED
    BY <2>1, <2>5
<1> QED
  BY <1>1, <1>2

\* What the cache is after a fetch, and what the fetch gives.
LEMMA CachedIs ==
  ASSUME NEW c \in Seq(Key), Sorted(c), Len(c) <= Capacity, NEW s \in Key
  PROVE  /\ Cached(c, s) \in Seq(Key) /\ Len(Cached(c, s)) <= Capacity
         /\ Sorted(Cached(c, s)) /\ Fetched(c, s) = s
<1> DEFINE place == Search(c, s)
           n == Len(c)
<1>0. n \in Nat /\ Capacity \in Nat /\ \A i \in 1 .. n : c[i] \in Key
  BY CapacityAssumption
<1>1. PlaceOf(c, s, place)
  BY SearchFinds
<1> HIDE DEF place
<1>2. Fetched(c, s) = s
  <2>1. Fetched(c, s) = IF place.hit THEN c[place.at] ELSE s
    BY DEF Fetched, place
  <2> QED
    BY <1>1, <2>1 DEF PlaceOf
<1>3. Cached(c, s) = IF place.hit \/ n >= Capacity THEN c ELSE InsertAt(c, place.at, s)
  BY DEF Cached, place
<1>4. CASE place.hit \/ n >= Capacity
  BY <1>2, <1>3, <1>4
<1>5. CASE ~ (place.hit \/ n >= Capacity)
  <2> DEFINE k == place.at
             left == SubSeq(c, 1, k - 1)
             right == SubSeq(c, k, n)
             c2 == Cached(c, s)
  <2>1. /\ k \in 1 .. n + 1
        /\ \A i \in 1 .. n : i < k => Before(c[i], s)
        /\ \A i \in 1 .. n : i >= k => Before(s, c[i])
    BY <1>1, <1>5 DEF PlaceOf
  <2>2. c2 = left \o <<s>> \o right
    BY <1>3, <1>5 DEF InsertAt
  <2> HIDE DEF c2, k, n
  <2>3. /\ left \in Seq(Key) /\ Len(left) = k - 1
        /\ \A i \in 1 .. k - 1 : left[i] = c[i]
    BY <1>0, <2>1 DEF n
  <2>4. /\ right \in Seq(Key) /\ Len(right) = n - k + 1
        /\ \A i \in 1 .. n - k + 1 : right[i] = c[k + i - 1]
    BY <1>0, <2>1 DEF n
  <2> HIDE DEF left, right
  <2>5. <<s>> \in Seq(Key) /\ Len(<<s>>) = 1 /\ <<s>>[1] = s
    OBVIOUS
  <2> DEFINE front == left \o <<s>>
  <2>6. /\ front \in Seq(Key) /\ Len(front) = k
        /\ \A i \in 1 .. k - 1 : front[i] = c[i]
        /\ front[k] = s
    <3>1. /\ front \in Seq(Key) /\ Len(front) = Len(left) + 1
          /\ \A i \in 1 .. Len(left) + 1 : front[i] = IF i <= Len(left) THEN left[i] ELSE <<s>>[i - Len(left)]
      BY <2>3, <2>5, ConcatProperties
    <3> HIDE DEF front
    <3>2. \A i \in 1 .. k : front[i] = IF i <= k - 1 THEN left[i] ELSE <<s>>[i - (k - 1)]
      BY <1>0, <2>1, <2>3, <3>1
    <3>3. \A i \in 1 .. k - 1 : i \in 1 .. k /\ i <= k - 1
      BY <1>0, <2>1
    <3>4. k \in 1 .. k /\ ~ (k <= k - 1) /\ k - (k - 1) = 1
      BY <1>0, <2>1
    <3>5. \A i \in 1 .. k - 1 : front[i] = c[i]
      BY <2>3, <3>2, <3>3
    <3>6. front[k] = s
      BY <3>2, <3>4
    <3>7. Len(front) = k
      BY <1>0, <2>1, <2>3, <3>1
    <3> QED
      BY <3>1, <3>5, <3>6, <3>7
  <2> HIDE DEF front
  <2>7. /\ c2 \in Seq(Key) /\ Len(c2) = n + 1
        /\ \A i \in 1 .. n + 1 : c2[i] = IF i <= k THEN front[i] ELSE right[i - k]
    <3>1. /\ front \o right \in Seq(Key) /\ Len(front \o right) = Len(front) + Len(right)
          /\ \A i \in 1 .. Len(front) + Len(right) :
               (front \o right)[i] = IF i <= Len(front) THEN front[i] ELSE right[i - Len(front)]
      BY <2>4, <2>6, ConcatProperties
    <3>2. c2 = front \o right
      BY <2>2 DEF front
    <3>3. Len(front) + Len(right) = n + 1
      BY <1>0, <2>1, <2>4, <2>6
    <3> QED
      BY <2>6, <3>1, <3>2, <3>3
  <2>8. /\ \A i \in 1 .. n + 1 : i < k => c2[i] = c[i] /\ i \in 1 .. n
        /\ c2[k] = s
        /\ \A i \in 1 .. n + 1 : i > k => c2[i] = c[i - 1] /\ i - 1 \in 1 .. n
    <3>1. ASSUME NEW i \in 1 .. n + 1, i < k PROVE c2[i] = c[i] /\ i \in 1 .. n
      <4>1. i <= k /\ i \in 1 .. k - 1 /\ i \in 1 .. n
        BY <1>0, <2>1, <3>1
      <4> QED
        BY <2>6, <2>7, <4>1
    <3>2. c2[k] = s
      BY <1>0, <2>1, <2>6, <2>7
    <3>3. ASSUME NEW i \in 1 .. n + 1, i > k PROVE c2[i] = c[i - 1] /\ i - 1 \in 1 .. n
      <4>1. ~ (i <= k) /\ i - k \in 1 .. n - k + 1 /\ k + (i - k) - 1 = i - 1 /\ i - 1 \in 1 .. n
        BY <1>0, <2>1, <3>3
      <4>2. c2[i] = right[i - k]
        BY <2>7, <4>1
      <4>3. right[i - k] = c[k + (i - k) - 1]
        BY <2>4, <4>1
      <4> QED
        BY <4>1, <4>2, <4>3
    <3> QED
      BY <3>1, <3>2, <3>3
  <2>9. Sorted(c2)
    <3> SUFFICES ASSUME NEW i \in 1 .. n + 1, NEW j \in 1 .. n + 1, i < j
                 PROVE  Before(c2[i], c2[j])
      BY <2>7 DEF Sorted
    <3>1. CASE i < k /\ j < k
      BY <2>8, <3>1 DEF Sorted, n
    <3>2. CASE i < k /\ j = k
      BY <2>1, <2>8, <3>2
    <3>3. CASE i < k /\ j > k
      <4>1. i < j - 1
        BY <1>0, <2>1, <3>3
      <4> QED
        BY <2>8, <3>3, <4>1 DEF Sorted, n
    <3>4. CASE i = k
      <4>1. j > k /\ j - 1 >= k
        BY <1>0, <2>1, <3>4
      <4> QED
        BY <2>1, <2>8, <3>4, <4>1
    <3>5. CASE i > k
      <4>1. j > k /\ i - 1 < j - 1
        BY <1>0, <2>1, <3>5
      <4> QED
        BY <2>8, <3>5, <4>1 DEF Sorted, n
    <3> QED
      BY <1>0, <2>1, <3>1, <3>2, <3>3, <3>4, <3>5
  <2>10. Len(c2) <= Capacity
    BY <1>0, <1>5, <2>7
  <2> QED
    BY <1>2, <2>7, <2>9, <2>10 DEF c2
<1> QED
  BY <1>4, <1>5

KeysInv ==
    /\ cache \in Seq(Key) /\ Len(cache) <= Capacity /\ Sorted(cache)
    /\ key \in [bytes : Key, given : Key] /\ key.given = key.bytes

LEMMA TopBytesAre ==
  ASSUME BufInv, NEW n \in Nat, n > 0, n <= TopReadable
  PROVE  TopBytes(n) \in Key
<1>1. PICK pos : Places(pos)
  BY PlacesExist
<1>2. chunks # <<>> /\ n <= UnreadSize(1) /\ 1 \in 1 .. Len(chunks)
  <2>1. chunks # <<>>
    BY DEF TopReadable
  <2>2. Shape(chunks, room, rmem_at, rmem_last)
    BY HeadFacts
  <2>3. Len(chunks) \in 1 .. Len(chunks)
    BY <2>1, <2>2, ShapeFacts
  <2> QED
    BY <2>1, <2>3 DEF TopReadable
<1>3. /\ Unread(1) \in Seq(Bytes) /\ UnreadSize(1) \in Nat /\ Len(Unread(1)) = UnreadSize(1)
      /\ \A j \in 1 .. UnreadSize(1) : Unread(1)[j] = Starts(pos)[1] + j
  BY <1>1, <1>2, UnreadIs DEF Places, BufInv
<1>4. Starts(pos)[1] = taken /\ taken \in Nat
  BY <1>1, Contents, HeadFacts DEF Places, BufInv
<1> DEFINE u == Unread(1)
           s == SubSeq(u, 1, n)
<1>5. \A i \in 1 .. n : s[i] \in Bytes /\ s[i] > 0
  <2> SUFFICES ASSUME NEW i \in 1 .. n PROVE s[i] \in Bytes /\ s[i] > 0
    OBVIOUS
  <2>1. i \in 1 .. UnreadSize(1)
    BY <1>2, <1>3
  <2>2. u[i] = taken + i /\ u[i] \in Bytes
    BY <1>3, <1>4, <2>1
  <2> HIDE DEF u
  <2>3. s[i] = u[i]
    BY <1>2, <1>3 DEF u
  <2> QED
    BY <1>4, <2>2, <2>3
<1> HIDE DEF s
<1>6. \A i \in 1 .. n : Letter[s[i]] \in Nat
  <2> SUFFICES ASSUME NEW i \in 1 .. n PROVE Letter[s[i]] \in Nat
    OBVIOUS
  <2>1. s[i] \in 1 .. Len(Letter)
    <3> DEFINE x == s[i]
    <3>1. x \in 0 .. MaxBytes /\ x > 0
      BY <1>5 DEF Bytes
    <3> HIDE DEF x
    <3>2. Len(Letter) \in Nat /\ Len(Letter) >= MaxBytes /\ MaxBytes \in Nat
      BY ReadsAssumption, BufferAssumption
    <3>3. x \in 1 .. Len(Letter)
      BY <3>1, <3>2
    <3> QED
      BY <3>3 DEF x
  <2> QED
    BY <2>1, ReadsAssumption
<1>7. TopBytes(n) = [i \in 1 .. n |-> Letter[s[i]]]
  BY DEF TopBytes, s
<1> QED
  BY <1>6, <1>7 DEF Key

LEMMA ReadKeyKeeps ==
  ASSUME BufInv, CallsInv, KeysInv, use' = use, NEW n \in Lengths, ReadKey(n)
  PROVE  BufInv' /\ CallsInv' /\ KeysInv'
<1> DEFINE s == TopBytes(n)
<1>0. /\ n \in Nat /\ n > 0 /\ ~ Running /\ n <= TopReadable /\ Read(n)
      /\ cache' = Cached(cache, s)
      /\ key' = [bytes |-> s, given |-> Fetched(cache, s)]
      /\ call' = call /\ out' = out
  BY BufferAssumption DEF ReadKey
<1>1. s \in Key
  BY <1>0, TopBytesAre
<1> HIDE DEF s
<1>2. /\ cache' \in Seq(Key) /\ Len(cache') <= Capacity /\ Sorted(cache')
      /\ Fetched(cache, s) = s
  BY <1>0, <1>1, CachedIs DEF KeysInv
<1>3. KeysInv'
  BY <1>0, <1>1, <1>2 DEF KeysInv
<1>4. CallsInv'
  BY <1>0 DEF CallsInv, TakenIsOut, AllOrNothing, Running
<1> QED
  BY <1>0, <1>3, <1>4, ReadKeeps
-----------------------------------------------------------------------------
(* All reads and writes. *)

ReadsInv == BufInv /\ CallsInv /\ KeysInv

LEMMA StartKeeps ==
  ASSUME BufInv, CallsInv, NEW op \in Methods, NEW n \in ReadSizes, Start(op, n)
  PROVE  BufInv' /\ CallsInv'
<1>0. /\ call' = [op |-> op, n |-> n, from |-> taken, state |-> "running"]
      /\ out' = <<>> /\ UNCHANGED vars /\ taken' = taken /\ use' = use
  BY DEF Start, vars
<1>1. taken \in Bytes /\ taken \in Nat
  BY HeadFacts DEF BufInv, CountsInv, Bytes
<1>2. n \in Nat
  BY ReadsAssumption
<1>3. /\ call' \in [op : Methods \cup {"none"}, n : ReadSizes \cup {0},
                    from : Bytes, state : Outcomes]
      /\ call'.op = op /\ call'.n = n /\ call'.from = taken /\ call'.state = "running"
  BY <1>0, <1>1 DEF Outcomes
<1>4. out' \in Seq(Bytes) /\ Len(out') = 0 /\ DOMAIN out' = {}
  BY <1>0
<1>5. CallsInv'
  BY <1>0, <1>1, <1>2, <1>3, <1>4 DEF CallsInv, TakenIsOut, AllOrNothing, Running
<1> QED
  BY <1>0, <1>5, BufInvStutters

LEMMA TurnsKeep ==
  ASSUME BufInv, CallsInv, Running, use' = use, Turns \/ IoRaises
  PROVE  BufInv' /\ CallsInv' /\ EndsAtEof
<1>1. CASE TakeBuffered
  BY <1>1, TakeBufferedKeeps
<1>2. CASE TakeAll
  BY <1>2, TakeAllKeeps
<1>3. CASE \E k \in Lengths : TakeFromIo(k)
  BY <1>3, TakeFromIoKeeps
<1>4. CASE \E k \in Lengths : FeedMore(k)
  BY <1>4, FeedMoreKeeps
<1>5. CASE AtEnd \/ IoRaises
  BY <1>5, CallEndsKeeps
<1> QED
  BY <1>1, <1>2, <1>3, <1>4, <1>5 DEF Turns

LEMMA ReadsInvInit == ReadsInit /\ SoundUse => ReadsInv
<1> SUFFICES ASSUME ReadsInit, SoundUse PROVE ReadsInv
  OBVIOUS
<1>1. BufInv
  BY BufInvInit DEF ReadsInit
<1>2. CallsInv
  <2>1. /\ call \in [op : Methods \cup {"none"}, n : ReadSizes \cup {0},
                     from : Bytes, state : Outcomes]
        /\ call.op = "none" /\ ~ Running
    BY BufferAssumption DEF ReadsInit, NoCall, Bytes, Outcomes, Running
  <2>2. out = <<>> /\ out \in Seq(Bytes) /\ DOMAIN out = {}
    BY DEF ReadsInit
  <2> QED
    BY <2>1, <2>2 DEF CallsInv, TakenIsOut, AllOrNothing
<1>3. KeysInv
  <2>1. cache = <<>> /\ Len(cache) = 0 /\ key = [bytes |-> <<>>, given |-> <<>>]
    BY EmptySeq DEF ReadsInit
  <2> QED
    BY <2>1, CapacityAssumption DEF KeysInv, Sorted, Key
<1> QED
  BY <1>1, <1>2, <1>3 DEF ReadsInv

\* What a step does beside keeping the invariant.
LEMMA ReadsInvNext ==
  ASSUME ReadsInv, [ReadsNext]_readvars
  PROVE  ReadsInv' /\ (Running => EndsAtEof)
<1>0. BufInv /\ CallsInv /\ KeysInv
  BY DEF ReadsInv
<1>1. CASE \E op \in Methods, n \in ReadSizes : Start(op, n)
  <2>1. PICK op \in Methods, n \in ReadSizes : Start(op, n)
    BY <1>1
  <2>2. BufInv' /\ CallsInv'
    BY <1>0, <2>1, StartKeeps
  <2>3. ~ Running /\ cache' = cache /\ key' = key
    BY <2>1 DEF Start
  <2> QED
    BY <1>0, <2>2, <2>3 DEF ReadsInv, KeysInv
<1>2. CASE Running /\ (Turns \/ IoRaises) /\ UNCHANGED <<use, cache, key>>
  <2>1. BufInv' /\ CallsInv' /\ EndsAtEof
    BY <1>0, <1>2, TurnsKeep
  <2> QED
    BY <1>0, <1>2, <2>1 DEF ReadsInv, KeysInv
<1>3. CASE /\ Running /\ UNCHANGED <<use, call, out, cache, key>>
           /\ \E p \in Page : ForeignAlloc(p) \/ ForeignFree(p)
  <2>1. BufInv' /\ taken' = taken
    BY <1>0, <1>3, ForeignAllocKeeps, ForeignFreeKeeps DEF ForeignAlloc, ForeignFree
  <2>2. CallsInv' /\ EndsAtEof
    BY <1>0, <1>3, <2>1 DEF CallsInv, TakenIsOut, AllOrNothing, Running, EndsAtEof
  <2> QED
    BY <1>0, <1>3, <2>1, <2>2 DEF ReadsInv, KeysInv
<1>4. CASE \E n \in Lengths : ReadKey(n) /\ UNCHANGED use
  BY <1>0, <1>4, ReadKeyKeeps DEF ReadsInv, ReadKey
<1>5. CASE ~ Running /\ Next /\ UNCHANGED <<call, out, cache, key>>
  <2>1. BufInv'
    BY <1>0, <1>5, NextKeeps
  <2>2. CallsInv'
    BY <1>0, <1>5 DEF CallsInv, TakenIsOut, AllOrNothing, Running
  <2> QED
    BY <1>0, <1>5, <2>1, <2>2 DEF ReadsInv, KeysInv
<1>6. CASE UNCHANGED readvars
  <2>1. UNCHANGED vars /\ UNCHANGED <<call, out, cache, key>>
    BY <1>6 DEF readvars
  <2>2. taken' = taken
    BY <2>1 DEF vars
  <2>3. CallsInv' /\ (Running => EndsAtEof)
    BY <1>0, <2>1, <2>2 DEF CallsInv, TakenIsOut, AllOrNothing, Running, EndsAtEof
  <2> QED
    BY <1>0, <2>1, <2>3, BufInvStutters DEF ReadsInv, KeysInv
<1> QED
  BY <1>1, <1>2, <1>3, <1>4, <1>5, <1>6 DEF ReadsNext
-----------------------------------------------------------------------------
(* What follows from the invariant. *)

LEMMA InvTypes == ReadsInv => ReadsTypeOK
<1> SUFFICES ASSUME ReadsInv PROVE ReadsTypeOK
  OBVIOUS
<1>0. BufInv /\ CallsInv /\ KeysInv
  BY DEF ReadsInv
<1>1. /\ use \in Uses /\ chunks \in Seq(Chunk) /\ read \in Nat /\ room \in Nat
      /\ rmem_at \in Page \cup {NULL} /\ rmem_last \in 0 .. PageSize
      /\ live \subseteq Page /\ foreign \subseteq live /\ memory \in Memories
  BY <1>0 DEF BufInv, ListInv, List, Shape
<1>2. memory \in [Page -> Seq(Bytes)]
  <2>1. [1 .. PageSize -> Bytes] \subseteq Seq(Bytes)
    <3>1. PageSize \in Nat
      BY BufferAssumption
    <3> QED
      BY <3>1
  <2> QED
    BY <1>1, <2>1 DEF Memories
<1>3. {written, taken, flushed} \subseteq 0 .. MaxBytes
  BY <1>0, HeadFacts DEF BufInv, CountsInv
<1>4. pc \in {"idle", "write", "resume", "write_long"}
      /\ resume \in [op : {"none", "grow", "long"}, n : Nat]
  BY <1>0 DEF BufInv, CallInv
<1>5. text \in Seq(Bytes)
  <2>1. CASE pc \in {"idle", "resume"}
    <3>1. text = <<>>
      BY <1>0, <2>1 DEF BufInv, CallInv
    <3> QED
      BY <3>1
  <2>2. CASE pc = "write"
    <3> DEFINE c == taken + (Size(chunks[1]) - read)
    <3>1. /\ text = Count(taken, c) /\ taken \in Nat /\ written \in Nat /\ MaxBytes \in Nat
          /\ c <= written /\ written <= MaxBytes
          /\ Size(chunks[1]) \in Nat /\ read < Size(chunks[1]) /\ read \in Nat
      BY <1>0, <2>2, HeadFacts DEF BufInv, CallInv, CountsInv
    <3>2. c \in Nat /\ taken <= c /\ c <= MaxBytes
      BY <3>1
    <3> HIDE DEF c
    <3>3. Count(taken, c) \in Seq(Bytes)
      BY <3>1, <3>2, CountIs
    <3> QED
      BY <3>1, <3>3
  <2>3. CASE pc = "write_long"
    BY <1>0, <2>3 DEF BufInv, CallInv, Follows
  <2> QED
    BY <1>4, <2>1, <2>2, <2>3
<1>6. TypeOK
  BY <1>1, <1>2, <1>3, <1>4, <1>5 DEF TypeOK
<1> QED
  BY <1>0, <1>6 DEF ReadsTypeOK, CallsInv, KeysInv

LEMMA InvList == BufInv => ListSound
<1> SUFFICES ASSUME BufInv PROVE ListSound
  OBVIOUS
<1>0. /\ Shape(chunks, room, rmem_at, rmem_last) /\ Held(chunks, live \ foreign)
      /\ DOMAIN chunks = 1 .. Len(chunks) /\ Len(chunks) \in Nat
  BY ShapeFacts DEF BufInv, ListInv, List
<1>1. PICK pos : Places(pos)
  BY PlacesExist
<1>2. FifoIntact
  BY <1>1, Contents DEF FifoIntact, Places, BufInv, Count
<1>3. NoHollowChunk
  BY <1>0, <1>1, UnreadIs DEF NoHollowChunk, Places, BufInv
<1>4. PagesOwned
  BY <1>0 DEF PagesOwned, Held
<1>5. RoomIsFree
  <2> SUFFICES ASSUME chunks # <<>>, Last(chunks).kind = "page"
               PROVE  /\ Last(chunks).last + room = PageSize
                      /\ \A i \in 1 .. Len(chunks) - 1 :
                           chunks[i].at = Last(chunks).at => chunks[i].last <= Last(chunks).first
    BY DEF RoomIsFree
  <2>1. Last(chunks) = chunks[Len(chunks)] /\ Len(chunks) \in 1 .. Len(chunks)
    BY <1>0, ShapeFacts
  <2>2. Last(chunks).last + room = PageSize
    BY <1>0, <2>1 DEF Shape, TailFits
  <2>3. ASSUME NEW i \in 1 .. Len(chunks) - 1, chunks[i].at = Last(chunks).at
        PROVE  chunks[i].last <= Last(chunks).first
    <3>1. i \in 1 .. Len(chunks) /\ i < Len(chunks)
      BY <1>0
    <3>2. Formed(chunks[i]) /\ Formed(chunks[Len(chunks)])
      BY <1>0, <2>1, <3>1 DEF Shape
    <3>3. chunks[i].kind = "page"
      BY <2>1, <2>3, <3>2, BufferAssumption DEF Formed
    <3> QED
      BY <1>0, <2>1, <2>3, <3>1, <3>3 DEF Shape, Apart
  <2> QED
    BY <2>2, <2>3
<1> QED
  BY <1>2, <1>3, <1>4, <1>5 DEF ListSound

LEMMA InvStream == BufInv => IoGetsStream
<1> SUFFICES ASSUME BufInv PROVE IoGetsStream
  OBVIOUS
<1>1. CASE pc = "write"
  <2> DEFINE c == taken + (Size(chunks[1]) - read)
  <2>1. /\ text = Count(taken, c) /\ taken \in Nat /\ flushed \in Nat /\ taken <= flushed
        /\ Size(chunks[1]) \in Nat /\ read < Size(chunks[1]) /\ read \in Nat
    BY <1>1, HeadFacts DEF BufInv, CallInv, CountsInv
  <2>2. c \in Nat /\ taken < c /\ taken <= c
    BY <2>1
  <2> HIDE DEF c
  <2>6. /\ Count(taken, c) \in Seq(Nat) /\ Len(Count(taken, c)) = c - taken
        /\ \A j \in 1 .. c - taken : Count(taken, c)[j] = taken + j
    BY <2>1, <2>2, CountIs
  <2>3. /\ text \in Seq(Nat) /\ Len(text) = c - taken
        /\ \A j \in 1 .. c - taken : text[j] = taken + j
    BY <2>1, <2>6
  <2>4. Ascending(text)
    BY <2>1, <2>2, <2>3, SMTT(30) DEF Ascending
  <2>5. text # <<>> /\ text[1] <= flushed + 1
    <3>1. 1 \in 1 .. c - taken
      BY <2>1, <2>2
    <3>2. text[1] = taken + 1 /\ Len(text) # 0
      BY <2>3, <2>1, <2>2, <3>1
    <3> QED
      BY <2>1, <2>3, <3>2, EmptySeq
  <2> QED
    BY <2>4, <2>5 DEF IoGetsStream
<1>2. CASE pc = "write_long"
  <2>1. /\ chunks = <<>> /\ Follows(text, written) /\ taken = written /\ taken <= flushed
        /\ written \in Nat /\ flushed \in Nat
    BY <1>2, HeadFacts DEF BufInv, CallInv, CountsInv
  <2>2. Len(text) > 0 /\ text \in Seq(Bytes) /\ \A k \in 1 .. Len(text) : text[k] = written + k
    BY <2>1 DEF Follows
  <2>3. text # <<>> /\ text[1] <= flushed + 1
    BY <2>1, <2>2, EmptySeq
  <2>4. Ascending(text)
    <3> SUFFICES ASSUME NEW i \in 1 .. Len(text) - 1 PROVE text[i + 1] = text[i] + 1
      BY DEF Ascending
    <3>1. i \in 1 .. Len(text) /\ i + 1 \in 1 .. Len(text)
      BY <2>2
    <3> QED
      BY <2>1, <2>2, <3>1
  <2> QED
    BY <2>3, <2>4 DEF IoGetsStream
<1> QED
  BY <1>1, <1>2 DEF IoGetsStream

LEMMA InvCalls == ReadsInv => CallsExact
BY DEF ReadsInv, CallsInv, CallsExact

LEMMA InvKeys == ReadsInv => KeysInterned
<1> SUFFICES ASSUME ReadsInv PROVE KeysInterned
  OBVIOUS
<1>1. cache \in Seq(Key) /\ Sorted(cache) /\ key.given = key.bytes
  BY DEF ReadsInv, KeysInv
<1>2. CacheSorted
  <2> SUFFICES ASSUME NEW i \in DOMAIN cache, NEW j \in DOMAIN cache, i < j
               PROVE  Compare(cache[i], cache[j]) < 0
    BY DEF CacheSorted
  <2>1. i \in 1 .. Len(cache) /\ j \in 1 .. Len(cache) /\ cache[i] \in Key /\ cache[j] \in Key
    BY <1>1
  <2> QED
    BY <1>1, <2>1, CompareIs DEF Sorted
<1> QED
  BY <1>1, <1>2 DEF KeysInterned

LEMMA ReadsInvAlways == ReadsSpec /\ SoundUse => []ReadsInv
<1>1. ReadsInit /\ SoundUse => ReadsInv
  BY ReadsInvInit
<1>2. ReadsInv /\ [ReadsNext]_readvars => ReadsInv'
  BY ReadsInvNext
<1> QED
  BY <1>1, <1>2, PTL DEF ReadsSpec
-----------------------------------------------------------------------------
(* The buffer is a queue. *)

\* What the list comes to, in terms of the counts.
IsQueue ==
    /\ FlattenSeq([i \in DOMAIN chunks |-> Unread(i)]) = Count(taken, written)
    /\ Readable = written - taken
    /\ taken \in Nat /\ written \in Nat /\ flushed \in Nat
    /\ taken <= written /\ taken <= flushed /\ flushed <= written

LEMMA InvQueue == BufInv => IsQueue
<1> SUFFICES ASSUME BufInv PROVE IsQueue
  OBVIOUS
<1>1. PICK pos : Places(pos)
  BY PlacesExist
<1>2. FlattenSeq([i \in DOMAIN chunks |-> Unread(i)]) = Count(taken, written)
  BY <1>1, Contents DEF Places, BufInv
<1> QED
  BY <1>2, HeadFacts DEF IsQueue, BufInv, CountsInv

\* What a step does to the counts: bytes are put, pass by the empty queue, or
\* are delivered and then taken or not.
Stays == UNCHANGED <<written, taken, flushed>>
Puts == \E n \in 1 .. MaxBytes : written' = written + n /\ UNCHANGED <<taken, flushed>>
Passes == /\ taken = written
          /\ \E n \in 1 .. MaxBytes :
               written' = written + n /\ taken' = taken + n /\ flushed' = written + n
Delivers == /\ written' = written
            /\ \E n \in 1 .. written - taken :
                 /\ flushed' = IF flushed >= taken + n THEN flushed ELSE taken + n
                 /\ taken' = taken + n \/ taken' = taken
QueueStep == Stays \/ Puts \/ Passes \/ Delivers

LEMMA QueueStepMaps ==
  ASSUME IsQueue, IsQueue', QueueStep
  PROVE  [Queue!Next]_<<FlattenSeq([i \in DOMAIN chunks |-> Unread(i)]), written, flushed>>
<1> DEFINE q == FlattenSeq([i \in DOMAIN chunks |-> Unread(i)])
<1>0. /\ q = Count(taken, written) /\ q' = Count(taken', written')
      /\ taken \in Nat /\ written \in Nat /\ flushed \in Nat /\ taken <= written
      /\ taken' \in Nat /\ written' \in Nat /\ taken' <= written'
  BY DEF IsQueue
<1> HIDE DEF q
<1>6. /\ Count(taken, written) \in Seq(Nat) /\ Len(Count(taken, written)) = written - taken
      /\ \A j \in 1 .. written - taken : Count(taken, written)[j] = taken + j
  BY <1>0, CountIs
<1>1. /\ q \in Seq(Nat) /\ Len(q) = written - taken
      /\ \A j \in 1 .. written - taken : q[j] = taken + j
  BY <1>0, <1>6
<1>2. CASE Stays
  <2>1. q' = q /\ written' = written /\ flushed' = flushed
    BY <1>0, <1>2 DEF Stays
  <2> QED
    BY <2>1 DEF q
<1>3. CASE Puts
  <2>1. PICK n \in 1 .. MaxBytes : written' = written + n /\ UNCHANGED <<taken, flushed>>
    BY <1>3 DEF Puts
  <2> DEFINE t == [i \in 1 .. n |-> written + i]
             c == written + n
  <2>2. n \in Nat /\ c \in Nat /\ written <= c /\ t \in Seq(Nat) /\ Len(t) = c - written
        /\ \A j \in 1 .. c - written : t[j] = written + j
    BY <1>0, BufferAssumption
  <2>3. written' = c /\ taken' = taken /\ flushed' = flushed
    BY <2>1
  <2> HIDE DEF t, c
  <2>4. Count(taken, c) = Count(taken, written) \o t
    <3>1. /\ taken <= written /\ written <= c /\ Len(t) = c - written
          /\ \A j \in 1 .. c - written : t[j] = written + j
      BY <1>0, <2>2
    <3>2. taken \in Nat /\ written \in Nat /\ c \in Nat /\ t \in Seq(Nat)
      BY <1>0, <2>2
    <3> QED
      BY <3>1, <3>2, CountOn, ZenonT(30)
  <2>5. q' = q \o t
    BY <1>0, <2>3, <2>4
  <2>6. Queue!Put(n)
    BY <2>1, <2>5 DEF Queue!Put, q, t
  <2> QED
    BY <2>6 DEF Queue!Next
<1>4. CASE Passes
  <2>1. PICK n \in 1 .. MaxBytes :
          written' = written + n /\ taken' = taken + n /\ flushed' = written + n
    BY <1>4 DEF Passes
  <2>2. q = <<>> /\ q' = <<>>
    <3>1. taken = written /\ taken' = written' /\ written' \in Nat
      BY <1>0, <1>4, <2>1 DEF Passes
    <3>2. Count(written, written) = <<>> /\ Count(written', written') = <<>>
      BY <1>0, <3>1, CountIs, EmptySeq
    <3> QED
      BY <1>0, <3>1, <3>2
  <2>3. Queue!Pass(n)
    BY <2>1, <2>2 DEF Queue!Pass, q
  <2> QED
    BY <2>3 DEF Queue!Next
<1>5. CASE Delivers
  <2>1. PICK n \in 1 .. written - taken :
          /\ flushed' = IF flushed >= taken + n THEN flushed ELSE taken + n
          /\ taken' = taken + n \/ taken' = taken
    BY <1>5 DEF Delivers
  <2>2. written' = written
    BY <1>5 DEF Delivers
  <2>3. n \in 1 .. Len(q) /\ n \in Nat /\ q[n] = taken + n /\ taken + n \in Nat
    BY <1>0, <1>1
  <2>4. Queue!Deliver(n)
    <3>1. flushed' = Max({flushed, q[n]})
      BY <1>0, <2>1, <2>3, MaxOfTwo
    <3> QED
      BY <2>2, <3>1 DEF Queue!Deliver, Queue!Max, Max, q
  <2>5. CASE taken' = taken
    <3>1. q' = q
      BY <1>0, <2>2, <2>5
    <3>2. Queue!Repeat(n)
      BY <2>4, <3>1 DEF Queue!Repeat, q
    <3> QED
      BY <2>3, <3>2 DEF Queue!Next, q
  <2>6. CASE taken' = taken + n
    <3> DEFINE a == taken + n
               rest == SubSeq(q, n + 1, Len(q))
    <3>1. a \in Nat /\ a <= written /\ taken' = a
      BY <1>0, <2>1, <2>6
    <3>2. /\ rest \in Seq(Nat) /\ Len(rest) = written - a
          /\ \A j \in 1 .. written - a : rest[j] = q[n + j]
      <4>1. n \in Int /\ 0 <= n /\ n <= Len(q) /\ q \in Seq(Nat) /\ Len(q) = written - taken
        BY <1>0, <1>1, <2>3
      <4> HIDE DEF q
      <4>2. /\ SubSeq(q, n + 1, Len(q)) \in Seq(Nat)
            /\ Len(SubSeq(q, n + 1, Len(q))) = Len(q) - n
            /\ \A j \in 1 .. Len(q) - n : SubSeq(q, n + 1, Len(q))[j] = q[n + j]
        BY <4>1, SuffixIs
      <4>3. Len(q) - n = written - a
        BY <1>0, <4>1
      <4> QED
        BY <4>2, <4>3
    <3>3. \A j \in 1 .. written - a : n + j \in 1 .. written - taken
                                     /\ taken + (n + j) = a + j
      BY <1>0, <2>3
    <3> HIDE DEF a, rest
    <3>4. \A j \in 1 .. Len(rest) : rest[j] = a + j
      BY <1>1, <3>2, <3>3
    <3>5. rest = Count(a, a + Len(rest))
      BY <3>1, <3>2, <3>4, CountUnique
    <3>6. a + Len(rest) = written
      BY <1>0, <3>1, <3>2
    <3>7. q' = rest
      BY <1>0, <2>2, <3>1, <3>5, <3>6
    <3>8. Queue!Take(n)
      BY <2>4, <3>7 DEF Queue!Take, q, rest
    <3> QED
      BY <2>3, <3>8 DEF Queue!Next, q
  <2> QED
    BY <2>1, <2>5, <2>6
<1> QED
  BY <1>2, <1>3, <1>4, <1>5 DEF QueueStep

LEMMA AcceptPuts ==
  ASSUME BufInv, NEW n \in Nat, n > 0, Accept(n), UNCHANGED <<taken, flushed>>
  PROVE  QueueStep
<1>1. written \in Nat /\ MaxBytes \in Nat
  BY HeadFacts
<1>2. n \in 1 .. MaxBytes /\ written' = written + n
  BY <1>1 DEF Accept
<1> QED
  BY <1>2 DEF QueueStep, Puts

LEMMA BeginFlushStays ==
  ASSUME NEW then, BeginFlush(then)
  PROVE  QueueStep
BY DEF BeginFlush, QueueStep, Stays

LEMMA WritesStep ==
  ASSUME BufInv,
         \/ \E n \in Lengths : AppendCopy(n) \/ EnsureWrite(n) \/ FeedFromIo(n)
         \/ \E n \in LongLengths : AppendReference(n)
  PROVE  QueueStep
<1>1. /\ \A n \in Lengths : n \in Nat /\ n > 0
      /\ \A n \in LongLengths : n \in Nat /\ n > 0
  BY BufferAssumption
<1>2. CASE \E n \in Lengths : AppendCopy(n)
  <2>1. PICK n \in Lengths : AppendCopy(n)
    BY <1>2
  <2>2. CASE Accept(n) /\ Quiet
    BY <1>1, <2>2, AcceptPuts DEF Quiet
  <2>3. CASE BeginFlush([op |-> "grow", n |-> n])
    BY <2>3, BeginFlushStays
  <2> QED
    BY <2>1, <2>2, <2>3 DEF AppendCopy
<1>3. CASE \E n \in Lengths : EnsureWrite(n)
  <2>1. PICK n \in Lengths : EnsureWrite(n)
    BY <1>3
  <2>2. CASE Accept(n) /\ Quiet
    BY <1>1, <2>2, AcceptPuts DEF Quiet
  <2>3. CASE BeginFlush([op |-> "grow", n |-> n])
    BY <2>3, BeginFlushStays
  <2> QED
    BY <2>1, <2>2, <2>3 DEF EnsureWrite
<1>4. CASE \E n \in Lengths : FeedFromIo(n)
  BY <1>1, <1>4, AcceptPuts DEF FeedFromIo, Quiet
<1>5. CASE \E n \in LongLengths : AppendReference(n)
  BY <1>1, <1>5, AcceptPuts DEF AppendReference, Quiet
<1> QED
  BY <1>2, <1>3, <1>4, <1>5

LEMMA LongStep ==
  ASSUME BufInv, NEW n \in Nat, n > 0, LongAfterFlush(n), UNCHANGED <<taken, flushed>>
  PROVE  QueueStep
<1>1. CASE UNCHANGED written
  BY <1>1 DEF QueueStep, Stays
<1>2. CASE Accept(n)
  BY <1>2, AcceptPuts
<1> QED
  BY <1>1, <1>2 DEF LongAfterFlush

LEMMA AppendLongStep ==
  ASSUME BufInv, NEW n \in LongLengths, AppendLong(n)
  PROVE  QueueStep
<1>1. n \in Nat /\ n > 0
  BY BufferAssumption
<1>2. CASE BeginFlush([op |-> "long", n |-> n])
  BY <1>2, BeginFlushStays
<1>3. CASE LongAfterFlush(n) /\ UNCHANGED <<foreign, taken, flushed, resume>>
  BY <1>1, <1>3, LongStep
<1> QED
  BY <1>2, <1>3 DEF AppendLong

LEMMA ResumeStep ==
  ASSUME BufInv, Resume
  PROVE  QueueStep
<1>1. resume.n \in Nat /\ resume.n > 0 /\ UNCHANGED <<taken, flushed>>
  BY DEF BufInv, CallInv, Resume
<1>2. CASE Accept(resume.n)
  BY <1>1, <1>2, AcceptPuts
<1>3. CASE LongAfterFlush(resume.n)
  BY <1>1, <1>3, LongStep
<1> QED
  BY <1>2, <1>3 DEF Resume

LEMMA ReadStep ==
  ASSUME BufInv, NEW n \in Nat, Read(n)
  PROVE  QueueStep
<1>1. /\ n <= written - taken /\ taken' = taken + n /\ written' = written
      /\ flushed' = Max({flushed, taken + n})
      /\ taken \in Nat /\ written \in Nat /\ flushed \in Nat /\ taken <= flushed
  BY HeadFacts DEF Read, BufInv, CountsInv
<1>2. flushed' = IF flushed >= taken + n THEN flushed ELSE taken + n
  BY <1>1, MaxOfTwo
<1>3. CASE n = 0
  BY <1>1, <1>2, <1>3 DEF QueueStep, Stays
<1>4. CASE n # 0
  <2>1. n \in 1 .. written - taken
    BY <1>1, <1>4
  <2> QED
    BY <1>1, <1>2, <2>1 DEF QueueStep, Delivers
<1> QED
  BY <1>3, <1>4

LEMMA ReadDirectlyStep ==
  ASSUME BufInv, NEW n \in Nat, n > 0, ReadDirectly(n)
  PROVE  QueueStep
<1>1. /\ taken = written /\ taken' = taken + n /\ written' = written + n
      /\ flushed' = Max({flushed, taken + n}) /\ written + n <= MaxBytes
      /\ written \in Nat /\ flushed \in Nat /\ flushed <= written /\ MaxBytes \in Nat
  BY HeadFacts DEF ReadDirectly, Accept, BufInv, CountsInv
<1>2. flushed' = written + n /\ n \in 1 .. MaxBytes
  BY <1>1, MaxOfTwo
<1> QED
  BY <1>1, <1>2 DEF QueueStep, Passes

LEMMA ClearStep ==
  ASSUME BufInv, Clear
  PROVE  QueueStep
<1>1. /\ chunks # <<>> /\ taken' = written /\ flushed' = written /\ written' = written
      /\ taken \in Nat /\ written \in Nat /\ flushed \in Nat /\ taken <= written
      /\ taken <= flushed /\ flushed <= written
  BY HeadFacts DEF Clear, BufInv, CountsInv
<1>2. CASE taken = written
  <2>1. taken' = taken /\ flushed' = flushed
    BY <1>1, <1>2
  <2> QED
    BY <1>1, <2>1 DEF QueueStep, Stays
<1>3. CASE taken # written
  <2> DEFINE n == written - taken
  <2>1. n \in 1 .. written - taken /\ taken + n = written
    BY <1>1, <1>3
  <2>2. flushed' = IF flushed >= taken + n THEN flushed ELSE taken + n
    BY <1>1, <2>1
  <2> QED
    BY <1>1, <2>1, <2>2 DEF QueueStep, Delivers
<1> QED
  BY <1>2, <1>3

\* The chunk a call of the write method is about.
LEMMA WriteDelivers ==
  ASSUME BufInv, pc = "write", Received, written' = written,
         taken' = taken + UnreadSize(1) \/ taken' = taken
  PROVE  QueueStep
<1> DEFINE n == Size(chunks[1]) - read
           c == taken + n
<1>1. /\ text = Count(taken, c) /\ taken \in Nat /\ written \in Nat /\ flushed \in Nat
      /\ Size(chunks[1]) \in Nat /\ read < Size(chunks[1]) /\ read \in Nat
      /\ c <= written /\ UnreadSize(1) = n
  BY HeadFacts DEF BufInv, CallInv, UnreadSize
<1>2. n \in 1 .. written - taken /\ c \in Nat /\ taken < c /\ taken <= taken /\ c = taken + n
  BY <1>1
<1> HIDE DEF n, c
<1>3. flushed' = IF flushed >= c THEN flushed ELSE c
  BY <1>1, <1>2, TextReceived
<1> QED
  BY <1>1, <1>2, <1>3 DEF QueueStep, Delivers

LEMMA LongWriteStep ==
  ASSUME BufInv, LongWriteReturns
  PROVE  QueueStep
<1> DEFINE n == Len(text)
<1>0. /\ chunks = <<>> /\ Follows(text, written) /\ written + n <= MaxBytes
      /\ written' = written + n /\ taken' = taken + n /\ Received
  BY DEF LongWriteReturns, BufInv, CallInv, Accept
<1>1. /\ taken = written /\ written \in Nat /\ flushed \in Nat /\ flushed <= written
      /\ MaxBytes \in Nat /\ n \in Nat /\ n > 0
      /\ text \in Seq(Nat) /\ \A j \in 1 .. Len(text) : text[j] = written + j
  <2>1. Bytes \subseteq Nat
    BY DEF Bytes
  <2>2. text \in Seq(Nat)
    BY <1>0, <2>1, SeqMonotonic DEF Follows
  <2> QED
    BY <1>0, <2>2, HeadFacts DEF BufInv, CountsInv, Follows
<1>2. text = Count(written, written + n)
  BY <1>1, CountUnique
<1> HIDE DEF n
<1> DEFINE c == written + n
<1>3. c \in Nat /\ written < c /\ text = Count(written, c) /\ c <= written' /\ flushed < c
      /\ taken <= written
  BY <1>0, <1>1, <1>2
<1>4. c = written + n
  OBVIOUS
<1> HIDE DEF c
<1>5. flushed' = IF flushed >= c THEN flushed ELSE c
  BY <1>0, <1>1, <1>3, TextReceived
<1>6. flushed' = written + n /\ n \in 1 .. MaxBytes
  BY <1>0, <1>1, <1>3, <1>4, <1>5
<1> QED
  BY <1>0, <1>1, <1>6 DEF QueueStep, Passes

LEMMA BufferStep ==
  ASSUME BufInv, Step
  PROVE  QueueStep
<1>0. Lengths \subseteq Nat \ {0} /\ MaxBytes \in Nat
  BY BufferAssumption
<1>1. CASE \E n \in Lengths : AppendCopy(n) \/ EnsureWrite(n) \/ FeedFromIo(n)
  BY <1>1, WritesStep
<1>2. CASE \E n \in Lengths : ReadDirectly(n)
  BY <1>0, <1>2, ReadDirectlyStep
<1>3. CASE \E n \in LongLengths : AppendReference(n)
  BY <1>3, WritesStep
<1>4. CASE \E n \in LongLengths : AppendLong(n)
  BY <1>4, AppendLongStep
<1>5. CASE \E n \in 1 .. MaxBytes : Read(n)
  BY <1>5, ReadStep
<1>6. CASE Clear
  BY <1>6, ClearStep
<1>7. CASE Flush
  BY <1>7, BeginFlushStays DEF Flush
<1>8. CASE WriteReturns
  BY <1>8, WriteDelivers DEF WriteReturns
<1>9. CASE Resume
  BY <1>9, ResumeStep
<1>10. CASE LongWriteReturns
  BY <1>10, LongWriteStep
<1>11. CASE WriteRaises
  <2>1. CASE UNCHANGED flushed
    BY <1>11, <2>1 DEF WriteRaises, QueueStep, Stays
  <2>2. CASE pc = "write" /\ Received
    BY <1>11, <2>2, WriteDelivers DEF WriteRaises
  <2> QED
    BY <1>11, <2>1, <2>2 DEF WriteRaises
<1>12. CASE \E p \in Page : ForeignAlloc(p) \/ ForeignFree(p)
  BY <1>12 DEF ForeignAlloc, ForeignFree, QueueStep, Stays
<1> QED
  BY <1>1, <1>2, <1>3, <1>4, <1>5, <1>6, <1>7, <1>8, <1>9, <1>10, <1>11, <1>12
     DEF Step, FlushTurn

LEMMA ReadsStep ==
  ASSUME ReadsInv, [ReadsNext]_readvars
  PROVE  QueueStep
<1>0. BufInv /\ CallsInv
  BY DEF ReadsInv
<1>1. CASE UNCHANGED vars
  BY <1>1 DEF vars, QueueStep, Stays
<1>2. CASE Running /\ (Turns \/ IoRaises)
  <2>1. CASE TakeBuffered
    <3>1. PICK k : Read(k) /\ k = Min({Limit, Readable})
      BY <2>1 DEF TakeBuffered
    <3>2. Limit \in Nat /\ Readable \in Nat
      <4>1. Limit \in Nat
        BY <1>0, <1>2, <2>1, LimitIs DEF TakeBuffered
      <4>2. Readable = written - taken /\ taken <= written /\ taken \in Nat /\ written \in Nat
        BY <1>0, HeadFacts
      <4> QED
        BY <4>1, <4>2
    <3>3. k \in Nat
      BY <3>1, <3>2, MinOfTwo
    <3> QED
      BY <1>0, <3>1, <3>3, ReadStep
  <2>2. CASE TakeAll
    BY <1>0, <2>2, CallFields, ReadStep DEF TakeAll
  <2>3. CASE \E k \in Lengths : TakeFromIo(k)
    BY <1>0, <2>3, BufferAssumption, ReadDirectlyStep DEF TakeFromIo
  <2>4. CASE \E k \in Lengths : FeedMore(k)
    BY <1>0, <2>4, WritesStep DEF FeedMore
  <2>5. CASE AtEnd \/ IoRaises
    BY <1>1, <2>5 DEF AtEnd, IoRaises
  <2> QED
    BY <1>2, <2>1, <2>2, <2>3, <2>4, <2>5 DEF Turns
<1>3. CASE \E p \in Page : ForeignAlloc(p) \/ ForeignFree(p)
  BY <1>3 DEF ForeignAlloc, ForeignFree, QueueStep, Stays
<1>4. CASE \E n \in Lengths : ReadKey(n)
  <2>1. Lengths \subseteq Nat
    BY BufferAssumption
  <2> QED
    BY <1>0, <1>4, <2>1, ReadStep DEF ReadKey
<1>5. CASE Next
  BY <1>0, <1>5, BufferStep DEF Next
<1> QED
  BY <1>1, <1>2, <1>3, <1>4, <1>5 DEF ReadsNext, readvars, Start
-----------------------------------------------------------------------------
(* The theorems.  SoundUse leaves out the uses that MCBuffer_long shows to   *)
(* lose a page.                                                              *)

\* Every variable of a buffer and of the reads of more than one step has its
\* type; the cache of keys never outgrows its capacity.
THEOREM BufferTypeCorrect == ReadsSpec /\ SoundUse => []ReadsTypeOK
BY ReadsInvAlways, InvTypes, PTL

\* Whatever the rest of the process does with the pages of the pool, the chunks
\* hold the bytes that were accepted and have not left, in order; none of them
\* is used up, each page is given back once, and the next write hits no byte.
THEOREM ListsAreSound == ReadsSpec /\ SoundUse => []ListSound
<1>1. ReadsInv => ListSound
  BY InvList DEF ReadsInv
<1> QED
  BY <1>1, ReadsInvAlways, PTL

\* Every call of an IO's write method goes on where the IO's copy of the stream
\* ends, or repeats what it has.
THEOREM StreamsAreComplete == ReadsSpec /\ SoundUse => []IoGetsStream
<1>1. ReadsInv => IoGetsStream
  BY InvStream DEF ReadsInv
<1> QED
  BY <1>1, ReadsInvAlways, PTL

\* What a call of read and its kin takes is what it gives; a read_all or a
\* skip_all that fails has taken nothing.
THEOREM CallsAreExact == ReadsSpec /\ SoundUse => []CallsExact
BY ReadsInvAlways, InvCalls, PTL

\* The binary search in the cache of keys is right: the string that is given
\* has the bytes that were read, and the cache stays strictly sorted.
THEOREM KeysAreInterned == ReadsSpec /\ SoundUse => []KeysInterned
BY ReadsInvAlways, InvKeys, PTL

\* read and skip are short only when nothing is left, in the buffer or behind it.
THEOREM ShortReadsAreAtEof == ReadsSpec /\ SoundUse => ShortOnlyAtEof
<1>1. ReadsInv /\ IsQueue' /\ [ReadsNext]_readvars =>
        [Running /\ call'.op \in {"read", "skip"} /\ call'.state = "returned"
           /\ (call.n = 0 \/ Len(out') < call.n) =>
         Readable' = 0 /\ (HasIo => written' = MaxBytes)]_readvars
  <2> SUFFICES ASSUME ReadsInv, IsQueue', [ReadsNext]_readvars,
                      Running, call'.op \in {"read", "skip"}, call'.state = "returned",
                      call.n = 0 \/ Len(out') < call.n
               PROVE  Readable' = 0 /\ (HasIo => written' = MaxBytes)
    BY Zenon
  <2>1. EndsAtEof
    BY ReadsInvNext
  <2>2. written' = taken' /\ (HasIo => written' = MaxBytes)
    BY <2>1 DEF EndsAtEof
  <2>3. Readable' = written' - taken' /\ written' \in Nat
    BY DEF IsQueue
  <2>4. Readable' = 0
    <3> DEFINE r == Readable'
               w == written'
               t == taken'
    <3>1. r = w - t /\ w \in Nat /\ w = t
      BY <2>2, <2>3
    <3> HIDE DEF r, w, t
    <3>2. r = 0
      BY <3>1
    <3> QED
      BY <3>2 DEF r
  <2>5. HasIo => written' = MaxBytes
    BY <2>2, Zenon
  <2> QED
    BY <2>4, <2>5, Zenon
<1>2. ReadsInv => IsQueue
  BY InvQueue DEF ReadsInv
<1> QED
  BY <1>1, <1>2, ReadsInvAlways, PTL DEF ReadsSpec, ShortOnlyAtEof

\* A buffer, its flushes and its reads implement the queue of bytes.
THEOREM BuffersAreQueues == ReadsSpec /\ SoundUse => QueueSpec
<1> DEFINE q == FlattenSeq([i \in DOMAIN chunks |-> Unread(i)])
<1>1. ReadsInit => Queue!Init
  <2> SUFFICES ASSUME ReadsInit PROVE Queue!Init
    OBVIOUS
  <2>1. chunks = <<>> /\ written = 0 /\ taken = 0 /\ flushed = 0
    BY DEF ReadsInit, Init
  <2>2. q = <<>>
    BY <2>1 DEF FlattenSeq
  <2> QED
    BY <2>1, <2>2 DEF Queue!Init
<1>2. ReadsInv /\ IsQueue /\ IsQueue' /\ [ReadsNext]_readvars
        => [Queue!Next]_<<q, written, flushed>>
  BY ReadsStep, QueueStepMaps
<1>3. ReadsInv => IsQueue
  BY InvQueue DEF ReadsInv
<1> QED
  BY <1>1, <1>2, <1>3, ReadsInvAlways, PTL DEF ReadsSpec, QueueSpec, Queue!Spec
=============================================================================
