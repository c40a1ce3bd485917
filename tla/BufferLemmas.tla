----------------------------- MODULE BufferLemmas -----------------------------
(***************************************************************************)
(* Lemmas about lists of chunks, for any pages, page size and lengths:     *)
(* what the sums and the concatenation over a list come to, how much room  *)
(* doubling makes, and what each way to write and to consume does to the   *)
(* bytes of the list and to the pages under it.                            *)
(***************************************************************************)
EXTENDS Buffer, SequenceTheorems, WellFoundedInduction, TLAPS

-----------------------------------------------------------------------------
(* Recursive functions. *)

\* A nonempty set of natural numbers has a least element.
LEMMA Least ==
  ASSUME NEW S \in SUBSET Nat, S # {}
  PROVE  \E x \in S : \A y \in S : x <= y
<1>1. PICK x \in S : \A y \in S : <<y, x>> \notin OpToRel(<, Nat)
  BY NatLessThanWellFounded, WFMin
<1>2. \A y \in S : ~(y < x)
  BY <1>1, Zenon DEF OpToRel
<1> QED
  BY <1>2

\* Induction from m to k, for the set B of what fails.
LEMMA Climb ==
  ASSUME NEW m \in Nat, NEW k \in Nat, NEW B, B \subseteq m .. k, m \notin B,
         \A i \in m .. k : i # m /\ i - 1 \notin B => i \notin B
  PROVE  B = {}
<1> SUFFICES ASSUME B # {} PROVE FALSE
  OBVIOUS
<1>1. B \in SUBSET Nat
  OBVIOUS
<1>2. PICK i \in B : \A j \in B : i <= j
  BY <1>1, Least
<1> QED
  BY <1>2

LEMMA SumIs ==
  ASSUME NEW n \in Nat, NEW s \in [1 .. n + 1 -> Int], NEW d \in [1 .. n -> Int],
         \A i \in 1 .. n : s[i + 1] = s[i] + d[i], NEW k \in 0 .. n
  PROVE  SumUpTo(d, k) = s[k + 1] - s[1]
<1> DEFINE g == [i \in 0 .. k |-> s[i + 1] - s[1]]
           sum == CHOOSE f : f = [i \in 0 .. k |-> IF i = 0 THEN 0 ELSE f[i - 1] + d[i]]
<1>1. SumUpTo(d, k) = sum[k]
  BY DEF SumUpTo
<1>0. k \in Nat /\ s[1] \in Int /\ g[k] = s[k + 1] - s[1] /\ g[0] = 0
  OBVIOUS
<1>2. ASSUME NEW i \in 1 .. k
      PROVE  g[i] = g[i - 1] + d[i]
  <2>1. i \in 1 .. n /\ i - 1 \in 0 .. k /\ i \in 0 .. k /\ (i - 1) + 1 = i
    OBVIOUS
  <2>2. g[i - 1] = s[i] - s[1] /\ g[i] = s[i + 1] - s[1]
    BY <2>1
  <2>3. s[i + 1] = s[i] + d[i] /\ s[i] \in Int /\ d[i] \in Int
    BY <2>1
  <2> HIDE DEF g
  <2> QED
    BY <1>0, <2>2, <2>3, SMTT(30)
<1>3. sum = [i \in 0 .. k |-> IF i = 0 THEN 0 ELSE sum[i - 1] + d[i]]
  <2>1. g = [i \in 0 .. k |-> g[i]]
    OBVIOUS
  <2> HIDE DEF g
  <2>2. ASSUME NEW i \in 0 .. k
        PROVE  g[i] = IF i = 0 THEN 0 ELSE g[i - 1] + d[i]
    <3>1. i = 0 \/ i \in 1 .. k
      OBVIOUS
    <3> QED
      BY <1>0, <1>2, <3>1
  <2>3. g = [i \in 0 .. k |-> IF i = 0 THEN 0 ELSE g[i - 1] + d[i]]
    BY <2>1, <2>2
  <2> QED
    BY <2>3
<1> HIDE DEF g, sum
<1>4. \A i \in 0 .. k : sum[i] = IF i = 0 THEN 0 ELSE sum[i - 1] + d[i]
  BY <1>3, Zenon
<1>5. {i \in 0 .. k : sum[i] # g[i]} = {}
  <2> DEFINE B == {i \in 0 .. k : sum[i] # g[i]}
  <2>1. 0 \notin B /\ B \subseteq 0 .. k
    BY <1>0, <1>4
  <2>2. ASSUME NEW i \in 0 .. k, i # 0, i - 1 \notin B
        PROVE  i \notin B
    <3>1. i \in 1 .. k /\ i - 1 \in 0 .. k
      BY <2>2
    <3> QED
      BY <1>2, <1>4, <2>2, <3>1
  <2> HIDE DEF B
  <2>3. B = {}
    BY <1>0, <2>1, <2>2, Climb
  <2> QED
    BY <2>3 DEF B
<1>6. sum[k] = g[k]
  <2>1. k \in 0 .. k
    BY <1>0
  <2> QED
    BY <1>5, <2>1
<1> QED
  BY <1>0, <1>1, <1>6

LEMMA Rising ==
  ASSUME NEW n \in Nat, NEW s \in [1 .. n + 1 -> Int], \A i \in 1 .. n : s[i] <= s[i + 1]
  PROVE  \A i \in 1 .. n + 1 : s[1] <= s[i]
<1> DEFINE B == {i \in 1 .. n + 1 : ~(s[1] <= s[i])}
<1>1. 1 \notin B /\ B \subseteq 1 .. n + 1
  OBVIOUS
<1>2. ASSUME NEW i \in 1 .. n + 1, i # 1, i - 1 \notin B
      PROVE  i \notin B
  <2>1. i - 1 \in 1 .. n /\ (i - 1) + 1 = i
    BY <1>2
  <2>2. s[i - 1] <= s[i] /\ s[i - 1] \in Int /\ s[i] \in Int /\ s[1] \in Int
    BY <2>1
  <2>3. s[1] <= s[i - 1]
    BY <1>2, <2>1
  <2> QED
    BY <2>2, <2>3
<1>3. B = {}
  <2>1. 1 \in Nat /\ n + 1 \in Nat
    OBVIOUS
  <2> HIDE DEF B
  <2> QED
    BY <1>1, <1>2, <2>1, Climb
<1> QED
  BY <1>3

\* The numbers after a, up to c.
Count(a, c) == [j \in 1 .. c - a |-> a + j]

LEMMA CountOn ==
  \A a, b, c \in Nat, t \in Seq(Nat) :
    a <= b /\ b <= c /\ Len(t) = c - b /\ (\A j \in 1 .. c - b : t[j] = b + j)
    => Count(a, c) = Count(a, b) \o t
<1> SUFFICES ASSUME NEW a \in Nat, NEW b \in Nat, NEW c \in Nat, a <= b, b <= c,
                    NEW t \in Seq(Nat), Len(t) = c - b, \A j \in 1 .. c - b : t[j] = b + j
             PROVE  Count(a, c) = Count(a, b) \o t
  BY ZenonT(60)
<1> DEFINE u == [j \in 1 .. b - a |-> a + j]
           v == [j \in 1 .. c - a |-> a + j]
<1>1. /\ u \in Seq(Nat) /\ Len(u) = b - a
      /\ \A j \in 1 .. b - a : u[j] = a + j
  OBVIOUS
<1>2. /\ v \in Seq(Nat) /\ Len(v) = c - a
      /\ \A j \in 1 .. c - a : v[j] = a + j
  OBVIOUS
<1> HIDE DEF u, v
<1>3. /\ u \o t \in Seq(Nat) /\ Len(u \o t) = Len(u) + Len(t)
      /\ \A j \in 1 .. Len(u) + Len(t) :
           (u \o t)[j] = IF j <= Len(u) THEN u[j] ELSE t[j - Len(u)]
  BY <1>1, ConcatProperties
<1> DEFINE w == u \o t
<1> HIDE DEF w
<1>4. w \in Seq(Nat) /\ Len(w) = c - a
  BY <1>1, <1>3 DEF w
<1>5. ASSUME NEW j \in 1 .. c - a
      PROVE  w[j] = a + j
  <2>1. w[j] = IF j <= b - a THEN u[j] ELSE t[j - (b - a)]
    BY <1>1, <1>3, SMTT(30) DEF w
  <2>2. CASE j <= b - a
    BY <1>1, <2>1, <2>2
  <2>3. CASE ~(j <= b - a)
    <3>1. j - (b - a) \in 1 .. c - b
      BY <2>3
    <3> QED
      BY <2>1, <2>3, <3>1
  <2> QED
    BY <2>2, <2>3
<1>6. w = v
  BY <1>2, <1>4, <1>5, SeqEqual
<1> QED
  BY <1>6 DEF u, v, w, Count

LEMMA FlattenIs ==
  ASSUME NEW n \in Nat, NEW s \in [1 .. n + 1 -> Nat], NEW seqs \in [1 .. n -> Seq(Nat)],
         \A i \in 1 .. n : Len(seqs[i]) = s[i + 1] - s[i]
                         /\ \A j \in 1 .. Len(seqs[i]) : seqs[i][j] = s[i] + j
  PROVE  FlattenSeq(seqs) = Count(s[1], s[n + 1])
<1> DEFINE g == [i \in 1 .. n |-> Count(s[1], s[i + 1])]
           flat == CHOOSE f : f = [i \in 1 .. n |-> IF i = 1 THEN seqs[i] ELSE f[i - 1] \o seqs[i]]
<1>0. Len(seqs) = n
  OBVIOUS
<1>1. n # 0 => FlattenSeq(seqs) = flat[n]
  BY <1>0 DEF FlattenSeq
<1>2. /\ \A i \in 1 .. n : s[i] <= s[i + 1]
      /\ \A i \in 1 .. n + 1 : s[1] <= s[i]
  <2>1. ASSUME NEW i \in 1 .. n PROVE s[i] <= s[i + 1]
    <3>1. s[i] \in Nat /\ s[i + 1] \in Nat
      OBVIOUS
    <3>2. Len(seqs[i]) \in Nat
      OBVIOUS
    <3> QED
      BY <3>1, <3>2, SMTT(30)
  <2>2. s \in [1 .. n + 1 -> Int]
    OBVIOUS
  <2> QED
    BY <2>1, <2>2, Rising
<1>3. ASSUME NEW i \in 2 .. n
      PROVE  g[i] = g[i - 1] \o seqs[i]
  <2>1. i \in 1 .. n /\ i - 1 \in 1 .. n /\ (i - 1) + 1 = i
    OBVIOUS
  <2>2. g[i - 1] = Count(s[1], s[i])
    BY <2>1
  <2>3. g[i] = Count(s[1], s[i + 1])
    BY <2>1
  <2>4. s[i] \in Nat /\ s[i + 1] \in Nat /\ s[1] \in Nat /\ s[1] <= s[i] /\ s[i] <= s[i + 1]
    <3>1. 1 \in 1 .. n + 1 /\ i \in 1 .. n + 1 /\ i + 1 \in 1 .. n + 1
      BY <2>1
    <3> QED
      BY <1>2, <2>1, <3>1
  <2>5. seqs[i] \in Seq(Nat) /\ Len(seqs[i]) = s[i + 1] - s[i]
        /\ \A j \in 1 .. s[i + 1] - s[i] : seqs[i][j] = s[i] + j
    BY <2>1
  <2>6. Count(s[1], s[i + 1]) = Count(s[1], s[i]) \o seqs[i]
    BY <2>4, <2>5, CountOn, ZenonT(60)
  <2> QED
    BY <2>2, <2>3, <2>6, Zenon
<1>4. n # 0 => g[1] = seqs[1]
  <2> SUFFICES ASSUME n # 0 PROVE g[1] = seqs[1]
    OBVIOUS
  <2>1. 1 \in 1 .. n /\ g[1] = Count(s[1], s[2])
    OBVIOUS
  <2>2. seqs[1] \in Seq(Nat) /\ Len(seqs[1]) = s[2] - s[1]
        /\ \A j \in 1 .. Len(seqs[1]) : seqs[1][j] = s[1] + j
    BY <2>1
  <2> HIDE DEF g
  <2> QED
    BY <2>1, <2>2 DEF Count
<1>5. flat = [i \in 1 .. n |-> IF i = 1 THEN seqs[i] ELSE flat[i - 1] \o seqs[i]]
  <2>1. g = [i \in 1 .. n |-> g[i]]
    OBVIOUS
  <2> HIDE DEF g
  <2>2. ASSUME NEW i \in 1 .. n
        PROVE  g[i] = IF i = 1 THEN seqs[i] ELSE g[i - 1] \o seqs[i]
    <3>1. n # 0 /\ (i = 1 \/ i \in 2 .. n)
      OBVIOUS
    <3>2. CASE i = 1
      BY <1>4, <3>1, <3>2
    <3>3. CASE i \in 2 .. n
      <4>1. i # 1
        BY <3>3
      <4>2. g[i] = g[i - 1] \o seqs[i]
        BY <1>3, <3>3
      <4> QED
        BY <4>1, <4>2, Zenon
    <3> QED
      BY <3>1, <3>2, <3>3
  <2>3. g = [i \in 1 .. n |-> IF i = 1 THEN seqs[i] ELSE g[i - 1] \o seqs[i]]
    BY <2>1, <2>2
  <2> QED
    BY <2>3
<1> HIDE DEF flat
<1>6. \A i \in 1 .. n : flat[i] = IF i = 1 THEN seqs[i] ELSE flat[i - 1] \o seqs[i]
  BY <1>5, Zenon
<1>7. {i \in 1 .. n : flat[i] # g[i]} = {}
  <2> DEFINE B == {i \in 1 .. n : flat[i] # g[i]}
  <2> HIDE DEF g
  <2>1. 1 \notin B /\ B \subseteq 1 .. n
    BY <1>4, <1>6
  <2>2. ASSUME NEW i \in 1 .. n, i # 1, i - 1 \notin B
        PROVE  i \notin B
    <3>1. i \in 2 .. n /\ i - 1 \in 1 .. n
      BY <2>2
    <3>2. flat[i] = flat[i - 1] \o seqs[i] /\ flat[i - 1] = g[i - 1]
      BY <1>6, <2>2, <3>1
    <3> QED
      BY <1>3, <3>1, <3>2
  <2> HIDE DEF B
  <2>3. B = {}
    BY <2>1, <2>2, Climb
  <2> QED
    BY <2>3 DEF B
<1>8. CASE n = 0
  <2>1. seqs = <<>> /\ FlattenSeq(seqs) = seqs
    BY <1>0, <1>8 DEF FlattenSeq
  <2>2. Count(s[1], s[n + 1]) \in Seq(Nat) /\ Len(Count(s[1], s[n + 1])) = 0
    BY <1>8 DEF Count
  <2> QED
    BY <2>1, <2>2, EmptySeq
<1>9. CASE n # 0
  <2>1. n \in 1 .. n
    BY <1>9
  <2>2. flat[n] = g[n]
    BY <1>7, <2>1
  <2>3. g[n] = Count(s[1], s[n + 1])
    BY <2>1
  <2> HIDE DEF g
  <2> QED
    BY <1>1, <1>9, <2>2, <2>3
<1> QED
  BY <1>8, <1>9

LEMMA Doubling ==
  ASSUME NEW size \in Nat, NEW required \in Nat, 0 < size, size < required
  PROVE  NextSize(size, required) \in Nat /\ NextSize(size, required) >= required
<1> DEFINE top == 2 * required
           next == CHOOSE f : f = [v \in 1 .. top |-> IF v >= required THEN v ELSE f[2 * v]]
           Solves(f, j) == \A v \in 1 .. top :
                             v + j > top => f[v] = IF v >= required THEN v ELSE f[2 * v]
           B == {j \in 0 .. top : ~ \E f \in [1 .. top -> Nat] : Solves(f, j)}
<1>0. top \in Nat /\ 0 \in Nat
  OBVIOUS
<1>1. 0 \notin B /\ B \subseteq 0 .. top
  <2>1. [v \in 1 .. top |-> 0] \in [1 .. top -> Nat] /\ Solves([v \in 1 .. top |-> 0], 0)
    OBVIOUS
  <2> QED
    BY <2>1
<1>2. ASSUME NEW j \in 0 .. top, j # 0, j - 1 \notin B
      PROVE  j \notin B
  <2>1. PICK f \in [1 .. top -> Nat] : Solves(f, j - 1)
    BY <1>2
  <2> DEFINE w == top + 1 - j
             g == [f EXCEPT ![w] = IF w >= required THEN w ELSE f[2 * w]]
  <2>2. w \in 1 .. top /\ (w < required => 2 * w \in 1 .. top)
    BY <1>2
  <2>3. g \in [1 .. top -> Nat]
    BY <2>1, <2>2
  <2>4. ASSUME NEW v \in 1 .. top, v + j > top
        PROVE  g[v] = IF v >= required THEN v ELSE g[2 * v]
    <3>1. v >= w /\ (v < required => 2 * v \in 1 .. top /\ 2 * v > w)
      BY <2>2, <2>4
    <3>2. CASE v = w
      BY <2>2, <3>1, <3>2
    <3>3. CASE v # w
      <4>1. v + (j - 1) > top
        BY <3>1, <3>3
      <4> QED
        BY <2>1, <3>1, <3>3, <4>1
    <3> QED
      BY <3>2, <3>3
  <2> QED
    BY <2>3, <2>4
<1>3. B = {}
  <2> HIDE DEF B
  <2> QED
    BY <1>0, <1>1, <1>2, Climb
<1>4. PICK f \in [1 .. top -> Nat] : Solves(f, top)
  <2>0. top \in 0 .. top
    BY <1>0
  <2>1. top \notin B
    <3> HIDE DEF B
    <3> QED
      BY <1>3
  <2> HIDE DEF Solves
  <2> QED
    BY <2>0, <2>1
<1>5. f = [v \in 1 .. top |-> IF v >= required THEN v ELSE f[2 * v]]
  BY <1>4
<1>6. next = [v \in 1 .. top |-> IF v >= required THEN v ELSE next[2 * v]]
  BY <1>5
<1>7. NextSize(size, required) = next[2 * size]
  BY DEF NextSize
<1> HIDE DEF next
<1>8. \A v \in 1 .. top : next[v] = IF v >= required THEN v ELSE next[2 * v]
  BY <1>6, Zenon
<1>9. \A v \in 1 .. top : next[v] \in Nat /\ next[v] >= required
  <2> DEFINE D == {j \in 0 .. top - 1 :
                     ~(next[top - j] \in Nat /\ next[top - j] >= required)}
  <2>1. D = {}
    <3> SUFFICES ASSUME D # {} PROVE FALSE
      OBVIOUS
    <3>1. D \in SUBSET Nat
      OBVIOUS
    <3>2. PICK j \in D : \A i \in D : j <= i
      <4> HIDE DEF D
      <4> QED
        BY <3>1, Least
    <3> DEFINE v == top - j
    <3>3. v \in 1 .. top /\ ~(next[v] \in Nat /\ next[v] >= required)
      OBVIOUS
    <3>4. v < required /\ next[v] = next[2 * v]
      <4>1. v \in Nat /\ next[v] = IF v >= required THEN v ELSE next[2 * v]
        BY <1>8, <3>3
      <4> HIDE DEF v
      <4> QED
        BY <3>3, <4>1
    <3>5. top - 2 * v \in 0 .. top - 1 /\ top - 2 * v < j /\ top - (top - 2 * v) = 2 * v
      BY <3>3, <3>4
    <3>6. top - 2 * v \in D
      BY <3>3, <3>4, <3>5
    <3>7. j <= top - 2 * v
      BY <3>2, <3>6
    <3>8. j \in Nat /\ top - 2 * v \in Nat
      BY <3>5
    <3> HIDE DEF D, v
    <3> QED
      BY <3>5, <3>7, <3>8
  <2>2. ASSUME NEW v \in 1 .. top
        PROVE  next[v] \in Nat /\ next[v] >= required
    <3>1. top - v \in 0 .. top - 1 /\ top - (top - v) = v
      OBVIOUS
    <3> QED
      BY <2>1, <3>1
  <2> QED
    BY <2>2
<1>10. 2 * size \in 1 .. top
  OBVIOUS
<1> QED
  BY <1>7, <1>9, <1>10
-----------------------------------------------------------------------------
(* Chunks. *)

Memories == [Page -> [1 .. PageSize -> Bytes]]

\* Byte k of chunk c in memory m.
ByteIn(c, m, k) == IF c.kind = "page" THEN m[c.at][c.first + k] ELSE c.bytes[k]

Formed(c) ==
    /\ c \in Chunk /\ Size(c) > 0
    /\ IF c.kind = "page" THEN c.at \in Page /\ c.mem \in {c.at, NULL}
       ELSE c.at = NULL /\ c.mem = NULL

LEMMA ChunkFields ==
  ASSUME NEW c \in Chunk
  PROVE  /\ c.kind \in {"page", "heap", "ref"} /\ c.at \in Page \cup {NULL}
         /\ c.first \in Nat /\ c.first <= PageSize
         /\ c.last \in Nat /\ c.last <= PageSize
         /\ c.bytes \in Seq(Bytes) /\ c.mem \in Page \cup {NULL}
         /\ Size(c) \in Int
BY BufferAssumption DEF Chunk, Size

LEMMA SizeIsNat ==
  ASSUME NEW c, Formed(c)
  PROVE  Size(c) \in Nat
BY ChunkFields DEF Formed

\* A chunk with more bytes behind it.
LEMMA ExtendedChunk ==
  ASSUME NEW c \in Chunk, NEW s \in Seq(Bytes),
         c.kind = "page" => c.last + Len(s) <= PageSize
  PROVE  /\ Extended(c, s) \in Chunk
         /\ Extended(c, s).kind = c.kind /\ Extended(c, s).at = c.at
         /\ Extended(c, s).first = c.first /\ Extended(c, s).mem = c.mem
         /\ Size(Extended(c, s)) = Size(c) + Len(s)
         /\ c.kind = "page" => Extended(c, s).last = c.last + Len(s)
         /\ c.kind # "page" => /\ Extended(c, s).bytes = c.bytes \o s
                               /\ Extended(c, s).last = c.last
<1>0. Len(s) \in Nat /\ PageSize \in Nat
  BY BufferAssumption
<1>1. CASE c.kind = "page"
  <2>1. c.last + Len(s) \in 0 .. PageSize
    BY <1>0, <1>1, ChunkFields
  <2>2. Extended(c, s) = [c EXCEPT !.last = c.last + Len(s)]
    BY <1>1 DEF Extended
  <2>3. Extended(c, s) \in Chunk
    BY <2>1, <2>2 DEF Chunk
  <2>4. /\ Extended(c, s).kind = c.kind /\ Extended(c, s).at = c.at
        /\ Extended(c, s).first = c.first /\ Extended(c, s).mem = c.mem
        /\ Extended(c, s).last = c.last + Len(s)
    BY <2>2 DEF Chunk
  <2> QED
    BY <1>0, <1>1, <2>3, <2>4, ChunkFields DEF Size
<1>2. CASE c.kind # "page"
  <2>1. Extended(c, s) = [c EXCEPT !.bytes = c.bytes \o s]
    BY <1>2 DEF Extended
  <2>2. c.bytes \o s \in Seq(Bytes) /\ Len(c.bytes \o s) = Len(c.bytes) + Len(s)
    BY ChunkFields, ConcatProperties
  <2>3. Extended(c, s) \in Chunk
    BY <2>1, <2>2 DEF Chunk
  <2>4. /\ Extended(c, s).kind = c.kind /\ Extended(c, s).at = c.at
        /\ Extended(c, s).first = c.first /\ Extended(c, s).mem = c.mem
        /\ Extended(c, s).bytes = c.bytes \o s /\ Extended(c, s).last = c.last
    BY <2>1 DEF Chunk
  <2> QED
    BY <1>2, <2>2, <2>3, <2>4 DEF Size
<1> QED
  BY <1>1, <1>2

\* What a copy behind chunk c changes in the pages.
LEMMA PokeIs ==
  ASSUME NEW c \in Chunk, NEW s \in Seq(Bytes), NEW m \in Memories,
         c.kind = "page" => c.at \in Page /\ c.last + Len(s) <= PageSize
  PROVE  /\ Poke(m, c, s) \in Memories
         /\ c.kind # "page" => Poke(m, c, s) = m
         /\ c.kind = "page" =>
              \A p \in Page, i \in 1 .. PageSize :
                Poke(m, c, s)[p][i] =
                  IF p = c.at /\ i > c.last /\ i <= c.last + Len(s)
                  THEN s[i - c.last] ELSE m[p][i]
<1>1. CASE c.kind # "page"
  BY <1>1 DEF Poke
<1>2. CASE c.kind = "page"
  <2> DEFINE new == [i \in 1 .. PageSize |->
                       IF i > c.last /\ i <= c.last + Len(s) THEN s[i - c.last]
                       ELSE m[c.at][i]]
  <2>1. Poke(m, c, s) = [m EXCEPT ![c.at] = new]
    BY <1>2 DEF Poke
  <2>2. ASSUME NEW i \in 1 .. PageSize, i > c.last, i <= c.last + Len(s)
        PROVE  s[i - c.last] \in Bytes
    <3>1. i - c.last \in 1 .. Len(s)
      BY <2>2, ChunkFields
    <3> QED
      BY <3>1, ElementOfSeq
  <2>3. m[c.at] \in [1 .. PageSize -> Bytes]
    BY <1>2 DEF Memories
  <2>4. new \in [1 .. PageSize -> Bytes]
    BY <2>2, <2>3
  <2>5. \A i \in 1 .. PageSize :
          new[i] = IF i > c.last /\ i <= c.last + Len(s) THEN s[i - c.last]
                   ELSE m[c.at][i]
    OBVIOUS
  <2> HIDE DEF new
  <2>6. [m EXCEPT ![c.at] = new] \in Memories
    BY <2>4 DEF Memories
  <2>7. \A p \in Page : [m EXCEPT ![c.at] = new][p] = IF p = c.at THEN new ELSE m[p]
    BY DEF Memories
  <2> QED
    BY <1>2, <2>1, <2>5, <2>6, <2>7
<1> QED
  BY <1>1, <1>2
-----------------------------------------------------------------------------
(* Lists of chunks. *)

\* No two chunks overlap: in one page, a later chunk lies behind an earlier one.
Apart(cs) ==
    \A i, j \in 1 .. Len(cs) :
      i < j /\ cs[i].kind = "page" /\ cs[j].at = cs[i].at => cs[i].last <= cs[j].first

\* Nothing lies behind place rl of the page ra.
UnderRest(cs, ra, rl) ==
    \A i \in 1 .. Len(cs) : cs[i].kind = "page" /\ cs[i].at = ra => cs[i].last <= rl

\* The room behind the tail is the rest of its page, or of its block.
TailFits(cs, rm, ra, rl) ==
    cs # <<>> => LET t == cs[Len(cs)]
                 IN  /\ t.kind = "page" =>
                          t.last + rm = PageSize /\ t.at = ra /\ rl = PageSize
                     /\ t.kind = "ref" => rm = 0
                     /\ t.kind = "heap" => Len(t.bytes) > PageSize

\* A list with its room and with its current page.
Shape(cs, rm, ra, rl) ==
    /\ cs \in Seq(Chunk)
    /\ \A i \in 1 .. Len(cs) : Formed(cs[i])
    /\ Apart(cs) /\ UnderRest(cs, ra, rl) /\ TailFits(cs, rm, ra, rl)
    /\ rm \in Nat /\ ra \in Page \cup {NULL} /\ rl \in 0 .. PageSize
    /\ ra = NULL => rl = 0
    /\ cs = <<>> => rm = 0 /\ ra = NULL

\* The chunks hold the bytes that follow pos[1], chunk i those after pos[i].
Laid(cs, m, pos) ==
    \A i \in 1 .. Len(cs) :
      /\ pos[i + 1] = pos[i] + Size(cs[i])
      /\ \A k \in 1 .. Size(cs[i]) : ByteIn(cs[i], m, k) = pos[i] + k

\* They hold the bytes after lo, up to hi.
Holds(cs, m, lo, hi) ==
    \E pos \in [1 .. Len(cs) + 1 -> Nat] :
      Laid(cs, m, pos) /\ pos[1] = lo /\ pos[Len(cs) + 1] = hi

\* The chunks cs have the same bytes in memory m2 as in m.
Kept(cs, m, m2) ==
    \A i \in 1 .. Len(cs) : \A k \in 1 .. Size(cs[i]) :
      ByteIn(cs[i], m2, k) = ByteIn(cs[i], m, k)

\* The pages of own, and no other, are each given back by one chunk, and every
\* chunk in a page lies in one of them.
Held(cs, own) ==
    /\ \A i \in 1 .. Len(cs) :
         cs[i].kind = "page" => \E j \in 1 .. Len(cs) : cs[j].mem = cs[i].at
    /\ \A i, j \in 1 .. Len(cs) :
         i # j /\ cs[i].mem # NULL => cs[i].mem # cs[j].mem
    /\ {cs[i].mem : i \in 1 .. Len(cs)} \ {NULL} = own

LEMMA ShapeFacts ==
  ASSUME NEW cs, NEW rm, NEW ra, NEW rl, Shape(cs, rm, ra, rl)
  PROVE  /\ Len(cs) \in Nat /\ DOMAIN cs = 1 .. Len(cs)
         /\ cs # <<>> => Len(cs) \in 1 .. Len(cs) /\ Last(cs) = cs[Len(cs)]
         /\ cs = <<>> => Len(cs) = 0
         /\ \A i \in 1 .. Len(cs) : cs[i] \in Chunk /\ Size(cs[i]) \in Nat /\ Size(cs[i]) > 0
<1>1. cs \in Seq(Chunk)
  BY DEF Shape
<1>2. Len(cs) \in Nat /\ DOMAIN cs = 1 .. Len(cs)
  BY <1>1, LenProperties
<1>3. cs # <<>> => Len(cs) \in 1 .. Len(cs)
  BY <1>1, <1>2, EmptySeq
<1>4. cs = <<>> => Len(cs) = 0
  BY EmptySeq
<1>5. \A i \in 1 .. Len(cs) : cs[i] \in Chunk /\ Size(cs[i]) \in Nat /\ Size(cs[i]) > 0
  BY SizeIsNat DEF Shape, Formed
<1> QED
  BY <1>2, <1>3, <1>4, <1>5 DEF Last

LEMMA LaidAppend ==
  ASSUME NEW cs \in Seq(Chunk), NEW c \in Chunk, Size(c) \in Nat,
         NEW m, NEW m2, NEW lo \in Nat, NEW hi \in Nat,
         Holds(cs, m, lo, hi), Kept(cs, m, m2),
         \A k \in 1 .. Size(c) : ByteIn(c, m2, k) = hi + k
  PROVE  Holds(Append(cs, c), m2, lo, hi + Size(c))
<1> DEFINE n == Len(cs)
<1>0. n \in Nat
  OBVIOUS
<1>1. PICK pos \in [1 .. n + 1 -> Nat] : Laid(cs, m, pos) /\ pos[1] = lo /\ pos[n + 1] = hi
  BY DEF Holds
<1> DEFINE cs2 == Append(cs, c)
           pos2 == [i \in 1 .. n + 2 |-> IF i = n + 2 THEN hi + Size(c) ELSE pos[i]]
<1>2. /\ Len(cs2) = n + 1 /\ cs2[n + 1] = c
      /\ \A i \in 1 .. n : cs2[i] = cs[i]
  OBVIOUS
<1>3. /\ pos2 \in [1 .. n + 2 -> Nat] /\ pos2[n + 2] = hi + Size(c)
      /\ \A i \in 1 .. n + 1 : pos2[i] = pos[i]
  BY <1>0, <1>1
<1> HIDE DEF cs2, pos2
<1>4. ASSUME NEW i \in 1 .. n + 1
      PROVE  /\ pos2[i + 1] = pos2[i] + Size(cs2[i])
             /\ \A k \in 1 .. Size(cs2[i]) : ByteIn(cs2[i], m2, k) = pos2[i] + k
  <2>1. CASE i = n + 1
    BY <1>0, <1>1, <1>2, <1>3, <2>1
  <2>2. CASE i \in 1 .. n
    <3>1. cs2[i] = cs[i] /\ pos2[i] = pos[i] /\ pos2[i + 1] = pos[i + 1]
      BY <1>0, <1>2, <1>3, <2>2
    <3>2. /\ pos[i + 1] = pos[i] + Size(cs[i])
          /\ \A k \in 1 .. Size(cs[i]) : ByteIn(cs[i], m, k) = pos[i] + k
      BY <1>1, <2>2 DEF Laid
    <3>3. \A k \in 1 .. Size(cs[i]) : ByteIn(cs[i], m2, k) = ByteIn(cs[i], m, k)
      BY <2>2 DEF Kept
    <3> QED
      BY <3>1, <3>2, <3>3
  <2> QED
    BY <1>0, <2>1, <2>2
<1>5. Laid(cs2, m2, pos2)
  BY <1>2, <1>4 DEF Laid
<1>6. pos2[1] = lo /\ (n + 1) + 1 = n + 2
  BY <1>0, <1>1, <1>3
<1>7. Holds(cs2, m2, lo, hi + Size(c))
  BY <1>2, <1>3, <1>5, <1>6 DEF Holds
<1> QED
  BY <1>7 DEF cs2

LEMMA LaidTail ==
  ASSUME NEW cs \in Seq(Chunk), cs # <<>>, NEW c \in Chunk, NEW d \in Nat,
         Size(c) = Size(cs[Len(cs)]) + d, Size(cs[Len(cs)]) \in Nat,
         NEW m, NEW m2, NEW lo \in Nat, NEW hi \in Nat,
         Holds(cs, m, lo, hi), Kept(cs, m, m2),
         \A k \in 1 .. Size(cs[Len(cs)]) : ByteIn(c, m2, k) = ByteIn(cs[Len(cs)], m, k),
         \A k \in 1 .. d : ByteIn(c, m2, Size(cs[Len(cs)]) + k) = hi + k
  PROVE  Holds(WithTail(cs, c), m2, lo, hi + d)
<1> DEFINE n == Len(cs)
<1>0. n \in Nat /\ n \in 1 .. n /\ n # 0
  BY EmptySeq
<1>1. PICK pos \in [1 .. n + 1 -> Nat] : Laid(cs, m, pos) /\ pos[1] = lo /\ pos[n + 1] = hi
  BY DEF Holds
<1> DEFINE cs2 == WithTail(cs, c)
           pos2 == [i \in 1 .. n + 1 |-> IF i = n + 1 THEN hi + d ELSE pos[i]]
           t == cs[n]
<1>2. /\ Len(cs2) = n /\ cs2[n] = c
      /\ \A i \in 1 .. n - 1 : cs2[i] = cs[i]
  BY <1>0, ExceptSeq DEF WithTail
<1>3. /\ pos2 \in [1 .. n + 1 -> Nat] /\ pos2[n + 1] = hi + d
      /\ \A i \in 1 .. n : pos2[i] = pos[i]
  BY <1>0, <1>1
<1>a. /\ pos[n + 1] = pos[n] + Size(t)
      /\ \A k \in 1 .. Size(t) : ByteIn(t, m, k) = pos[n] + k
  BY <1>0, <1>1 DEF Laid
<1>b. pos[n] \in Nat
  BY <1>0
<1>c. /\ \A k \in 1 .. Size(t) : ByteIn(c, m2, k) = ByteIn(t, m, k)
      /\ \A k \in 1 .. d : ByteIn(c, m2, Size(t) + k) = hi + k
      /\ Size(t) \in Nat /\ Size(c) = Size(t) + d
  OBVIOUS
<1> HIDE DEF cs2, pos2, t
<1>t. \A k \in 1 .. Size(t) : ByteIn(c, m2, k) = pos[n] + k
  BY <1>a, <1>c
<1>4. ASSUME NEW i \in 1 .. n
      PROVE  /\ pos2[i + 1] = pos2[i] + Size(cs2[i])
             /\ \A k \in 1 .. Size(cs2[i]) : ByteIn(cs2[i], m2, k) = pos2[i] + k
  <2>1. CASE i = n
    <3>1. pos2[i + 1] = hi + d /\ pos2[i] = pos[n] /\ cs2[i] = c
      BY <1>2, <1>3, <2>1
    <3>2. hi + d = pos[n] + Size(c)
      BY <1>1, <1>a, <1>b, <1>c
    <3>3. ASSUME NEW k \in 1 .. Size(c)
          PROVE  ByteIn(c, m2, k) = pos[n] + k
      <4>1. CASE k <= Size(t)
        BY <1>c, <1>t, <4>1
      <4>2. CASE ~(k <= Size(t))
        <5>1. k - Size(t) \in 1 .. d /\ Size(t) + (k - Size(t)) = k
          BY <1>c, <4>2
        <5>2. ByteIn(c, m2, Size(t) + (k - Size(t))) = hi + (k - Size(t))
          BY <1>c, <5>1
        <5> QED
          BY <1>1, <1>a, <1>b, <1>c, <5>1, <5>2, SMTT(30)
      <4> QED
        BY <4>1, <4>2
    <3> QED
      BY <3>1, <3>2, <3>3
  <2>2. CASE i \in 1 .. n - 1
    <3>1. cs2[i] = cs[i] /\ pos2[i] = pos[i] /\ pos2[i + 1] = pos[i + 1]
      BY <1>0, <1>2, <1>3, <2>2
    <3>2. /\ pos[i + 1] = pos[i] + Size(cs[i])
          /\ \A k \in 1 .. Size(cs[i]) : ByteIn(cs[i], m, k) = pos[i] + k
      BY <1>1 DEF Laid
    <3>3. \A k \in 1 .. Size(cs[i]) : ByteIn(cs[i], m2, k) = ByteIn(cs[i], m, k)
      BY DEF Kept
    <3> QED
      BY <3>1, <3>2, <3>3
  <2> QED
    BY <1>0, <2>1, <2>2
<1>5. Laid(cs2, m2, pos2)
  BY <1>2, <1>4 DEF Laid
<1>6. pos2[1] = lo
  BY <1>0, <1>1, <1>3
<1>7. Holds(cs2, m2, lo, hi + d)
  BY <1>2, <1>3, <1>5, <1>6 DEF Holds
<1> QED
  BY <1>7 DEF cs2
LEMMA LaidRest ==
  ASSUME NEW cs \in Seq(Chunk), NEW k \in 0 .. Len(cs), NEW m, NEW m2,
         NEW pos \in [1 .. Len(cs) + 1 -> Nat], Laid(cs, m, pos),
         Kept(SubSeq(cs, k + 1, Len(cs)), m, m2)
  PROVE  Holds(SubSeq(cs, k + 1, Len(cs)), m2, pos[k + 1], pos[Len(cs) + 1])
<1> DEFINE n == Len(cs)
           rest == SubSeq(cs, k + 1, n)
           pos2 == [i \in 1 .. n - k + 1 |-> pos[i + k]]
<1>0. n \in Nat /\ k \in Nat /\ k <= n
  OBVIOUS
<1>1. Len(rest) = n - k /\ \A i \in 1 .. n - k : rest[i] = cs[i + k]
  BY <1>0
<1>2. /\ pos2 \in [1 .. n - k + 1 -> Nat]
      /\ \A i \in 1 .. n - k + 1 : pos2[i] = pos[i + k]
  BY <1>0
<1> HIDE DEF rest, pos2
<1>3. ASSUME NEW i \in 1 .. n - k
      PROVE  /\ pos2[i + 1] = pos2[i] + Size(rest[i])
             /\ \A j \in 1 .. Size(rest[i]) : ByteIn(rest[i], m2, j) = pos2[i] + j
  <2>1. i + k \in 1 .. n /\ (i + 1) + k = (i + k) + 1
    BY <1>0
  <2>2. rest[i] = cs[i + k] /\ pos2[i] = pos[i + k] /\ pos2[i + 1] = pos[(i + k) + 1]
    BY <1>0, <1>1, <1>2, <2>1
  <2>3. /\ pos[(i + k) + 1] = pos[i + k] + Size(cs[i + k])
        /\ \A j \in 1 .. Size(cs[i + k]) : ByteIn(cs[i + k], m, j) = pos[i + k] + j
    BY <2>1 DEF Laid
  <2>4. \A j \in 1 .. Size(rest[i]) : ByteIn(rest[i], m2, j) = ByteIn(rest[i], m, j)
    BY <1>1 DEF Kept, rest
  <2> QED
    BY <2>2, <2>3, <2>4
<1>4. Laid(rest, m2, pos2)
  BY <1>1, <1>3 DEF Laid
<1>5. pos2[1] = pos[k + 1] /\ pos2[n - k + 1] = pos[n + 1]
  BY <1>0, <1>2
<1> QED
  BY <1>1, <1>2, <1>4, <1>5 DEF Holds, rest

\* A copy behind everything that lies in its page leaves the chunks as they are.
LEMMA PokeKeeps ==
  ASSUME NEW cs, \A i \in 1 .. Len(cs) : Formed(cs[i]),
         NEW c \in Chunk, NEW s \in Seq(Bytes), NEW m \in Memories,
         c.kind = "page" => c.at \in Page /\ c.last + Len(s) <= PageSize,
         c.kind = "page" => UnderRest(cs, c.at, c.last)
  PROVE  Kept(cs, m, Poke(m, c, s))
<1> SUFFICES ASSUME NEW i \in 1 .. Len(cs), NEW k \in 1 .. Size(cs[i])
             PROVE  ByteIn(cs[i], Poke(m, c, s), k) = ByteIn(cs[i], m, k)
  BY DEF Kept
<1>1. CASE c.kind # "page" \/ cs[i].kind # "page"
  BY <1>1, PokeIs DEF ByteIn
<1>2. CASE c.kind = "page" /\ cs[i].kind = "page"
  <2>1. cs[i] \in Chunk /\ cs[i].at \in Page
    BY <1>2 DEF Formed
  <2>2. cs[i].first + k \in 1 .. PageSize /\ cs[i].first + k <= cs[i].last
    BY <1>2, <2>1, ChunkFields, BufferAssumption, SMTT(60) DEF Size
  <2>3. cs[i].at = c.at => ~(cs[i].first + k > c.last)
    BY <1>2, <2>1, <2>2, ChunkFields, SMTT(30) DEF UnderRest
  <2>4. Poke(m, c, s)[cs[i].at][cs[i].first + k] = m[cs[i].at][cs[i].first + k]
    BY <1>2, <2>1, <2>2, <2>3, PokeIs
  <2> QED
    BY <1>2, <2>4 DEF ByteIn
<1> QED
  BY <1>1, <1>2

\* The bytes of a chunk, and of what was put behind it.
LEMMA PokedBytes ==
  ASSUME NEW c \in Chunk, Size(c) \in Nat, NEW s \in Seq(Bytes), NEW m \in Memories,
         c.kind = "page" => c.at \in Page /\ c.last + Len(s) <= PageSize
  PROVE  /\ \A k \in 1 .. Size(c) :
              ByteIn(Extended(c, s), Poke(m, c, s), k) = ByteIn(c, m, k)
         /\ \A k \in 1 .. Len(s) :
              ByteIn(Extended(c, s), Poke(m, c, s), Size(c) + k) = s[k]
<1> DEFINE e == Extended(c, s)
           m2 == Poke(m, c, s)
<1>0. /\ e.kind = c.kind /\ e.at = c.at /\ e.first = c.first
      /\ c.kind # "page" => e.bytes = c.bytes \o s
  BY ExtendedChunk
<1>1. Len(s) \in Nat /\ PageSize \in Nat
  BY BufferAssumption
<1> HIDE DEF e
<1>2. CASE c.kind = "page"
  <2>1. \A i \in 1 .. PageSize : m2[c.at][i] =
          IF i > c.last /\ i <= c.last + Len(s) THEN s[i - c.last] ELSE m[c.at][i]
    BY <1>2, PokeIs
  <2> HIDE DEF m2
  <2>2. c.first + Size(c) = c.last /\ c.first \in Nat /\ c.last \in Nat
    BY <1>2, ChunkFields DEF Size
  <2>3. ASSUME NEW k \in 1 .. Size(c)
        PROVE  ByteIn(e, m2, k) = ByteIn(c, m, k)
    <3>1. c.first + k \in 1 .. PageSize /\ ~(c.first + k > c.last)
      BY <1>1, <1>2, <2>2
    <3> QED
      BY <1>0, <1>2, <2>1, <3>1 DEF ByteIn
  <2>4. ASSUME NEW k \in 1 .. Len(s)
        PROVE  ByteIn(e, m2, Size(c) + k) = s[k]
    <3>0. Size(c) \in Nat /\ k \in Nat /\ 1 <= k /\ k <= Len(s)
      BY <1>1
    <3>a. c.first + (Size(c) + k) = c.last + k
      BY <2>2, <3>0
    <3>b. c.last + k \in 1 .. PageSize
      BY <1>1, <1>2, <2>2, <3>0
    <3>1. c.last + k > c.last
      BY <2>2, <3>0
    <3>c. c.last + k <= c.last + Len(s)
      BY <1>1, <2>2, <3>0
    <3>d. (c.last + k) - c.last = k
      BY <2>2, <3>0
    <3>2. ByteIn(e, m2, Size(c) + k) = m2[c.at][c.last + k]
      BY <1>0, <1>2, <3>a DEF ByteIn
    <3> QED
      BY <2>1, <3>b, <3>1, <3>c, <3>d, <3>2
  <2> QED
    BY <2>3, <2>4 DEF e, m2
<1>3. CASE c.kind # "page"
  <2>1. Size(c) = Len(c.bytes) /\ c.bytes \in Seq(Bytes)
    BY <1>3, ChunkFields DEF Size
  <2>2. \A j \in 1 .. Len(c.bytes) + Len(s) : (c.bytes \o s)[j] =
          IF j <= Len(c.bytes) THEN c.bytes[j] ELSE s[j - Len(c.bytes)]
    BY <2>1, ConcatProperties
  <2>3. \A k : ByteIn(e, m2, k) = (c.bytes \o s)[k] /\ ByteIn(c, m, k) = c.bytes[k]
    BY <1>0, <1>3 DEF ByteIn
  <2>4. ASSUME NEW k \in 1 .. Size(c)
        PROVE  ByteIn(e, m2, k) = ByteIn(c, m, k)
    <3>1. k \in 1 .. Len(c.bytes) + Len(s) /\ k <= Len(c.bytes)
      BY <1>1, <2>1
    <3> QED
      BY <2>2, <2>3, <3>1
  <2>5. ASSUME NEW k \in 1 .. Len(s)
        PROVE  ByteIn(e, m2, Size(c) + k) = s[k]
    <3>1. /\ Size(c) + k \in 1 .. Len(c.bytes) + Len(s)
          /\ ~(Size(c) + k <= Len(c.bytes)) /\ (Size(c) + k) - Len(c.bytes) = k
      BY <1>1, <2>1
    <3> QED
      BY <2>2, <2>3, <3>1
  <2> QED
    BY <2>4, <2>5 DEF e
<1> QED
  BY <1>2, <1>3
-----------------------------------------------------------------------------
(* The ways to write. *)

\* The list cs2 differs from cs only in how far its tail goes.
SameButTail(cs, cs2) ==
    /\ Len(cs2) = Len(cs)
    /\ \A i \in 1 .. Len(cs) :
         /\ cs2[i].kind = cs[i].kind /\ cs2[i].at = cs[i].at
         /\ cs2[i].first = cs[i].first /\ cs2[i].mem = cs[i].mem
         /\ Size(cs2[i]) >= Size(cs[i])

\* The tail grows in its page or in its block.
LEMMA TailGrows ==
  ASSUME NEW cs, NEW rm, NEW ra, NEW rl, Shape(cs, rm, ra, rl), cs # <<>>,
         NEW m \in Memories, NEW lo \in Nat, NEW hi \in Nat, Holds(cs, m, lo, hi),
         NEW s \in Seq(Bytes), \A k \in 1 .. Len(s) : s[k] = hi + k,
         NEW rm2 \in Nat, Last(cs).kind # "ref",
         Last(cs).kind = "page" => Len(s) <= rm /\ rm2 = rm - Len(s)
  PROVE  LET cs2 == WithTail(cs, Extended(Last(cs), s))
             m2  == Poke(m, Last(cs), s)
         IN  /\ Shape(cs2, rm2, ra, rl) /\ m2 \in Memories
             /\ Holds(cs2, m2, lo, hi + Len(s))
             /\ SameButTail(cs, cs2)
<1> DEFINE n == Len(cs)
           t == Last(cs)
           e == Extended(t, s)
           cs2 == WithTail(cs, e)
           m2 == Poke(m, t, s)
<1>0. /\ n \in Nat /\ n \in 1 .. n /\ t = cs[n] /\ t \in Chunk /\ Size(t) \in Nat
      /\ Size(t) > 0 /\ cs \in Seq(Chunk) /\ Formed(t) /\ Len(s) \in Nat
      /\ PageSize \in Nat /\ rm \in Nat
  BY ShapeFacts, BufferAssumption DEF Shape
<1>1. /\ t.kind = "page" => t.last + rm = PageSize /\ t.at = ra /\ rl = PageSize
      /\ t.kind = "heap" => Len(t.bytes) > PageSize
  BY <1>0 DEF Shape, TailFits
<1>2. t.kind = "page" => t.at \in Page /\ t.last + Len(s) <= PageSize
  BY <1>0, <1>1, ChunkFields DEF Formed
<1>3. /\ e \in Chunk /\ e.kind = t.kind /\ e.at = t.at /\ e.first = t.first
      /\ e.mem = t.mem /\ Size(e) = Size(t) + Len(s)
      /\ t.kind = "page" => e.last = t.last + Len(s)
      /\ t.kind # "page" => e.bytes = t.bytes \o s
  BY <1>0, <1>2, ExtendedChunk
<1>4. m2 \in Memories
  BY <1>0, <1>2, PokeIs
<1>5. Kept(cs, m, m2)
  <2>1. t.kind = "page" => UnderRest(cs, t.at, t.last)
    <3> SUFFICES ASSUME t.kind = "page", NEW i \in 1 .. n, cs[i].kind = "page", cs[i].at = t.at
                 PROVE  cs[i].last <= t.last
      BY DEF UnderRest
    <3>1. CASE i = n
      BY <1>0, <3>1, ChunkFields
    <3>2. CASE i < n
      <4>1. cs[i].last <= t.first
        BY <1>0, <3>2 DEF Shape, Apart
      <4>2. cs[i] \in Chunk /\ t.first <= t.last
        BY <1>0, ShapeFacts, ChunkFields, SMTT(30) DEF Size
      <4> QED
        BY <1>0, <4>1, <4>2, ChunkFields, SMTT(30)
    <3> QED
      BY <1>0, <3>1, <3>2
  <2>2. \A i \in 1 .. Len(cs) : Formed(cs[i])
    BY DEF Shape
  <2> QED
    BY <1>0, <1>2, <2>1, <2>2, PokeKeeps
<1>6. /\ \A k \in 1 .. Size(t) : ByteIn(e, m2, k) = ByteIn(t, m, k)
      /\ \A k \in 1 .. Len(s) : ByteIn(e, m2, Size(t) + k) = s[k]
  BY <1>0, <1>2, PokedBytes
<1>7. /\ Len(cs2) = n /\ cs2[n] = e /\ cs2 \in Seq(Chunk)
      /\ \A i \in 1 .. n : i # n => cs2[i] = cs[i]
  BY <1>0, <1>3, ExceptSeq DEF WithTail
<1>c. t.kind = "page" => Len(s) <= rm /\ rm2 = rm - Len(s)
  OBVIOUS
<1> HIDE DEF t, e, cs2, m2
<1>b. t.bytes \in Seq(Bytes) /\ t.last \in Nat
  BY <1>0, ChunkFields
<1>8. Holds(cs2, m2, lo, hi + Len(s))
  <2>1. /\ \A k \in 1 .. Size(cs[n]) : ByteIn(e, m2, k) = ByteIn(cs[n], m, k)
        /\ \A k \in 1 .. Len(s) : ByteIn(e, m2, Size(cs[n]) + k) = hi + k
        /\ Size(e) = Size(cs[n]) + Len(s) /\ Size(cs[n]) \in Nat
    BY <1>0, <1>3, <1>6
  <2> HIDE DEF n
  <2>2. Holds(WithTail(cs, e), m2, lo, hi + Len(s))
    BY <1>0, <1>3, <1>5, <2>1, LaidTail DEF n
  <2> QED
    BY <2>2 DEF cs2
<1>9. SameButTail(cs, cs2)
  <2>1. ASSUME NEW i \in 1 .. n
        PROVE  /\ cs2[i].kind = cs[i].kind /\ cs2[i].at = cs[i].at
               /\ cs2[i].first = cs[i].first /\ cs2[i].mem = cs[i].mem
               /\ Size(cs2[i]) >= Size(cs[i])
    <3>1. Size(cs[i]) \in Nat
      BY ShapeFacts
    <3> QED
      BY <1>0, <1>3, <1>7, <3>1
  <2> QED
    BY <1>7, <2>1 DEF SameButTail
<1>10. Shape(cs2, rm2, ra, rl)
  <2>1. ASSUME NEW i \in 1 .. n
        PROVE  Formed(cs2[i])
    BY <1>0, <1>3, <1>7 DEF Formed, Shape
  <2>2. Apart(cs2)
    <3> SUFFICES ASSUME NEW i \in 1 .. n, NEW j \in 1 .. n, i < j, cs2[i].kind = "page",
                        cs2[j].at = cs2[i].at
                 PROVE  cs2[i].last <= cs2[j].first
      BY <1>7 DEF Apart
    <3>1. i # n /\ cs2[i] = cs[i] /\ cs2[j].at = cs[j].at /\ cs2[j].first = cs[j].first
      BY <1>0, <1>3, <1>7
    <3> QED
      BY <3>1 DEF Shape, Apart
  <2>3. UnderRest(cs2, ra, rl)
    <3> SUFFICES ASSUME NEW i \in 1 .. n, cs2[i].kind = "page", cs2[i].at = ra
                 PROVE  cs2[i].last <= rl
      BY <1>7 DEF UnderRest
    <3>1. CASE i = n
      BY <1>1, <1>3, <1>7, <3>1, ChunkFields
    <3>2. CASE i # n
      BY <1>7, <3>2 DEF Shape, UnderRest
    <3> QED
      BY <3>1, <3>2
  <2>4. t.kind # "page" => Len(e.bytes) = Len(t.bytes) + Len(s) /\ Len(t.bytes) \in Nat
    <3>1. Len(t.bytes \o s) = Len(t.bytes) + Len(s)
      BY <1>b, ConcatProperties
    <3>2. t.kind # "page" => e.bytes = t.bytes \o s
      BY <1>3
    <3>3. Len(t.bytes) \in Nat
      BY <1>b
    <3> QED
      BY <3>1, <3>2, <3>3, Zenon
  <2>5. TailFits(cs2, rm2, ra, rl)
    <3>1. CASE t.kind = "page"
      <4>1. e.last + rm2 = PageSize
        BY <1>0, <1>1, <1>3, <1>b, <1>c, <3>1, SMTT(30)
      <4> QED
        BY <1>1, <1>3, <1>7, <3>1, <4>1 DEF TailFits
    <3>2. CASE t.kind = "heap"
      <4>1. Len(e.bytes) > PageSize
        BY <1>0, <1>1, <2>4, <3>2
      <4> QED
        BY <1>3, <1>7, <3>2, <4>1 DEF TailFits
    <3>3. t.kind = "page" \/ t.kind = "heap"
      BY <1>0, ChunkFields DEF t
    <3> QED
      BY <3>1, <3>2, <3>3
  <2>6. cs2 # <<>>
    BY <1>0, <1>7, EmptySeq
  <2> QED
    BY <1>7, <2>1, <2>2, <2>3, <2>5, <2>6 DEF Shape
<1> QED
  BY <1>4, <1>8, <1>9, <1>10 DEF cs2, m2, e, t
\* A chunk is put behind the others.
LEMMA ChunkAdded ==
  ASSUME NEW cs, NEW rm, NEW ra, NEW rl, Shape(cs, rm, ra, rl),
         NEW m, NEW lo \in Nat, NEW hi \in Nat, Holds(cs, m, lo, hi),
         NEW c, Formed(c), NEW m2, Kept(cs, m, m2),
         \A k \in 1 .. Size(c) : ByteIn(c, m2, k) = hi + k,
         c.kind = "page" => UnderRest(cs, c.at, c.first),
         NEW rm2 \in Nat, NEW ra2 \in Page \cup {NULL}, NEW rl2 \in 0 .. PageSize,
         ra2 = NULL => rl2 = 0, UnderRest(cs, ra2, rl2),
         c.kind = "page" => c.last + rm2 = PageSize /\ c.at = ra2 /\ rl2 = PageSize,
         c.kind = "ref" => rm2 = 0, c.kind = "heap" => Len(c.bytes) > PageSize
  PROVE  /\ Shape(Append(cs, c), rm2, ra2, rl2)
         /\ Holds(Append(cs, c), m2, lo, hi + Size(c))
<1> DEFINE n == Len(cs)
           cs2 == Append(cs, c)
<1>0. /\ n \in Nat /\ cs \in Seq(Chunk) /\ c \in Chunk /\ Size(c) \in Nat
      /\ \A i \in 1 .. n : Formed(cs[i])
  BY ShapeFacts, SizeIsNat DEF Shape, Formed
<1>1. Holds(cs2, m2, lo, hi + Size(c))
  BY <1>0, LaidAppend
<1>2. /\ Len(cs2) = n + 1 /\ cs2[n + 1] = c /\ cs2 \in Seq(Chunk) /\ cs2 # <<>>
      /\ \A i \in 1 .. n : cs2[i] = cs[i]
  BY <1>0
<1> HIDE DEF cs2
<1>3. \A i \in 1 .. n + 1 : i = n + 1 \/ i \in 1 .. n
  BY <1>0
<1>4. \A i \in 1 .. n + 1 : Formed(cs2[i])
  BY <1>0, <1>2, <1>3
<1>5. Apart(cs2)
  <2> SUFFICES ASSUME NEW i \in 1 .. n + 1, NEW j \in 1 .. n + 1, i < j,
                      cs2[i].kind = "page", cs2[j].at = cs2[i].at
               PROVE  cs2[i].last <= cs2[j].first
    BY <1>2 DEF Apart
  <2>1. i \in 1 .. n /\ cs2[i] = cs[i]
    BY <1>0, <1>2
  <2>2. CASE j = n + 1
    <3>1. cs2[j] = c /\ c.at = cs[i].at
      BY <1>2, <2>1, <2>2
    <3>2. c.kind = "page"
      <4>1. cs[i].at \in Page
        BY <1>0, <2>1 DEF Formed
      <4> QED
        BY <3>1, <4>1, BufferAssumption DEF Formed
    <3> QED
      BY <2>1, <3>1, <3>2 DEF UnderRest
  <2>3. CASE j \in 1 .. n
    BY <1>2, <2>1, <2>3 DEF Shape, Apart
  <2> QED
    BY <1>3, <2>2, <2>3
<1>6. UnderRest(cs2, ra2, rl2)
  <2> SUFFICES ASSUME NEW i \in 1 .. n + 1, cs2[i].kind = "page", cs2[i].at = ra2
               PROVE  cs2[i].last <= rl2
    BY <1>2 DEF UnderRest
  <2>1. CASE i = n + 1
    BY <1>0, <1>2, <2>1, ChunkFields
  <2>2. CASE i \in 1 .. n
    BY <1>2, <2>2 DEF UnderRest
  <2> QED
    BY <1>3, <2>1, <2>2
<1>7. TailFits(cs2, rm2, ra2, rl2)
  BY <1>2 DEF TailFits
<1>8. Shape(cs2, rm2, ra2, rl2)
  BY <1>2, <1>4, <1>5, <1>6, <1>7 DEF Shape
<1> QED
  BY <1>1, <1>8 DEF cs2
-----------------------------------------------------------------------------
(* Who gives back a page. *)

\* Without references every chunk gives back the page it lies in, and a block
\* of its own is the last one.
Simple(cs) ==
    \A i \in 1 .. Len(cs) :
      /\ cs[i].kind # "ref"
      /\ cs[i].kind = "page" => cs[i].mem = cs[i].at
      /\ cs[i].kind = "heap" => i = Len(cs)

\* The current page is given back by some chunk.
RestHeld(cs, ra) == ra # NULL => \E i \in 1 .. Len(cs) : cs[i].mem = ra

AllRefs(cs, ra) == ra = NULL /\ \A i \in 1 .. Len(cs) : cs[i].kind = "ref"

LEMMA SameHeld ==
  ASSUME NEW cs, NEW cs2, SameButTail(cs, cs2), NEW own, Held(cs, own)
  PROVE  Held(cs2, own)
<1>1. \A i \in 1 .. Len(cs) : cs2[i].mem = cs[i].mem /\ cs2[i].at = cs[i].at
                             /\ cs2[i].kind = cs[i].kind
  BY DEF SameButTail
<1>2. Len(cs2) = Len(cs)
  BY DEF SameButTail
<1>3. {cs2[i].mem : i \in 1 .. Len(cs)} = {cs[i].mem : i \in 1 .. Len(cs)}
  BY <1>1
<1> QED
  BY <1>1, <1>2, <1>3 DEF Held

LEMMA SameKinds ==
  ASSUME NEW cs, NEW cs2, SameButTail(cs, cs2), NEW ra
  PROVE  /\ Simple(cs) => Simple(cs2)
         /\ RestHeld(cs, ra) => RestHeld(cs2, ra)
BY DEF SameButTail, Simple, RestHeld

LEMMA HeldAdded ==
  ASSUME NEW cs \in Seq(Chunk), NEW c, NEW own, NULL \notin own, Held(cs, own),
         c.mem # NULL => c.mem \notin own,
         c.kind = "page" => c.mem = c.at \/ \E i \in 1 .. Len(cs) : cs[i].mem = c.at
  PROVE  Held(Append(cs, c), own \cup ({c.mem} \ {NULL}))
<1> DEFINE n == Len(cs)
           cs2 == Append(cs, c)
<1>0. n \in Nat
  OBVIOUS
<1>1. /\ Len(cs2) = n + 1 /\ cs2[n + 1] = c
      /\ \A i \in 1 .. n : cs2[i] = cs[i]
  OBVIOUS
<1> HIDE DEF cs2
<1>2. 1 .. n + 1 = (1 .. n) \cup {n + 1}
  BY <1>0
<1>3. \A i \in 1 .. n : cs[i].mem = NULL \/ cs[i].mem \in own
  BY DEF Held
<1>4. ASSUME NEW i \in 1 .. n + 1, cs2[i].kind = "page"
      PROVE  \E j \in 1 .. n + 1 : cs2[j].mem = cs2[i].at
  <2>1. CASE i = n + 1
    BY <1>1, <1>2, <1>4, <2>1
  <2>2. CASE i \in 1 .. n
    BY <1>1, <1>2, <1>4, <2>2 DEF Held
  <2> QED
    BY <1>2, <2>1, <2>2
<1>5. ASSUME NEW i \in 1 .. n + 1, NEW j \in 1 .. n + 1, i # j, cs2[i].mem # NULL
      PROVE  cs2[i].mem # cs2[j].mem
  <2>1. CASE i = n + 1
    <3>1. j \in 1 .. n /\ cs2[i].mem = c.mem /\ cs2[j].mem = cs[j].mem
      BY <1>1, <1>2, <1>5, <2>1
    <3> QED
      BY <1>3, <1>5, <3>1
  <2>2. CASE i \in 1 .. n /\ j = n + 1
    <3>1. cs2[j].mem = c.mem /\ cs2[i].mem = cs[i].mem
      BY <1>1, <2>2
    <3> QED
      BY <1>3, <1>5, <2>2, <3>1
  <2>3. CASE i \in 1 .. n /\ j \in 1 .. n
    BY <1>1, <1>5, <2>3 DEF Held
  <2> QED
    BY <1>2, <2>1, <2>2, <2>3
<1>6. {cs2[i].mem : i \in 1 .. n + 1} \ {NULL} = own \cup ({c.mem} \ {NULL})
  <2>1. {cs2[i].mem : i \in 1 .. n + 1} = {cs[i].mem : i \in 1 .. n} \cup {c.mem}
    BY <1>1, <1>2
  <2>2. {cs[i].mem : i \in 1 .. n} \ {NULL} = own
    BY DEF Held
  <2> QED
    BY <2>1, <2>2
<1> QED
  BY <1>1, <1>4, <1>5, <1>6 DEF Held, cs2

LEMMA SimpleAdded ==
  ASSUME NEW cs \in Seq(Chunk), Simple(cs), NEW c \in Chunk, c.kind # "ref",
         c.kind = "page" => c.mem = c.at,
         \A i \in 1 .. Len(cs) : cs[i].kind # "heap"
  PROVE  Simple(Append(cs, c))
<1>1. /\ Len(Append(cs, c)) = Len(cs) + 1 /\ Append(cs, c)[Len(cs) + 1] = c
      /\ \A i \in 1 .. Len(cs) : Append(cs, c)[i] = cs[i]
      /\ \A i \in 1 .. Len(cs) + 1 : i = Len(cs) + 1 \/ i \in 1 .. Len(cs)
  OBVIOUS
<1> QED
  BY <1>1, Zenon DEF Simple
-----------------------------------------------------------------------------
(* What a new place for a string does to a list. *)

LEMMA OtherChunkIs ==
  ASSUME NEW kind \in {"heap", "ref"}, NEW s \in Seq(Bytes), Len(s) > 0
  PROVE  LET c == OtherChunk(kind, s)
         IN  /\ Formed(c) /\ c.kind = kind /\ c.bytes = s /\ c.mem = NULL
             /\ Size(c) = Len(s) /\ \A m, k : ByteIn(c, m, k) = s[k]
<1> DEFINE c == OtherChunk(kind, s)
<1>1. c \in Chunk
  BY BufferAssumption DEF OtherChunk, Chunk
<1>2. c.kind = kind /\ c.kind # "page" /\ c.bytes = s /\ c.mem = NULL /\ c.at = NULL
  BY DEF OtherChunk
<1> HIDE DEF c
<1>3. Size(c) = Len(s)
  BY <1>2 DEF Size
<1>4. \A m, k : ByteIn(c, m, k) = s[k]
  BY <1>2 DEF ByteIn
<1> QED
  BY <1>1, <1>2, <1>3, <1>4 DEF Formed, c

LEMMA PageChunkIs ==
  ASSUME NEW p \in Page, NEW first \in 0 .. PageSize, NEW mem \in {p, NULL},
         NEW s \in Seq(Bytes), Len(s) > 0, first + Len(s) <= PageSize
  PROVE  LET c == PageChunk(p, first, first, mem)
             e == Extended(c, s)
         IN  /\ c \in Chunk /\ c.kind = "page" /\ c.at = p /\ c.last = first /\ Size(c) = 0
             /\ Formed(e) /\ e.kind = "page" /\ e.at = p /\ e.first = first
             /\ e.last = first + Len(s) /\ e.mem = mem /\ Size(e) = Len(s)
<1> DEFINE c == PageChunk(p, first, first, mem)
           e == Extended(c, s)
<1>1. c \in Chunk
  <2>1. <<>> \in Seq(Bytes)
    BY EmptySeq
  <2> QED
    BY <2>1 DEF PageChunk, Chunk
<1>2. /\ c.kind = "page" /\ c.at = p /\ c.first = first /\ c.last = first /\ c.mem = mem
  BY DEF PageChunk
<1> HIDE DEF c
<1>3. Size(c) = 0 /\ first \in Nat /\ Len(s) \in Nat
  BY <1>2, BufferAssumption DEF Size
<1>4. /\ e \in Chunk /\ e.kind = "page" /\ e.at = p /\ e.first = first /\ e.mem = mem
      /\ Size(e) = Len(s) /\ e.last = first + Len(s)
  BY <1>1, <1>2, <1>3, ExtendedChunk
<1> HIDE DEF e
<1>5. Formed(e)
  BY <1>4 DEF Formed
<1> QED
  BY <1>1, <1>2, <1>3, <1>4, <1>5 DEF c, e

LEMMA RewoundIs ==
  ASSUME NEW cs, NEW rm, Shape(cs, rm, rmem_at, rmem_last)
  PROVE  /\ Rewound(cs) \in 0 .. PageSize
         /\ rmem_at = NULL => Rewound(cs) = 0
         /\ UnderRest(cs, rmem_at, Rewound(cs))
<1>0. PageSize \in Nat /\ PageSize > 0 /\ NULL \notin Page /\ Len(cs) \in Nat
  BY ShapeFacts, BufferAssumption
<1>1. CASE Len(cs) > 1 /\ Last(cs).at = rmem_at /\ rmem_last = PageSize
  <2> DEFINE t == cs[Len(cs)]
  <2>1. /\ Last(cs) = t /\ t \in Chunk /\ Formed(t) /\ Len(cs) \in 1 .. Len(cs)
    BY <1>0, <1>1, ShapeFacts, EmptySeq DEF Shape
  <2>2. Rewound(cs) = t.last
    BY <1>1, <2>1 DEF Rewound
  <2>3. rmem_at \in Page /\ t.kind = "page"
    <3>1. rmem_at # NULL
      BY <1>0, <1>1 DEF Shape
    <3> QED
      BY <1>1, <2>1, <3>1 DEF Shape, Formed
  <2>4. ASSUME NEW i \in 1 .. Len(cs), cs[i].kind = "page", cs[i].at = rmem_at
        PROVE  cs[i].last <= t.last
    <3>0. cs[i] \in Chunk
      BY ShapeFacts
    <3>1. CASE i = Len(cs)
      BY <2>1, <3>1, ChunkFields
    <3>2. CASE i < Len(cs)
      <4>1. cs[i].last <= t.first
        BY <1>1, <2>1, <2>4, <3>2 DEF Shape, Apart
      <4>2. t.first <= t.last
        BY <2>1, <2>3, ChunkFields DEF Formed, Size
      <4> QED
        BY <2>1, <3>0, <4>1, <4>2, ChunkFields
    <3> QED
      BY <1>0, <3>1, <3>2
  <2>5. t.last \in 0 .. PageSize
    BY <1>0, <2>1, ChunkFields
  <2> HIDE DEF t
  <2> QED
    BY <1>0, <2>2, <2>3, <2>4, <2>5 DEF UnderRest
<1>2. CASE ~(Len(cs) > 1 /\ Last(cs).at = rmem_at /\ rmem_last = PageSize)
  BY <1>2 DEF Shape, Rewound
<1> QED
  BY <1>1, <1>2

\* A place in the rest of the current page is taken only behind a reference: if
\* the tail lies in the page, its room is all there is.
LEMMA RestIsTakenBehindReference ==
  ASSUME NEW cs, NEW rm, Shape(cs, rm, rmem_at, rmem_last), NEW n \in Nat, n > rm,
         ~ CanRealloc(cs), rmem_at # NULL, PageSize - Rewound(cs) >= n
  PROVE  cs # <<>> /\ cs[Len(cs)].kind = "ref"
<1> DEFINE t == cs[Len(cs)]
<1>0. PageSize \in Nat /\ PageSize > 0 /\ rm \in Nat /\ cs # <<>>
  BY BufferAssumption DEF Shape
<1>1. /\ Last(cs) = t /\ t \in Chunk /\ Formed(t) /\ Len(cs) \in Nat /\ Len(cs) >= 1
      /\ Len(cs) \in 1 .. Len(cs)
  BY <1>0, ShapeFacts DEF Shape
<1>2. ~(t.kind = "heap")
  <2>1. t.kind = "heap" => Size(t) > PageSize
    BY <1>0, <1>1 DEF Shape, TailFits, Size
  <2> QED
    BY <1>0, <1>1, <2>1 DEF CanRealloc
<1>3. ~(t.kind = "page")
  <2> SUFFICES ASSUME t.kind = "page" PROVE FALSE
    OBVIOUS
  <2>1. t.last + rm = PageSize /\ t.at = rmem_at /\ rmem_last = PageSize
    BY <1>0 DEF Shape, TailFits
  <2>2. Rewound(cs) = t.last \/ Rewound(cs) = PageSize
    BY <1>1, <2>1 DEF Rewound
  <2>3. t.last \in Nat
    BY <1>1, ChunkFields
  <2> HIDE DEF t
  <2> QED
    BY <1>0, <2>1, <2>2, <2>3
<1>4. t.kind \in {"page", "heap", "ref"}
  BY <1>1, ChunkFields
<1> QED
  BY <1>0, <1>2, <1>3, <1>4
\* The bytes of s are those that follow byte hi.
Follows(s, hi) ==
    s \in Seq(Bytes) /\ Len(s) > 0 /\ \A k \in 1 .. Len(s) : s[k] = hi + k

\* The state of a buffer's list: its shape, its bytes and its pages.
List(cs, m, rm, ra, rl, own, lo, hi) ==
    /\ Shape(cs, rm, ra, rl) /\ m \in Memories
    /\ Holds(cs, m, lo, hi) /\ Held(cs, own)

\* What every write keeps of a list cs with current page ra.
Outgrows(cs, ra, cs2, ra2) ==
    /\ cs2 # <<>> /\ Len(cs2) >= Len(cs)
    /\ \A i \in 1 .. Len(cs) : Size(cs2[i]) >= Size(cs[i])
    /\ Simple(cs) => Simple(cs2)
    /\ RestHeld(cs, ra) => RestHeld(cs2, ra2)

LEMMA GrowInBlock ==
  ASSUME NEW cs, NEW rm, NEW m, NEW own, NEW lo \in Nat, NEW hi \in Nat,
         List(cs, m, rm, rmem_at, rmem_last, own, lo, hi), CanRealloc(cs),
         NEW s, Follows(s, hi)
  PROVE  LET cs2 == WithTail(cs, Extended(Last(cs), s))
             rm2 == NextSize(Size(Last(cs)), Size(Last(cs)) + Len(s))
                      - (Size(Last(cs)) + Len(s))
         IN  /\ List(cs2, m, rm2, rmem_at, rmem_last, own, lo, hi + Len(s))
             /\ Outgrows(cs, rmem_at, cs2, rmem_at)
<1> DEFINE t == Last(cs)
           cs2 == WithTail(cs, Extended(t, s))
           need == Size(t) + Len(s)
           rm2 == NextSize(Size(t), need) - need
<1>s. s \in Seq(Bytes) /\ Len(s) \in Nat /\ Len(s) > 0 /\ \A k \in 1 .. Len(s) : s[k] = hi + k
  BY DEF Follows
<1>0. cs # <<>> /\ t.kind = "heap" /\ m \in Memories /\ Shape(cs, rm, rmem_at, rmem_last)
      /\ Holds(cs, m, lo, hi) /\ Held(cs, own)
  BY DEF CanRealloc, List
<1>1. t \in Chunk /\ Size(t) \in Nat /\ Size(t) > 0 /\ Len(cs) \in Nat
  BY <1>s, <1>0, ShapeFacts
<1>2. need \in Nat /\ Size(t) < need
  BY <1>s, <1>1
<1>3. rm2 \in Nat
  <2>1. NextSize(Size(t), need) \in Nat /\ NextSize(Size(t), need) >= need
    BY <1>s, <1>1, <1>2, Doubling
  <2> HIDE DEF need
  <2> QED
    BY <1>2, <2>1
<1>4. Poke(m, t, s) = m
  BY <1>s, <1>0 DEF Poke
<1> HIDE DEF need, rm2
<1>5. /\ Shape(cs2, rm2, rmem_at, rmem_last)
      /\ Holds(cs2, m, lo, hi + Len(s))
      /\ SameButTail(cs, cs2)
  BY <1>s, <1>0, <1>3, <1>4, TailGrows
<1>6. cs2 # <<>>
  <2>1. Len(cs2) = Len(cs) /\ Len(cs) # 0
    BY <1>s, <1>0, <1>5, ShapeFacts DEF SameButTail
  <2> QED
    BY <2>1, EmptySeq
<1>7. Held(cs2, own)
  BY <1>s, <1>0, <1>5, SameHeld
<1>8. Outgrows(cs, rmem_at, cs2, rmem_at)
  <2> HIDE DEF cs2
  <2>1. Len(cs2) >= Len(cs) /\ \A i \in 1 .. Len(cs) : Size(cs2[i]) >= Size(cs[i])
    BY <1>s, <1>1, <1>5 DEF SameButTail
  <2> QED
    BY <1>5, <1>6, <2>1, SameKinds DEF Outgrows
<1> QED
  BY <1>s, <1>0, <1>5, <1>7, <1>8 DEF List, rm2, need

LEMMA OutgrowsByAppend ==
  ASSUME NEW cs, NEW rm, NEW ra, NEW rl, Shape(cs, rm, ra, rl), NEW c \in Chunk,
         NEW ra2, c.mem = ra2 \/ ra2 = ra,
         Simple(cs) => Simple(Append(cs, c))
  PROVE  Outgrows(cs, ra, Append(cs, c), ra2)
<1> DEFINE n == Len(cs)
           cs2 == Append(cs, c)
<1>0. cs \in Seq(Chunk) /\ n \in Nat
  BY ShapeFacts DEF Shape
<1>1. /\ Len(cs2) = n + 1 /\ cs2[n + 1] = c /\ cs2 # <<>>
      /\ \A i \in 1 .. n : cs2[i] = cs[i]
  BY <1>0
<1> HIDE DEF cs2
<1>2. \A i \in 1 .. n : Size(cs2[i]) >= Size(cs[i])
  BY <1>1, ShapeFacts
<1>3. RestHeld(cs, ra) => RestHeld(cs2, ra2)
  <2>1. n + 1 \in 1 .. n + 1 /\ \A i \in 1 .. n : i \in 1 .. n + 1
    BY <1>0
  <2> QED
    BY <1>1, <2>1 DEF RestHeld
<1>4. Len(cs2) >= n
  BY <1>0, <1>1
<1> QED
  BY <1>1, <1>2, <1>3, <1>4 DEF Outgrows, cs2

\* A string that is copied gets a block of its own when it is larger than a page
\* and the tail has no block that can grow.
MayBeOther(cs, kind, s) ==
    /\ kind \in {"heap", "ref"}
    /\ kind = "heap" => Len(s) > PageSize /\ ~ CanRealloc(cs)

\* A block of its own, or a reference, behind the other chunks.
LEMMA GrowByOther ==
  ASSUME NEW cs, NEW rm, NEW m, NEW own, NEW lo \in Nat, NEW hi \in Nat,
         List(cs, m, rm, rmem_at, rmem_last, own, lo, hi), own \subseteq Page,
         NEW s, Follows(s, hi),
         NEW kind, MayBeOther(cs, kind, s)
  PROVE  LET cs2 == Append(cs, OtherChunk(kind, s))
         IN  /\ List(cs2, m, 0, rmem_at, Rewound(cs), own, lo, hi + Len(s))
             /\ kind = "heap" => Outgrows(cs, rmem_at, cs2, rmem_at)
             /\ RestHeld(cs, rmem_at) => RestHeld(cs2, rmem_at)
             /\ Len(cs2) = Len(cs) + 1 /\ cs2[Len(cs) + 1].kind = kind
             /\ \A i \in 1 .. Len(cs) : cs2[i] = cs[i]
<1> DEFINE c == OtherChunk(kind, s)
           cs2 == Append(cs, c)
<1>s. s \in Seq(Bytes) /\ Len(s) \in Nat /\ Len(s) > 0 /\ \A k \in 1 .. Len(s) : s[k] = hi + k
  BY DEF Follows
<1>k. kind \in {"heap", "ref"} /\ (kind = "heap" => Len(s) > PageSize /\ ~ CanRealloc(cs))
  BY DEF MayBeOther
<1>0. /\ Shape(cs, rm, rmem_at, rmem_last) /\ m \in Memories /\ Holds(cs, m, lo, hi)
      /\ Held(cs, own) /\ cs \in Seq(Chunk) /\ Len(cs) \in Nat /\ rmem_at \in Page \cup {NULL}
  BY ShapeFacts DEF List, Shape
<1>1. /\ Formed(c) /\ c \in Chunk /\ c.kind = kind /\ c.bytes = s /\ c.mem = NULL
      /\ Size(c) = Len(s) /\ \A k : ByteIn(c, m, k) = s[k]
  BY <1>s, <1>k, OtherChunkIs DEF Formed
<1>2. /\ Rewound(cs) \in 0 .. PageSize
      /\ rmem_at = NULL => Rewound(cs) = 0
      /\ UnderRest(cs, rmem_at, Rewound(cs))
  BY <1>s, <1>k, <1>0, RewoundIs
<1>3. Kept(cs, m, m)
  BY DEF Kept
<1> HIDE DEF c
<1>4. Shape(cs2, 0, rmem_at, Rewound(cs)) /\ Holds(cs2, m, lo, hi + Size(c))
  <2>1. kind # "page" /\ 0 \in Nat
    BY <1>k
  <2>2. \A k \in 1 .. Size(c) : ByteIn(c, m, k) = hi + k
    BY <1>s, <1>k, <1>1
  <2> QED
    BY <1>s, <1>k, <1>0, <1>1, <1>2, <1>3, <2>1, <2>2, ChunkAdded, ZenonT(60)
<1>5. Held(cs2, own)
  <2>1. NULL \notin own
    BY BufferAssumption
  <2>2. Held(cs2, own \cup ({c.mem} \ {NULL}))
    BY <1>s, <1>k, <1>0, <1>1, <2>1, HeldAdded
  <2>3. own \cup ({c.mem} \ {NULL}) = own
    BY <1>s, <1>k, <1>1
  <2> QED
    BY <2>2, <2>3
<1>6. kind = "heap" /\ Simple(cs) => Simple(cs2)
  <2> SUFFICES ASSUME kind = "heap", Simple(cs) PROVE Simple(cs2)
    OBVIOUS
  <2>1. ASSUME NEW i \in 1 .. Len(cs), cs[i].kind = "heap" PROVE FALSE
    <3>1. i = Len(cs) /\ cs # <<>>
      BY <1>s, <1>k, <1>0, <2>1, EmptySeq DEF Simple
    <3>2. Last(cs).kind = "heap" /\ Size(Last(cs)) > PageSize
      BY <1>s, <1>k, <1>0, <2>1, <3>1 DEF Shape, TailFits, Size, Last
    <3> QED
      BY <1>k, <3>1, <3>2 DEF CanRealloc
  <2> QED
    BY <1>s, <1>k, <1>0, <1>1, <2>1, SimpleAdded
<1>7. /\ Len(cs2) = Len(cs) + 1 /\ cs2[Len(cs) + 1].kind = kind
      /\ \A i \in 1 .. Len(cs) : cs2[i] = cs[i]
  BY <1>s, <1>k, <1>0, <1>1
<1>8. RestHeld(cs, rmem_at) => RestHeld(cs2, rmem_at)
  <2>1. \A i \in 1 .. Len(cs) : i \in 1 .. Len(cs) + 1
    BY <1>s, <1>k, <1>0
  <2> HIDE DEF cs2
  <2> QED
    BY <1>7, <2>1 DEF RestHeld
<1>9. kind = "heap" => Outgrows(cs, rmem_at, cs2, rmem_at)
  BY <1>s, <1>k, <1>0, <1>1, <1>6, OutgrowsByAppend
<1> QED
  BY <1>s, <1>k, <1>0, <1>1, <1>4, <1>5, <1>7, <1>8, <1>9 DEF List, c
\* Nothing of the list lies in page p from place first on; the page is a new
\* one, or the current one and given back by another chunk.
PlaceFree(cs, ra, own, p, first, mem) ==
    /\ p \in Page /\ first \in 0 .. PageSize /\ mem \in {p, NULL}
    /\ UnderRest(cs, p, first)
    /\ mem = p => p \notin own
    /\ mem = NULL => p = ra /\ \E i \in 1 .. Len(cs) : cs[i].mem = p
    /\ Simple(cs) => mem = p /\ \A i \in 1 .. Len(cs) : cs[i].kind # "heap"

\* A chunk in page p behind the other chunks.
LEMMA GrowByPage ==
  ASSUME NEW cs, NEW rm, NEW ra, NEW rl, NEW m, NEW own,
         NEW lo \in Nat, NEW hi \in Nat,
         List(cs, m, rm, ra, rl, own, lo, hi), own \subseteq Page,
         NEW s, Follows(s, hi),
         NEW p, NEW first, NEW mem, PlaceFree(cs, ra, own, p, first, mem),
         first + Len(s) <= PageSize
  PROVE  LET c   == PageChunk(p, first, first, mem)
             cs2 == Append(cs, Extended(c, s))
         IN  /\ List(cs2, Poke(m, c, s), PageSize - first - Len(s), p, PageSize,
                     own \cup ({mem} \ {NULL}), lo, hi + Len(s))
             /\ Outgrows(cs, ra, cs2, p)
<1> DEFINE c == PageChunk(p, first, first, mem)
           e == Extended(c, s)
           m2 == Poke(m, c, s)
           cs2 == Append(cs, e)
           rm2 == PageSize - first - Len(s)
<1>s. s \in Seq(Bytes) /\ Len(s) \in Nat /\ Len(s) > 0 /\ \A k \in 1 .. Len(s) : s[k] = hi + k
  BY DEF Follows
<1>0. /\ Shape(cs, rm, ra, rl) /\ m \in Memories /\ Holds(cs, m, lo, hi) /\ Held(cs, own)
      /\ cs \in Seq(Chunk) /\ NULL \notin own /\ PageSize \in Nat /\ PageSize > 0
      /\ NULL \notin Page /\ Len(s) \in Nat
  BY BufferAssumption DEF List, Shape
<1>p. /\ p \in Page /\ first \in 0 .. PageSize /\ mem \in {p, NULL}
      /\ UnderRest(cs, p, first)
      /\ mem = p => p \notin own
      /\ mem = NULL => p = ra /\ \E i \in 1 .. Len(cs) : cs[i].mem = p
      /\ Simple(cs) => mem = p /\ \A i \in 1 .. Len(cs) : cs[i].kind # "heap"
  BY DEF PlaceFree
<1>1. /\ c \in Chunk /\ c.kind = "page" /\ c.at = p /\ c.last = first /\ Size(c) = 0
      /\ Formed(e) /\ e.kind = "page" /\ e.at = p /\ e.first = first
      /\ e.last = first + Len(s) /\ e.mem = mem /\ Size(e) = Len(s)
  BY <1>s, <1>p, PageChunkIs
<1>2. rm2 \in Nat /\ e.last + rm2 = PageSize
  <2>1. first \in Nat
    BY <1>s, <1>p, <1>0
  <2> HIDE DEF e
  <2> QED
    BY <1>s, <1>p, <1>0, <1>1, <2>1
<1> HIDE DEF c, e, rm2
<1>3. m2 \in Memories
  BY <1>s, <1>p, <1>0, <1>1, PokeIs
<1>4. Kept(cs, m, m2)
  <2>1. \A i \in 1 .. Len(cs) : Formed(cs[i])
    BY <1>s, <1>p, <1>0 DEF Shape
  <2> QED
    BY <1>s, <1>p, <1>0, <1>1, <2>1, PokeKeeps
<1>5. \A k \in 1 .. Size(e) : ByteIn(e, m2, k) = hi + k
  <2>1. \A k \in 1 .. Len(s) : ByteIn(e, m2, Size(c) + k) = s[k]
    <3>1. Size(c) \in Nat /\ (c.kind = "page" => c.at \in Page /\ c.last + Len(s) <= PageSize)
      BY <1>s, <1>p, <1>1
    <3>2. \A k \in 1 .. Len(s) :
            ByteIn(Extended(c, s), Poke(m, c, s), Size(c) + k) = s[k]
      BY <1>s, <1>p, <1>0, <1>1, <3>1, PokedBytes
    <3> QED
      BY <3>2 DEF e
  <2>2. \A k \in 1 .. Len(s) : Size(c) + k = k
    BY <1>s, <1>p, <1>1
  <2> HIDE DEF m2
  <2> QED
    BY <1>s, <1>p, <1>1, <2>1, <2>2
<1>6. UnderRest(cs, p, PageSize)
  <2>1. \A i \in 1 .. Len(cs) : cs[i].last <= PageSize
    BY <1>s, <1>p, <1>0, ShapeFacts, ChunkFields
  <2> QED
    BY <2>1 DEF UnderRest
<1>7. Shape(cs2, rm2, p, PageSize) /\ Holds(cs2, m2, lo, hi + Size(e))
  <2>1. /\ PageSize \in 0 .. PageSize /\ p \in Page \cup {NULL}
        /\ p = NULL => PageSize = 0
    BY <1>s, <1>p, <1>0
  <2>2. e.kind # "ref" /\ e.kind # "heap"
    BY <1>s, <1>p, <1>1
  <2> HIDE DEF m2
  <2> QED
    BY <1>s, <1>p, <1>0, <1>1, <1>2, <1>4, <1>5, <1>6, <2>1, <2>2, ChunkAdded, ZenonT(60)
<1>8. Held(cs2, own \cup ({mem} \ {NULL}))
  <2>1. /\ e.mem # NULL => e.mem \notin own
        /\ e.kind = "page" => e.mem = e.at \/ \E i \in 1 .. Len(cs) : cs[i].mem = e.at
    BY <1>s, <1>p, <1>1
  <2>2. Held(cs2, own \cup ({e.mem} \ {NULL}))
    BY <1>s, <1>p, <1>0, <2>1, HeldAdded
  <2> QED
    BY <1>s, <1>p, <1>1, <2>2
<1>9. Outgrows(cs, ra, cs2, p)
  <2>0. e \in Chunk
    BY <1>s, <1>p, <1>1 DEF Formed
  <2>1. Simple(cs) => Simple(cs2)
    BY <1>s, <1>p, <1>0, <1>1, <2>0, SimpleAdded
  <2>2. e.mem = p \/ p = ra
    BY <1>s, <1>p, <1>1
  <2> QED
    BY <1>s, <1>p, <1>0, <2>0, <2>1, <2>2, OutgrowsByAppend
<1> QED
  BY <1>s, <1>p, <1>1, <1>3, <1>7, <1>8, <1>9 DEF List, c, e, rm2

LEMMA HeldLive ==
  ASSUME NEW cs, NEW rm, NEW ra, NEW rl, Shape(cs, rm, ra, rl), NEW own, Held(cs, own)
  PROVE  \A i \in 1 .. Len(cs) : cs[i].kind = "page" => cs[i].at \in own
<1> SUFFICES ASSUME NEW i \in 1 .. Len(cs), cs[i].kind = "page" PROVE cs[i].at \in own
  OBVIOUS
<1>1. cs[i].at \in Page
  BY DEF Shape, Formed
<1>2. PICK j \in 1 .. Len(cs) : cs[j].mem = cs[i].at
  BY DEF Held
<1> QED
  BY <1>1, <1>2, BufferAssumption DEF Held

\* The list after a write to the list cs with the current page ra.
Grown(cs, ra, lo, hi) ==
    /\ List(chunks', memory', room', rmem_at', rmem_last', live' \ foreign, lo, hi)
    /\ Outgrows(cs, ra, chunks', rmem_at')
    /\ live' \subseteq Page /\ foreign \subseteq live'
    /\ read' = read

LEMMA GrowStep ==
  ASSUME NEW cs, NEW rm, NEW m, NEW lo \in Nat, NEW hi \in Nat,
         List(cs, m, rm, rmem_at, rmem_last, live \ foreign, lo, hi),
         live \subseteq Page, foreign \subseteq live,
         Simple(cs) \/ RestHeld(cs, rmem_at),
         NEW s, Follows(s, hi), Len(s) > rm,
         Grow(cs, m, s)
  PROVE  Grown(cs, rmem_at, lo, hi + Len(s))
<1> DEFINE own == live \ foreign
<1>s. s \in Seq(Bytes) /\ Len(s) \in Nat /\ Len(s) > 0 /\ \A k \in 1 .. Len(s) : s[k] = hi + k
  BY DEF Follows
<1>0. /\ rm \in Nat /\ own \subseteq Page
      /\ Shape(cs, rm, rmem_at, rmem_last) /\ Held(cs, own)
      /\ PageSize \in Nat /\ PageSize > 0 /\ NULL \notin Page
  BY BufferAssumption DEF List, Shape
<1>h. ~ CanRealloc(cs) /\ Simple(cs) => \A i \in 1 .. Len(cs) : cs[i].kind # "heap"
  <2> SUFFICES ASSUME ~ CanRealloc(cs), Simple(cs), NEW i \in 1 .. Len(cs), cs[i].kind = "heap"
               PROVE FALSE
    OBVIOUS
  <2>1. i = Len(cs) /\ cs # <<>>
    BY EmptySeq DEF Simple
  <2>2. Last(cs).kind = "heap" /\ Size(Last(cs)) > PageSize
    BY <1>s, <1>0, <2>1 DEF Shape, TailFits, Size, Last
  <2> QED
    BY <2>1, <2>2 DEF CanRealloc
<1>r. /\ Rewound(cs) \in 0 .. PageSize
      /\ rmem_at = NULL => Rewound(cs) = 0
      /\ UnderRest(cs, rmem_at, Rewound(cs))
  BY <1>s, <1>0, RewoundIs
<1>1. CASE /\ CanRealloc(cs)
           /\ chunks' = WithTail(cs, Extended(Last(cs), s))
           /\ room' = NextSize(Size(Last(cs)), Size(Last(cs)) + Len(s))
                        - (Size(Last(cs)) + Len(s))
           /\ memory' = m /\ UNCHANGED live
           /\ UNCHANGED <<read, rmem_at, rmem_last>>
  BY <1>s, <1>0, <1>1, GrowInBlock DEF Grown
<1>2. CASE /\ ~ CanRealloc(cs)
           /\ Len(s) > PageSize
           /\ chunks' = Append(cs, OtherChunk("heap", s))
           /\ room' = 0
           /\ rmem_last' = Rewound(cs)
           /\ memory' = m /\ UNCHANGED live
           /\ UNCHANGED <<read, rmem_at>>
  <2>1. MayBeOther(cs, "heap", s)
    BY <1>2 DEF MayBeOther
  <2>2. /\ List(Append(cs, OtherChunk("heap", s)), m, 0, rmem_at, Rewound(cs), own,
                lo, hi + Len(s))
        /\ "heap" = "heap" => Outgrows(cs, rmem_at, Append(cs, OtherChunk("heap", s)), rmem_at)
    BY <1>s, <1>0, <2>1, GrowByOther
  <2> QED
    BY <1>2, <2>2 DEF Grown
<1>3. CASE /\ ~ CanRealloc(cs)
           /\ rmem_at # NULL /\ PageSize - Rewound(cs) >= Len(s)
           /\ LET c == RestOfPage(Rewound(cs))
              IN  /\ chunks' = Append(cs, Extended(c, s))
                  /\ memory' = Poke(m, c, s)
                  /\ room' = PageSize - Rewound(cs) - Len(s)
           /\ rmem_last' = PageSize
           /\ UNCHANGED <<read, rmem_at, live>>
  <2> DEFINE first == Rewound(cs)
             c == PageChunk(rmem_at, first, first, NULL)
  <2>1. ~ Simple(cs)
    <3>1. cs # <<>> /\ cs[Len(cs)].kind = "ref"
      BY <1>s, <1>0, <1>3, RestIsTakenBehindReference
    <3>2. Len(cs) \in 1 .. Len(cs)
      BY <1>s, <1>0, <3>1, ShapeFacts
    <3> QED
      BY <3>1, <3>2 DEF Simple
  <2>2. \E i \in 1 .. Len(cs) : cs[i].mem = rmem_at
    BY <1>3, <2>1 DEF RestHeld
  <2>3. /\ chunks' = Append(cs, Extended(c, s)) /\ memory' = Poke(m, c, s)
        /\ room' = PageSize - first - Len(s) /\ rmem_last' = PageSize
        /\ rmem_at' = rmem_at /\ live' = live /\ read' = read
    BY <1>3 DEF RestOfPage
  <2>4. /\ rmem_at \in Page /\ first \in 0 .. PageSize /\ first + Len(s) <= PageSize
    <3>1. rmem_at \in Page
      BY <1>s, <1>0, <1>3 DEF Shape
    <3>2. first + Len(s) <= PageSize
      <4>1. PageSize - first >= Len(s) /\ first \in Nat
        BY <1>s, <1>0, <1>3, <1>r
      <4> HIDE DEF first
      <4> QED
        BY <1>s, <1>0, <4>1
    <3> QED
      BY <1>r, <3>1, <3>2
  <2>5. own \cup ({NULL} \ {NULL}) = own
    OBVIOUS
  <2>6. PlaceFree(cs, rmem_at, own, rmem_at, first, NULL)
    BY <1>3, <1>r, <2>1, <2>2, <2>4 DEF PlaceFree
  <2>b. List(cs, m, rm, rmem_at, rmem_last, own, lo, hi)
    OBVIOUS
  <2> HIDE DEF first, own
  <2>7. /\ List(Append(cs, Extended(c, s)), Poke(m, c, s), PageSize - first - Len(s),
                rmem_at, PageSize, own \cup ({NULL} \ {NULL}), lo, hi + Len(s))
        /\ Outgrows(cs, rmem_at, Append(cs, Extended(c, s)), rmem_at)
    BY <1>s, <1>0, <2>4, <2>6, <2>b, GrowByPage
  <2> QED
    BY <2>3, <2>5, <2>7 DEF own, Grown
<1>4. CASE /\ ~ CanRealloc(cs)
           /\ Len(s) <= PageSize
           /\ rmem_at = NULL \/ PageSize - Rewound(cs) < Len(s)
           /\ \E p \in Page \ live :
                LET c == PageChunk(p, 0, 0, p)
                IN  /\ chunks' = Append(cs, Extended(c, s))
                    /\ memory' = Poke(m, c, s)
                    /\ room' = PageSize - Len(s)
                    /\ rmem_at' = p /\ rmem_last' = PageSize
                    /\ live' = live \cup {p}
           /\ UNCHANGED read
  <2>1. PICK p \in Page \ live :
               /\ chunks' = Append(cs, Extended(PageChunk(p, 0, 0, p), s))
               /\ memory' = Poke(m, PageChunk(p, 0, 0, p), s)
               /\ room' = PageSize - Len(s)
               /\ rmem_at' = p /\ rmem_last' = PageSize
               /\ live' = live \cup {p}
    BY <1>4
  <2>2. UnderRest(cs, p, 0)
    BY <1>s, <1>0, HeldLive DEF UnderRest
  <2>3. p \notin own /\ p # NULL /\ 0 \in 0 .. PageSize /\ 0 + Len(s) <= PageSize
    BY <1>s, <1>0, <1>4
  <2>4. own \cup ({p} \ {NULL}) = live' \ foreign
    BY <2>1, <2>3
  <2>5. PageSize - 0 - Len(s) = PageSize - Len(s)
    BY <1>s, <1>0
  <2>a. PlaceFree(cs, rmem_at, own, p, 0, p)
    BY <1>s, <1>0, <1>4, <1>h, <2>2, <2>3 DEF PlaceFree
  <2>b. List(cs, m, rm, rmem_at, rmem_last, own, lo, hi)
    OBVIOUS
  <2> HIDE DEF own
  <2>6. /\ List(Append(cs, Extended(PageChunk(p, 0, 0, p), s)),
                Poke(m, PageChunk(p, 0, 0, p), s), PageSize - 0 - Len(s), p, PageSize,
                own \cup ({p} \ {NULL}), lo, hi + Len(s))
        /\ Outgrows(cs, rmem_at, Append(cs, Extended(PageChunk(p, 0, 0, p), s)), p)
    BY <1>s, <1>0, <2>2, <2>3, <2>a, <2>b, GrowByPage
  <2> QED
    BY <1>4, <2>1, <2>4, <2>5, <2>6 DEF Grown
<1> QED
  BY <1>1, <1>2, <1>3, <1>4 DEF Grow
LEMMA OutgrowsTwice ==
  ASSUME NEW a, NEW ra, NEW b, NEW rb, NEW c, NEW rc, Len(a) \in Nat,
         \A i \in 1 .. Len(a) : Size(a[i]) \in Int /\ Size(b[i]) \in Int /\ Size(c[i]) \in Int,
         Len(b) \in Nat, Len(c) \in Nat,
         Outgrows(a, ra, b, rb), Outgrows(b, rb, c, rc)
  PROVE  Outgrows(a, ra, c, rc)
<1>1. /\ c # <<>> /\ Len(b) >= Len(a) /\ Len(c) >= Len(b)
      /\ Simple(a) => Simple(c)
      /\ RestHeld(a, ra) => RestHeld(c, rc)
  BY DEF Outgrows
<1>2. \A i \in 1 .. Len(a) : Size(c[i]) >= Size(a[i])
  <2> SUFFICES ASSUME NEW i \in 1 .. Len(a) PROVE Size(c[i]) >= Size(a[i])
    OBVIOUS
  <2>1. i \in 1 .. Len(b)
    BY <1>1
  <2>2. Size(b[i]) >= Size(a[i]) /\ Size(c[i]) >= Size(b[i])
    BY <2>1 DEF Outgrows
  <2>3. Size(a[i]) \in Int /\ Size(b[i]) \in Int /\ Size(c[i]) \in Int
    OBVIOUS
  <2> HIDE DEF Size
  <2> QED
    BY <2>2, <2>3
<1>3. Len(c) >= Len(a)
  BY <1>1
<1> QED
  BY <1>1, <1>2, <1>3 DEF Outgrows

LEMMA PutStep ==
  ASSUME NEW lo \in Nat, NEW hi \in Nat,
         List(chunks, memory, room, rmem_at, rmem_last, live \ foreign, lo, hi),
         live \subseteq Page, foreign \subseteq live,
         NEW s, Follows(s, hi), PutInRoom(s)
  PROVE  Grown(chunks, rmem_at, lo, hi + Len(s))
<1>s. s \in Seq(Bytes) /\ Len(s) \in Nat /\ Len(s) > 0 /\ \A k \in 1 .. Len(s) : s[k] = hi + k
  BY DEF Follows
<1>0. /\ Shape(chunks, room, rmem_at, rmem_last) /\ memory \in Memories
      /\ Holds(chunks, memory, lo, hi) /\ Held(chunks, live \ foreign) /\ room \in Nat
  BY DEF List, Shape
<1>1. /\ Len(s) <= room
      /\ chunks' = WithTail(chunks, Extended(Last(chunks), s))
      /\ memory' = Poke(memory, Last(chunks), s)
      /\ room' = room - Len(s)
      /\ read' = read /\ rmem_at' = rmem_at /\ rmem_last' = rmem_last /\ live' = live
  BY DEF PutInRoom
<1>2. chunks # <<>> /\ room' \in Nat
  BY <1>s, <1>0, <1>1 DEF Shape
<1>3. Last(chunks).kind # "ref"
  BY <1>s, <1>0, <1>1, <1>2 DEF Shape, TailFits, Last
<1>4. /\ Shape(chunks', room', rmem_at, rmem_last) /\ memory' \in Memories
      /\ Holds(chunks', memory', lo, hi + Len(s))
      /\ SameButTail(chunks, chunks')
  BY <1>s, <1>0, <1>1, <1>2, <1>3, TailGrows
<1>5. Held(chunks', live \ foreign)
  BY <1>0, <1>4, SameHeld
<1>6. chunks' # <<>>
  <2>1. Len(chunks') = Len(chunks) /\ Len(chunks) # 0
    BY <1>0, <1>2, <1>4, ShapeFacts DEF SameButTail
  <2> QED
    BY <2>1, EmptySeq
<1>7. Outgrows(chunks, rmem_at, chunks', rmem_at)
  <2>1. Len(chunks') >= Len(chunks) /\ \A i \in 1 .. Len(chunks) : Size(chunks'[i]) >= Size(chunks[i])
    BY <1>0, <1>4, ShapeFacts DEF SameButTail
  <2> QED
    BY <1>4, <1>6, <2>1, SameKinds DEF Outgrows
<1> QED
  BY <1>1, <1>4, <1>5, <1>7 DEF Grown, List

LEMMA SplitStep ==
  ASSUME NEW lo \in Nat, NEW hi \in Nat,
         List(chunks, memory, room, rmem_at, rmem_last, live \ foreign, lo, hi),
         live \subseteq Page, foreign \subseteq live,
         Simple(chunks) \/ RestHeld(chunks, rmem_at),
         NEW s, Follows(s, hi), SplitGrow(s)
  PROVE  Grown(chunks, rmem_at, lo, hi + Len(s))
<1>s. s \in Seq(Bytes) /\ Len(s) \in Nat /\ Len(s) > 0 /\ \A k \in 1 .. Len(s) : s[k] = hi + k
  BY DEF Follows
<1>0. /\ Shape(chunks, room, rmem_at, rmem_last) /\ memory \in Memories
      /\ Holds(chunks, memory, lo, hi) /\ Held(chunks, live \ foreign) /\ room \in Nat
      /\ Len(s) > room
  BY DEF List, Shape, SplitGrow
<1>1. CASE room = 0
  <2>1. Grow(chunks, memory, s)
    BY <1>1 DEF SplitGrow
  <2> QED
    BY <1>s, <1>0, <2>1, GrowStep
<1>2. CASE room # 0
  <2> DEFINE front == SubSeq(s, 1, room)
             back  == SubSeq(s, room + 1, Len(s))
             t     == Last(chunks)
             cs2   == WithTail(chunks, Extended(t, front))
             m2    == Poke(memory, t, front)
  <2>1. Grow(cs2, m2, back)
    BY <1>2 DEF SplitGrow
  <2>2. /\ front \in Seq(Bytes) /\ Len(front) = room
        /\ \A k \in 1 .. Len(front) : front[k] = hi + k
    BY <1>s, <1>0
  <2>3. /\ back \in Seq(Bytes) /\ Len(back) = Len(s) - room
        /\ \A k \in 1 .. Len(s) - room : back[k] = (hi + room) + k
    BY <1>s, <1>0
  <2>4. Follows(back, hi + room) /\ Len(back) > 0 /\ hi + room \in Nat
    BY <1>s, <1>0, <2>3 DEF Follows
  <2> HIDE DEF front, back
  <2>5. chunks # <<>>
    BY <1>0, <1>2 DEF Shape
  <2>6. t.kind # "ref"
    BY <1>0, <1>2, <2>5 DEF Shape, TailFits, Last
  <2>7. 0 \in Nat /\ (t.kind = "page" => Len(front) <= room /\ 0 = room - Len(front))
    BY <1>0, <2>2
  <2>8. /\ Shape(cs2, 0, rmem_at, rmem_last) /\ m2 \in Memories
        /\ Holds(cs2, m2, lo, hi + Len(front))
        /\ SameButTail(chunks, cs2)
    BY <1>0, <2>2, <2>5, <2>6, <2>7, TailGrows, ZenonT(60)
  <2> HIDE DEF cs2, m2
  <2>9. List(cs2, m2, 0, rmem_at, rmem_last, live \ foreign, lo, hi + room)
    BY <1>0, <2>2, <2>8, SameHeld DEF List
  <2>10. Simple(cs2) \/ RestHeld(cs2, rmem_at)
    BY <2>8, SameKinds
  <2>11. Grown(cs2, rmem_at, lo, (hi + room) + Len(back))
    BY <2>1, <2>4, <2>9, <2>10, GrowStep
  <2>12. (hi + room) + Len(back) = hi + Len(s)
    BY <1>s, <1>0, <2>3
  <2>13. Outgrows(chunks, rmem_at, cs2, rmem_at)
    <3>1. Len(chunks) \in Nat /\ Len(cs2) = Len(chunks) /\ Len(chunks) # 0
      BY <1>0, <2>5, <2>8, ShapeFacts DEF SameButTail
    <3>2. cs2 # <<>> /\ Len(cs2) >= Len(chunks)
      BY <3>1, EmptySeq
    <3>3. \A i \in 1 .. Len(chunks) : Size(cs2[i]) >= Size(chunks[i])
      BY <2>8 DEF SameButTail
    <3> QED
      BY <2>8, <3>2, <3>3, SameKinds DEF Outgrows
  <2>14. Outgrows(cs2, rmem_at, chunks', rmem_at') /\ Shape(chunks', room', rmem_at', rmem_last')
    BY <2>11 DEF Grown, List
  <2>15. Outgrows(chunks, rmem_at, chunks', rmem_at')
    <3>1. /\ Len(chunks) \in Nat /\ Len(cs2) \in Nat /\ Len(chunks') \in Nat
          /\ Len(cs2) = Len(chunks) /\ Len(chunks') >= Len(cs2)
      BY <1>0, <2>8, <2>14, ShapeFacts DEF SameButTail, Outgrows
    <3>2. \A i \in 1 .. Len(chunks) : Size(chunks[i]) \in Int
      BY <1>0, ShapeFacts
    <3>3. \A i \in 1 .. Len(chunks) : Size(cs2[i]) \in Int
      BY <2>8, <3>1, ShapeFacts
    <3>4. \A i \in 1 .. Len(chunks) : Size(chunks'[i]) \in Int
      <4>1. \A i \in 1 .. Len(chunks') : Size(chunks'[i]) \in Int
        BY <2>14, ShapeFacts
      <4> HIDE DEF Size
      <4> QED
        BY <3>1, <4>1
    <3> QED
      BY <2>13, <2>14, <3>1, <3>2, <3>3, <3>4, OutgrowsTwice
  <2> QED
    BY <2>11, <2>12, <2>15 DEF Grown
<1> QED
  BY <1>1, <1>2
-----------------------------------------------------------------------------
(* What a read leaves. *)

\* The kinds of a list whose chunks can be used up one by one.
Divisible(cs, ra) == Simple(cs) \/ AllRefs(cs, ra)

LEMMA RestShape ==
  ASSUME NEW cs, NEW rm, NEW ra, NEW rl, Shape(cs, rm, ra, rl),
         NEW k \in 0 .. Len(cs), k # Len(cs)
  PROVE  Shape(SubSeq(cs, k + 1, Len(cs)), rm, ra, rl)
<1> DEFINE n == Len(cs)
           rest == SubSeq(cs, k + 1, n)
<1>0. n \in Nat /\ k \in Nat /\ k < n /\ cs \in Seq(Chunk)
  BY ShapeFacts DEF Shape
<1>1. /\ rest \in Seq(Chunk) /\ Len(rest) = n - k
      /\ \A i \in 1 .. n - k : rest[i] = cs[i + k] /\ i + k \in 1 .. n
  BY <1>0
<1>2. rest # <<>>
  <2>1. Len(rest) # 0
    BY <1>0, <1>1
  <2> HIDE DEF rest
  <2> QED
    BY <2>1, EmptySeq
<1> HIDE DEF rest
<1>3. \A i \in 1 .. n - k : Formed(rest[i])
  BY <1>1 DEF Shape
<1>4. Apart(rest)
  <2> SUFFICES ASSUME NEW i \in 1 .. n - k, NEW j \in 1 .. n - k, i < j,
                      rest[i].kind = "page", rest[j].at = rest[i].at
               PROVE  rest[i].last <= rest[j].first
    BY <1>1 DEF Apart
  <2>1. i + k < j + k
    BY <1>0
  <2> QED
    BY <1>1, <2>1 DEF Shape, Apart
<1>5. UnderRest(rest, ra, rl)
  BY <1>1 DEF Shape, UnderRest
<1>6. TailFits(rest, rm, ra, rl)
  <2>1. rest[n - k] = cs[n] /\ n - k \in 1 .. n - k
    BY <1>0, <1>1
  <2>2. cs # <<>>
    BY <1>0, EmptySeq
  <2> QED
    BY <1>1, <2>1, <2>2 DEF Shape, TailFits
<1> QED
  BY <1>1, <1>2, <1>3, <1>4, <1>5, <1>6 DEF Shape, rest

LEMMA RestHolders ==
  ASSUME NEW cs, NEW rm, NEW ra, NEW rl, Shape(cs, rm, ra, rl), NEW own, Held(cs, own),
         NEW k \in 0 .. Len(cs), Divisible(cs, ra) \/ k = Len(cs)
  PROVE  /\ Held(SubSeq(cs, k + 1, Len(cs)), own \ {cs[i].mem : i \in 1 .. k})
         /\ Simple(cs) => Simple(SubSeq(cs, k + 1, Len(cs)))
         /\ \A i \in 1 .. Len(cs) - k : SubSeq(cs, k + 1, Len(cs))[i] = cs[i + k]
         /\ Len(SubSeq(cs, k + 1, Len(cs))) = Len(cs) - k
<1> DEFINE n == Len(cs)
           rest == SubSeq(cs, k + 1, n)
           used == {cs[i].mem : i \in 1 .. k}
<1>0. n \in Nat /\ k \in Nat /\ k <= n /\ cs \in Seq(Chunk)
  BY ShapeFacts DEF Shape
<1>1. /\ rest \in Seq(Chunk) /\ Len(rest) = n - k
      /\ \A i \in 1 .. n - k : rest[i] = cs[i + k] /\ i + k \in 1 .. n
  BY <1>0
<1> HIDE DEF rest
<1>2. Simple(cs) => Simple(rest)
  <2> SUFFICES ASSUME Simple(cs), NEW i \in 1 .. n - k
               PROVE  /\ rest[i].kind # "ref"
                      /\ rest[i].kind = "page" => rest[i].mem = rest[i].at
                      /\ rest[i].kind = "heap" => i = n - k
    BY <1>1 DEF Simple
  <2>1. /\ rest[i].kind # "ref"
        /\ rest[i].kind = "page" => rest[i].mem = rest[i].at
        /\ rest[i].kind = "heap" => i + k = n
    BY <1>1 DEF Simple
  <2> QED
    BY <1>0, <2>1
<1>3. ASSUME NEW i \in 1 .. n - k, rest[i].kind = "page"
      PROVE  \E j \in 1 .. n - k : rest[j].mem = rest[i].at
  <2>1. Divisible(cs, ra)
    BY <1>0, <1>3
  <2>2. ~ AllRefs(cs, ra)
    BY <1>1, <1>3 DEF AllRefs
  <2>3. rest[i].mem = rest[i].at
    BY <1>2, <1>1, <1>3, <2>1, <2>2 DEF Divisible, Simple
  <2> QED
    BY <2>3
<1>4. ASSUME NEW i \in 1 .. n - k, NEW j \in 1 .. n - k, i # j, rest[i].mem # NULL
      PROVE  rest[i].mem # rest[j].mem
  <2>1. i + k # j + k /\ i + k \in 1 .. n /\ j + k \in 1 .. n
    BY <1>0, <1>1, <1>4
  <2>2. rest[i].mem = cs[i + k].mem /\ rest[j].mem = cs[j + k].mem
    BY <1>1
  <2>3. \A a, b \in 1 .. Len(cs) : a # b /\ cs[a].mem # NULL => cs[a].mem # cs[b].mem
    BY DEF Held
  <2> QED
    BY <1>4, <2>1, <2>2, <2>3
<1>5. {rest[i].mem : i \in 1 .. n - k} \ {NULL} = own \ used
  <2>1. ASSUME NEW p, p \in {rest[i].mem : i \in 1 .. n - k} \ {NULL}
        PROVE  p \in own \ used
    <3>1. PICK i \in 1 .. n - k : p = rest[i].mem
      BY <2>1
    <3>2. i + k \in 1 .. n /\ p = cs[i + k].mem
      BY <1>1, <3>1
    <3>3. p \in own
      BY <2>1, <3>2 DEF Held
    <3>4. ASSUME NEW j \in 1 .. k PROVE cs[j].mem # p
      <4>1. j \in 1 .. n /\ i + k # j
        BY <1>0
      <4> QED
        BY <2>1, <3>2, <4>1 DEF Held
    <3> QED
      BY <3>3, <3>4
  <2>2. ASSUME NEW p \in own \ used
        PROVE  p \in {rest[i].mem : i \in 1 .. n - k} \ {NULL}
    <3>1. p # NULL /\ \E i \in 1 .. n : p = cs[i].mem
      BY DEF Held
    <3>2. PICK i \in 1 .. n : p = cs[i].mem
      BY <3>1
    <3>3. i \notin 1 .. k
      BY <3>2
    <3>4. i - k \in 1 .. n - k /\ (i - k) + k = i
      BY <1>0, <3>3
    <3> QED
      BY <1>1, <3>1, <3>2, <3>4
  <2> QED
    BY <2>1, <2>2
<1>6. Held(rest, own \ used)
  BY <1>1, <1>3, <1>4, <1>5 DEF Held
<1> QED
  BY <1>1, <1>2, <1>6 DEF rest

LEMMA ConsumeStep ==
  ASSUME NEW lo \in Nat, NEW hi \in Nat,
         List(chunks, memory, room, rmem_at, rmem_last, live \ foreign, lo, hi),
         live \subseteq Page, foreign \subseteq live,
         NEW k \in 0 .. Len(chunks), NEW r,
         Divisible(chunks, rmem_at) \/ k = Len(chunks),
         NEW pos \in [1 .. Len(chunks) + 1 -> Nat], Laid(chunks, memory, pos),
         Consume(k, r)
  PROVE  /\ List(chunks', memory', room', rmem_at', rmem_last', live' \ foreign,
                 pos[k + 1], pos[Len(chunks) + 1])
         /\ live' \subseteq Page /\ foreign \subseteq live'
         /\ Simple(chunks) => Simple(chunks')
         /\ AllRefs(chunks, rmem_at) => AllRefs(chunks', rmem_at')
         /\ k = Len(chunks) => RestHeld(chunks', rmem_at')
         /\ chunks' = <<>> <=> k = Len(chunks)
         /\ \A i \in 1 .. Len(chunks) - k : chunks'[i] = chunks[i + k]
         /\ Len(chunks') = Len(chunks) - k
<1> DEFINE n == Len(chunks)
           used == {chunks[i].mem : i \in 1 .. k}
           own == live \ foreign
<1>0. /\ Shape(chunks, room, rmem_at, rmem_last) /\ memory \in Memories
      /\ Held(chunks, own) /\ n \in Nat /\ k <= n /\ k \in Nat
      /\ PageSize \in Nat /\ PageSize > 0 /\ NULL \notin Page /\ chunks \in Seq(Chunk)
  BY ShapeFacts, BufferAssumption DEF List, Shape
<1>1. /\ live' = live \ used
      /\ memory' = [p \in Page |-> IF p \in live' THEN memory[p] ELSE Blank]
      /\ chunks' = SubSeq(chunks, k + 1, n)
      /\ IF k = n THEN room' = 0 /\ rmem_at' = NULL /\ rmem_last' = 0
         ELSE UNCHANGED <<room, rmem_at, rmem_last>>
  BY DEF Consume
<1>2. used \subseteq own \cup {NULL}
  <2>1. ASSUME NEW i \in 1 .. k PROVE chunks[i].mem \in own \cup {NULL}
    <3>1. i \in 1 .. n
      BY <1>0
    <3> QED
      BY <1>0, <3>1 DEF Held
  <2> QED
    BY <2>1
<1>3. live' \ foreign = own \ used /\ live' \subseteq Page /\ foreign \subseteq live'
  BY <1>0, <1>1, <1>2
<1>4. /\ Held(chunks', own \ used)
      /\ Simple(chunks) => Simple(chunks')
      /\ \A i \in 1 .. n - k : chunks'[i] = chunks[i + k]
      /\ Len(chunks') = n - k
  BY <1>0, <1>1, RestHolders, ZenonT(60)
<1>5. chunks' = <<>> <=> k = n
  <2>1. chunks' \in Seq(Chunk)
    <3>1. \A i \in k + 1 .. n : chunks[i] \in Chunk
      BY <1>0
    <3> QED
      BY <1>0, <1>1, <3>1, SubSeqProperties
  <2>2. Len(chunks') = n - k
    BY <1>4
  <2>3. chunks' = <<>> <=> Len(chunks') = 0
    BY <2>1, EmptySeq
  <2> QED
    BY <1>0, <2>2, <2>3
<1>6. Shape(chunks', room', rmem_at', rmem_last')
  <2>1. CASE k = n
    <3>1. chunks' = <<>> /\ Len(chunks') = 0 /\ <<>> \in Seq(Chunk)
      BY <1>5, <2>1, EmptySeq
    <3> QED
      BY <1>0, <1>1, <2>1, <3>1 DEF Shape, Apart, UnderRest, TailFits
  <2>2. CASE k # n
    BY <1>0, <1>1, <2>2, RestShape
  <2> QED
    BY <2>1, <2>2
<1>7. memory' \in Memories
  <2>1. Blank \in [1 .. PageSize -> Bytes]
    BY BufferAssumption DEF Blank, Bytes
  <2> QED
    BY <1>0, <1>1, <2>1 DEF Memories
<1>8. Kept(chunks', memory, memory')
  <2> SUFFICES ASSUME NEW i \in 1 .. Len(chunks'), NEW j \in 1 .. Size(chunks'[i])
               PROVE  ByteIn(chunks'[i], memory', j) = ByteIn(chunks'[i], memory, j)
    BY DEF Kept
  <2>1. CASE chunks'[i].kind # "page"
    BY <2>1 DEF ByteIn
  <2>2. CASE chunks'[i].kind = "page"
    <3>1. chunks'[i].at \in own \ used
      BY <1>4, <1>6, <2>2, HeldLive
    <3>2. chunks'[i].at \in live' /\ chunks'[i].at \in Page
      BY <1>3, <3>1
    <3>3. memory'[chunks'[i].at] = memory[chunks'[i].at]
      BY <1>1, <3>2
    <3> QED
      BY <3>3 DEF ByteIn
  <2> QED
    BY <2>1, <2>2
<1>9. Holds(chunks', memory', pos[k + 1], pos[n + 1])
  BY <1>0, <1>1, <1>8, LaidRest
<1>10. AllRefs(chunks, rmem_at) => AllRefs(chunks', rmem_at')
  <2>1. \A i \in 1 .. n - k : i + k \in 1 .. n
    BY <1>0
  <2> QED
    BY <1>1, <1>4, <2>1 DEF AllRefs
<1>11. k = n => RestHeld(chunks', rmem_at')
  BY <1>1 DEF RestHeld
<1> QED
  BY <1>3, <1>4, <1>5, <1>6, <1>7, <1>9, <1>10, <1>11 DEF List
=============================================================================
