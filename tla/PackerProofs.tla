---------------------------- MODULE PackerProofs ----------------------------
(***************************************************************************)
(* Proofs about Packer, for any objects, any nesting of recursive types    *)
(* and any uses: its types, that no exception loses what was written       *)
(* before, that the collector takes no string a buffer refers to, that     *)
(* every head reads back as what it was written for, and that the stream   *)
(* is whole objects.                                                       *)
(***************************************************************************)
EXTENDS PackedStream, SequenceTheorems, WellFoundedInduction, TLAPS

-----------------------------------------------------------------------------
(* Sequences of anything. *)

IsSeq(s) == s \in Seq(Range(s))

LEMMA SeqFacts ==
  ASSUME NEW s, IsSeq(s)
  PROVE  /\ Len(s) \in Nat /\ DOMAIN s = 1 .. Len(s)
         /\ \A S : Range(s) \subseteq S => s \in Seq(S)
         /\ \A i \in 1 .. Len(s) : s[i] \in Range(s)
<1>1. Len(s) \in Nat /\ DOMAIN s = 1 .. Len(s)
  BY DEF IsSeq
<1>2. \A i \in 1 .. Len(s) : s[i] \in Range(s)
  BY <1>1 DEF Range
<1>3. ASSUME NEW S, Range(s) \subseteq S PROVE s \in Seq(S)
  <2>1. s = [i \in 1 .. Len(s) |-> s[i]]
    BY <1>1 DEF IsSeq
  <2>2. \A i \in 1 .. Len(s) : s[i] \in S
    BY <1>2, <1>3
  <2> QED
    BY <1>1, <2>1, <2>2, SeqDef
<1> QED
  BY <1>1, <1>2, <1>3

LEMMA SomeSeq ==
  ASSUME NEW S, NEW s \in Seq(S)
  PROVE  IsSeq(s) /\ Range(s) \subseteq S
<1>1. Len(s) \in Nat /\ DOMAIN s = 1 .. Len(s) /\ \A i \in 1 .. Len(s) : s[i] \in S
  OBVIOUS
<1>2. s = [i \in 1 .. Len(s) |-> s[i]] /\ \A i \in 1 .. Len(s) : s[i] \in Range(s)
  BY <1>1 DEF Range
<1>3. s \in Seq(Range(s))
  BY <1>1, <1>2, SeqDef
<1> QED
  BY <1>1, <1>3 DEF IsSeq, Range

LEMMA ConcatIs ==
  ASSUME NEW s, NEW t, IsSeq(s), IsSeq(t)
  PROVE  /\ IsSeq(s \o t) /\ Len(s \o t) = Len(s) + Len(t)
         /\ \A i \in 1 .. Len(s) + Len(t) :
              (s \o t)[i] = IF i <= Len(s) THEN s[i] ELSE t[i - Len(s)]
<1> DEFINE S == Range(s) \cup Range(t)
<1>1. s \in Seq(S) /\ t \in Seq(S)
  BY SeqFacts
<1> HIDE DEF S
<1>2. s \o t \in Seq(S)
  BY <1>1
<1>3. IsSeq(s \o t)
  BY <1>2, SomeSeq
<1> QED
  BY <1>1, <1>3, ConcatProperties

LEMMA ConcatTwice ==
  ASSUME NEW s, NEW t, NEW u, IsSeq(s), IsSeq(t), IsSeq(u)
  PROVE  (s \o t) \o u = s \o (t \o u)
<1> DEFINE S == Range(s) \cup Range(t) \cup Range(u)
<1>1. s \in Seq(S) /\ t \in Seq(S) /\ u \in Seq(S)
  BY SeqFacts
<1> HIDE DEF S
<1> QED
  BY <1>1, ConcatAssociative

\* A sequence is what lies before a place and what lies behind it.
LEMMA CutIs ==
  ASSUME NEW s, IsSeq(s), NEW c \in 0 .. Len(s)
  PROVE  /\ IsSeq(SubSeq(s, 1, c)) /\ Len(SubSeq(s, 1, c)) = c
         /\ \A i \in 1 .. c : SubSeq(s, 1, c)[i] = s[i]
         /\ IsSeq(SubSeq(s, c + 1, Len(s)))
         /\ Range(SubSeq(s, c + 1, Len(s))) \subseteq Range(s)
         /\ SubSeq(s, 1, c) \o SubSeq(s, c + 1, Len(s)) = s
<1> DEFINE S == Range(s)
           a == SubSeq(s, 1, c)
           b == SubSeq(s, c + 1, Len(s))
<1>1. s \in Seq(S) /\ Len(s) \in Nat /\ \A i \in 1 .. Len(s) : s[i] \in S
  BY SeqFacts DEF IsSeq
<1> HIDE DEF S
<1>2. /\ a \in Seq(S) /\ Len(a) = c /\ \A i \in 1 .. c : a[i] = s[i]
      /\ b \in Seq(S) /\ Len(b) = Len(s) - c /\ \A i \in 1 .. Len(s) - c : b[i] = s[c + i]
  <2>1. \A i \in 1 .. c : s[i] \in S
    BY <1>1
  <2>2. \A i \in c + 1 .. Len(s) : s[i] \in S
    BY <1>1
  <2>3. /\ a \in Seq(S) /\ Len(a) = (IF 1 <= c THEN c - 1 + 1 ELSE 0)
        /\ \A i \in 1 .. c - 1 + 1 : a[i] = s[1 + i - 1]
    BY <2>1, SubSeqProperties
  <2>4. /\ b \in Seq(S)
        /\ Len(b) = (IF c + 1 <= Len(s) THEN Len(s) - (c + 1) + 1 ELSE 0)
        /\ \A i \in 1 .. Len(s) - (c + 1) + 1 : b[i] = s[c + 1 + i - 1]
    BY <1>1, <2>2, SubSeqProperties
  <2>5. /\ \A i \in 1 .. c : i \in 1 .. c - 1 + 1 /\ 1 + i - 1 = i
        /\ \A i \in 1 .. Len(s) - c : i \in 1 .. Len(s) - (c + 1) + 1 /\ c + 1 + i - 1 = c + i
    BY <1>1
  <2> QED
    BY <1>1, <2>3, <2>4, <2>5
<1> HIDE DEF a, b
<1>3. IsSeq(a) /\ IsSeq(b) /\ Range(b) \subseteq S
  BY <1>2, SomeSeq
<1>4. a \o b \in Seq(S) /\ Len(a \o b) = Len(s)
  BY <1>1, <1>2, ConcatProperties
<1>5. ASSUME NEW i \in 1 .. Len(s) PROVE (a \o b)[i] = s[i]
  <2>1. (a \o b)[i] = IF i <= c THEN a[i] ELSE b[i - c]
    BY <1>1, <1>2, <1>3, ConcatIs
  <2>2. CASE i <= c
    BY <1>2, <2>1, <2>2
  <2>3. CASE ~ (i <= c)
    <3>1. i - c \in 1 .. Len(s) - c /\ c + (i - c) = i
      BY <1>1, <2>3
    <3> QED
      BY <1>2, <2>1, <2>3, <3>1
  <2> QED
    BY <2>2, <2>3
<1>6. a \o b = s
  BY <1>1, <1>4, <1>5, SeqEqual
<1> QED
  BY <1>2, <1>3, <1>6 DEF S, a, b

LEMMA AppendIs ==
  ASSUME NEW s, IsSeq(s), NEW e
  PROVE  /\ IsSeq(Append(s, e)) /\ Len(Append(s, e)) = Len(s) + 1
         /\ \A i \in 1 .. Len(s) : Append(s, e)[i] = s[i]
         /\ Append(s, e)[Len(s) + 1] = e
         /\ Append(s, e) # <<>>
<1> DEFINE S == Range(s) \cup {e}
<1>1. s \in Seq(S) /\ e \in S
  BY SeqFacts
<1> HIDE DEF S
<1>2. /\ Append(s, e) \in Seq(S) /\ Append(s, e) # <<>>
      /\ Len(Append(s, e)) = Len(s) + 1
      /\ \A i \in 1 .. Len(s) : Append(s, e)[i] = s[i]
      /\ Append(s, e)[Len(s) + 1] = e
  BY <1>1, AppendProperties
<1>3. IsSeq(Append(s, e))
  BY <1>2, SomeSeq
<1> QED
  BY <1>2, <1>3

LEMMA OneIs ==
  ASSUME NEW e
  PROVE  /\ IsSeq(<<e>>) /\ Len(<<e>>) = 1 /\ <<e>>[1] = e /\ Range(<<e>>) = {e}
         /\ IsSeq(<<>>) /\ Len(<<>>) = 0 /\ Range(<<>>) = {}
<1>1. <<e>> \in Seq({e}) /\ <<>> \in Seq({})
  OBVIOUS
<1>2. IsSeq(<<e>>) /\ IsSeq(<<>>)
  BY <1>1, SomeSeq
<1> QED
  BY <1>2 DEF Range

LEMMA RangeOfConcat ==
  ASSUME NEW s, NEW t, IsSeq(s), IsSeq(t)
  PROVE  Range(s \o t) \subseteq Range(s) \cup Range(t)
<1>1. s \in Seq(Range(s) \cup Range(t)) /\ t \in Seq(Range(s) \cup Range(t))
  BY SeqFacts
<1>2. s \o t \in Seq(Range(s) \cup Range(t))
  BY <1>1
<1> QED
  BY <1>2, SomeSeq

\* t is s and more.
Extends(t, s) == \E x : IsSeq(x) /\ t = s \o x

LEMMA PrefixStays ==
  ASSUME NEW k, NEW s, NEW t, IsSeq(k), IsSeq(s), IsPrefix(k, s), Extends(t, s)
  PROVE  IsPrefix(k, t)
<1>1. PICK x : IsSeq(x) /\ t = s \o x
  BY DEF Extends
<1>2. /\ IsSeq(t) /\ Len(t) = Len(s) + Len(x) /\ Len(k) \in Nat /\ Len(s) \in Nat
      /\ Len(x) \in Nat
      /\ \A i \in 1 .. Len(s) + Len(x) : t[i] = IF i <= Len(s) THEN s[i] ELSE x[i - Len(s)]
  BY <1>1, ConcatIs, SeqFacts
<1>3. Len(k) <= Len(s) /\ SubSeq(k, 1, Len(k)) = SubSeq(s, 1, Len(k))
  BY DEF IsPrefix
<1>4. Len(k) \in 0 .. Len(s) /\ Len(k) \in 0 .. Len(t)
  BY <1>2, <1>3
<1>5. /\ IsSeq(SubSeq(s, 1, Len(k))) /\ Len(SubSeq(s, 1, Len(k))) = Len(k)
      /\ \A i \in 1 .. Len(k) : SubSeq(s, 1, Len(k))[i] = s[i]
      /\ IsSeq(SubSeq(t, 1, Len(k))) /\ Len(SubSeq(t, 1, Len(k))) = Len(k)
      /\ \A i \in 1 .. Len(k) : SubSeq(t, 1, Len(k))[i] = t[i]
  BY <1>2, <1>4, CutIs
<1>6. \A i \in 1 .. Len(k) : SubSeq(t, 1, Len(k))[i] = SubSeq(s, 1, Len(k))[i]
  BY <1>2, <1>4, <1>5
<1> DEFINE S == Range(SubSeq(s, 1, Len(k))) \cup Range(SubSeq(t, 1, Len(k)))
<1>7. SubSeq(s, 1, Len(k)) \in Seq(S) /\ SubSeq(t, 1, Len(k)) \in Seq(S)
  BY <1>5, SeqFacts
<1>8. SubSeq(s, 1, Len(k)) = SubSeq(t, 1, Len(k))
  BY <1>5, <1>6, <1>7, SeqEqual
<1> QED
  BY <1>2, <1>3, <1>4, <1>8 DEF IsPrefix

LEMMA PrefixOfItself ==
  ASSUME NEW s, IsSeq(s), NEW t, Extends(t, s)
  PROVE  IsPrefix(s, t)
<1>1. IsPrefix(s, s)
  BY SeqFacts DEF IsPrefix
<1> QED
  BY <1>1, PrefixStays
-----------------------------------------------------------------------------
(* Strings that bytes refer to. *)

LEMMA ReferencesAre ==
  ASSUME NEW s, IsSeq(s)
  PROVE  \A r : r \in References(s)
                  <=> r # 0 /\ \E e \in Range(s) : e.h = "body" /\ r = e.ref
BY SeqFacts DEF References, Range

LEMMA ReferencesOfPart ==
  ASSUME NEW s, NEW t, IsSeq(s), IsSeq(t), Range(t) \subseteq Range(s)
  PROVE  References(t) \subseteq References(s)
BY ReferencesAre

LEMMA ReferencesOfConcat ==
  ASSUME NEW s, NEW t, IsSeq(s), IsSeq(t)
  PROVE  References(s \o t) \subseteq References(s) \cup References(t)
<1>1. IsSeq(s \o t) /\ Range(s \o t) \subseteq Range(s) \cup Range(t)
  BY ConcatIs, RangeOfConcat
<1> QED
  BY <1>1, ReferencesAre

LEMMA ReferencesOfNone == References(<<>>) = {}
BY OneIs, ReferencesAre

\* Bytes that refer to nothing.
Plain(s) == IsSeq(s) /\ References(s) = {}

LEMMA PlainConcat ==
  ASSUME NEW s, NEW t, Plain(s), Plain(t)
  PROVE  Plain(s \o t)
BY ConcatIs, ReferencesOfConcat DEF Plain

LEMMA PlainCopy ==
  ASSUME NEW s, IsSeq(s)
  PROVE  Plain(Copied(s))
<1> DEFINE c == Copied(s)
           e(i) == IF s[i].h = "body" THEN [s[i] EXCEPT !.ref = 0] ELSE s[i]
<1>1. Len(s) \in Nat /\ DOMAIN s = 1 .. Len(s)
  BY SeqFacts
<1>2. c = [i \in 1 .. Len(s) |-> e(i)]
  BY <1>1 DEF Copied
<1> HIDE DEF c
<1>3. c \in Seq(Range(c))
  <2>1. c \in [1 .. Len(s) -> Range(c)]
    BY <1>2 DEF Range
  <2> QED
    BY <1>1, <2>1, SeqDef
<1>4. DOMAIN c = 1 .. Len(s)
  BY <1>2
<1>5. ASSUME NEW i \in 1 .. Len(s), c[i].h = "body" PROVE c[i].ref = 0
  <2>1. c[i] = e(i)
    BY <1>2
  <2>2. CASE s[i].h # "body"
    BY <2>1, <2>2, <1>5
  <2>3. CASE s[i].h = "body"
    BY <2>1, <2>3, <1>5
  <2> QED
    BY <2>2, <2>3
<1>6. References(c) = {}
  BY <1>4, <1>5 DEF References
<1> QED
  BY <1>3, <1>6 DEF Plain, IsSeq, c
-----------------------------------------------------------------------------
(* Heads. *)

LEMMA LeadIsPlain ==
  ASSUME NEW h, h # "body", NEW w, NEW n
  PROVE  Plain(<<Lead(h, w, n)>>)
<1>1. Lead(h, w, n).h # "body"
  BY DEF Lead
<1> QED
  BY <1>1, OneIs, ReferencesAre DEF Plain

LEMMA BytesArePlain ==
  ASSUME NEW n, NEW w \in Nat
  PROVE  Plain(Bytes(n, w))
<1> DEFINE c == Bytes(n, w)
           e(i) == Lead("byte", 0, ((n % Limit(w)) \div Limit(w - i)) % Base)
<1>1. c = [i \in 1 .. w |-> e(i)]
  BY DEF Bytes
<1>2. \A i \in 1 .. w : e(i).h = "byte"
  BY DEF Lead
<1> HIDE DEF c, e
<1>3. c \in [1 .. w -> Range(c)]
  BY <1>1 DEF Range
<1>4. IsSeq(c)
  BY <1>3, SeqDef DEF IsSeq
<1>5. \A i \in DOMAIN c : c[i].h # "body"
  BY <1>1, <1>2
<1>6. References(c) = {}
  BY <1>5 DEF References
<1> QED
  BY <1>4, <1>6 DEF Plain, c

LEMMA HeadsArePlain ==
  /\ \A h, n : h # "body" => Plain(Fix(h, n))
  /\ \A h, n : \A w \in Nat : h # "body" => Plain(Wide(h, n, w))
<1>1. ASSUME NEW h, NEW n, NEW w \in Nat, h # "body" PROVE Plain(Wide(h, n, w))
  BY <1>1, LeadIsPlain, BytesArePlain, PlainConcat DEF Wide
<1> QED
  BY <1>1, LeadIsPlain DEF Fix

\* The heads that the packer writes.
LEMMA HeadersArePlain ==
  /\ \A n : /\ Plain(WriteLong(n)) /\ Plain(WriteDouble(n)) /\ Plain(WriteFloat(n))
            /\ Plain(BinHeader(n)) /\ Plain(CountHeader("array", n))
            /\ Plain(CountHeader("map", n))
  /\ \A n, c : Plain(RawHeader(n, c))
  /\ \A n, t : Plain(ExtHeader(n, t))
<1>1. \A n : UnsignedWidth(n) \in Nat /\ SignedWidth(n) \in Nat /\ LengthWidth(n) \in Nat
  BY DEF UnsignedWidth, SignedWidth, LengthWidth
<1>2. \A n : Plain(WriteLong(n)) /\ Plain(WriteDouble(n)) /\ Plain(WriteFloat(n))
  BY <1>1, HeadsArePlain DEF WriteLong, WriteDouble, WriteFloat
<1>3. \A n : Plain(BinHeader(n)) /\ Plain(CountHeader("array", n)) /\ Plain(CountHeader("map", n))
  BY <1>1, HeadsArePlain DEF BinHeader, CountHeader
<1>4. \A n, c : Plain(RawHeader(n, c))
  BY <1>1, HeadsArePlain DEF RawHeader
<1>5. ASSUME NEW n, NEW t PROVE Plain(ExtHeader(n, t))
  <2>1. Plain(Fix("ext", n)) /\ Plain(Wide("ext", n, LengthWidth(n)))
    BY <1>1, HeadsArePlain
  <2>2. Plain(Bytes(t, 1))
    BY BytesArePlain
  <2> QED
    BY <2>1, <2>2, PlainConcat DEF ExtHeader
<1> QED
  BY <1>2, <1>3, <1>4, <1>5
-----------------------------------------------------------------------------
(* The stack and the buffers. *)

\* A set of places that is not empty has a first one.
LEMMA FirstIs ==
  ASSUME NEW S \in SUBSET Nat, S # {}
  PROVE  Min(S) \in S /\ \A y \in S : Min(S) <= y
<1>1. PICK x \in S : \A y \in S : <<y, x>> \notin OpToRel(<, Nat)
  BY NatLessThanWellFounded, WFMin
<1>2. \A y \in S : ~(y < x)
  BY <1>1, Zenon DEF OpToRel
<1>3. \A y \in S : x <= y
  BY <1>2
<1> QED
  BY <1>3 DEF Min

NoRec(fs, from, to) == \A i \in from .. to : fs[i].k # "rec"

\* The first recursive frame from `from` on.
FirstRec(fs, from, i) ==
    i \in from .. Len(fs) /\ fs[i].k = "rec" /\ NoRec(fs, from, i - 1)

LEMMA RestoredIs ==
  ASSUME NEW fs, IsSeq(fs), NEW from \in Nat \ {0}, NEW b
  PROVE  /\ NoRec(fs, from, Len(fs)) \/ \E i : FirstRec(fs, from, i)
         /\ NoRec(fs, from, Len(fs)) => Restored(fs, from, b) = b
         /\ \A i : FirstRec(fs, from, i) => Restored(fs, from, b) = fs[i].parent
<1> DEFINE P == Parents(fs, from)
<1>1. Len(fs) \in Nat
  BY SeqFacts
<1>2. P \in SUBSET Nat /\ \A i : i \in P <=> i \in from .. Len(fs) /\ fs[i].k = "rec"
  BY <1>1 DEF Parents
<1>3. NoRec(fs, from, Len(fs)) <=> P = {}
  BY <1>2 DEF NoRec
<1> HIDE DEF P
<1>4. ASSUME P # {} PROVE FirstRec(fs, from, Min(P))
  <2>1. Min(P) \in P /\ \A y \in P : Min(P) <= y
    BY <1>2, <1>4, FirstIs
  <2> QED
    BY <1>1, <1>2, <2>1 DEF FirstRec, NoRec
<1>5. ASSUME NEW i, FirstRec(fs, from, i) PROVE P # {} /\ i = Min(P)
  <2>1. i \in P
    BY <1>2, <1>5 DEF FirstRec
  <2>2. Min(P) \in P /\ Min(P) <= i
    BY <1>2, <2>1, FirstIs
  <2>3. ~ (Min(P) \in from .. i - 1)
    BY <1>2, <1>5, <2>2 DEF FirstRec, NoRec
  <2> QED
    BY <1>1, <1>2, <2>1, <2>2, <2>3
<1> QED
  BY <1>3, <1>4, <1>5 DEF Restored, P

IsBuffer(b, m) ==
    /\ b = [bytes |-> b.bytes, io |-> b.io, clean |-> b.clean]
    /\ IsSeq(b.bytes) /\ b.io \in BOOLEAN /\ b.clean \in BOOLEAN
    /\ References(b.bytes) \subseteq 1 .. m

\* What kinds of objects a kind of frame works on.
Suits(k, v) ==
    /\ k \in Ruby \cup {"array", "hash"} /\ v \in Object
    /\ k \in {"array", "hash"} => Data[v].k = k
    /\ k \in Writing => Data[v].k \notin {"array", "hash"}
    /\ k \in Ruby => Data[v].k # "ext"

\* A frame, where ins is in the containers and m references are out.  A hash may
\* have lost pairs since it began.
IsFrame(f, ins, m) ==
    /\ f = [k |-> f.k, v |-> f.v, at |-> f.at, len |-> f.len, todo |-> f.todo,
            parent |-> f.parent, held |-> f.held]
    /\ Suits(f.k, f.v)
    /\ f.len \in Nat /\ f.at \in 0 .. f.len /\ f.todo \in Seq(Object)
    /\ f.k \in Writing => f.len = Len(Data[f.v].kids)
    /\ f.k = "hash" => f.at % 2 = 0 /\ Len(ins[f.v]) <= f.len
    /\ IsBuffer(f.parent, m)
    /\ f.held \subseteq 1 .. m /\ References(f.parent.bytes) \subseteq f.held

\* The stack fs with the buffer b on top of it.  Only the buffer of the owner
\* can have an IO, and no buffer refers to one of the dead d.
Sound(fs, b, ins, m, d) ==
    /\ IsSeq(fs) /\ \A i \in 1 .. Len(fs) : IsFrame(fs[i], ins, m)
    /\ IsBuffer(b, m)
    /\ \A i \in 1 .. Len(fs) : fs[i].k = "rec" /\ fs[i].parent.io => NoRec(fs, 1, i - 1)
    /\ b.io => NoRec(fs, 1, Len(fs))
    /\ References(b.bytes) \cap d = {}
    /\ \A i \in 1 .. Len(fs) : References(fs[i].parent.bytes) \cap d = {}

\* The frames above the first j are gone: their buffers come back, and the
\* buffer of the owner is the same.
LEMMA Unwound ==
  ASSUME NEW fs, NEW b, NEW ins, NEW m, NEW d, Sound(fs, b, ins, m, d),
         NEW j \in 0 .. Len(fs)
  PROVE  /\ Sound(SubSeq(fs, 1, j), Restored(fs, j + 1, b), ins, m, d)
         /\ Restored(SubSeq(fs, 1, j), 1, Restored(fs, j + 1, b)) = Restored(fs, 1, b)
<1> DEFINE g == SubSeq(fs, 1, j)
           c == Restored(fs, j + 1, b)
<1>1. IsSeq(fs) /\ Len(fs) \in Nat
  BY SeqFacts DEF Sound
<1>2. IsSeq(g) /\ Len(g) = j /\ \A i \in 1 .. j : g[i] = fs[i]
  BY <1>1, CutIs
<1>3. \/ NoRec(fs, j + 1, Len(fs)) /\ c = b
      \/ \E i : FirstRec(fs, j + 1, i) /\ c = fs[i].parent
  BY <1>1, RestoredIs
<1> HIDE DEF g, c
<1>4. /\ IsBuffer(c, m) /\ References(c.bytes) \cap d = {}
      /\ c.io => NoRec(fs, 1, j)
  <2>1. CASE c = b
    BY <1>1, <2>1 DEF Sound, NoRec
  <2>2. ASSUME NEW i, FirstRec(fs, j + 1, i), c = fs[i].parent
        PROVE  /\ IsBuffer(c, m) /\ References(c.bytes) \cap d = {}
               /\ c.io => NoRec(fs, 1, j)
    <3>1. i \in 1 .. Len(fs) /\ j <= i - 1 /\ fs[i].k = "rec"
      BY <1>1, <2>2 DEF FirstRec
    <3>2. IsBuffer(c, m) /\ References(c.bytes) \cap d = {}
      BY <2>2, <3>1 DEF Sound, IsFrame
    <3>3. c.io => NoRec(fs, 1, i - 1)
      BY <2>2, <3>1 DEF Sound
    <3> QED
      BY <1>1, <3>1, <3>2, <3>3 DEF NoRec
  <2> QED
    BY <1>3, <2>1, <2>2
<1>5. Sound(g, c, ins, m, d)
  <2>1. \A i \in 1 .. j : i \in 1 .. Len(fs) /\ \A k \in 1 .. i - 1 : k \in 1 .. j
    BY <1>1
  <2> QED
    BY <1>2, <1>4, <2>1 DEF Sound, NoRec
<1>6. Restored(g, 1, c) = Restored(fs, 1, b)
  <2>1. ASSUME NEW i, FirstRec(g, 1, i) PROVE Restored(g, 1, c) = Restored(fs, 1, b)
    <3>1. FirstRec(fs, 1, i) /\ g[i] = fs[i]
      BY <1>1, <1>2, <2>1 DEF FirstRec, NoRec
    <3> QED
      BY <1>1, <1>2, <2>1, <3>1, RestoredIs
  <2>2. CASE NoRec(g, 1, Len(g))
    <3>1. Restored(g, 1, c) = c
      BY <1>2, <2>2, RestoredIs
    <3>2. NoRec(fs, 1, j)
      BY <1>2, <2>2 DEF NoRec
    <3>3. CASE NoRec(fs, j + 1, Len(fs)) /\ c = b
      <4>1. NoRec(fs, 1, Len(fs))
        BY <1>1, <3>2, <3>3 DEF NoRec
      <4> QED
        BY <1>1, <3>1, <3>3, <4>1, RestoredIs
    <3>4. ASSUME NEW i, FirstRec(fs, j + 1, i), c = fs[i].parent
          PROVE  Restored(fs, 1, b) = c
      <4>1. FirstRec(fs, 1, i)
        BY <1>1, <3>2, <3>4 DEF FirstRec, NoRec
      <4>2. Restored(fs, 1, b) = fs[i].parent
        BY <1>1, <4>1, RestoredIs
      <4> QED
        BY <3>4, <4>2
    <3> QED
      BY <1>3, <3>1, <3>3, <3>4
  <2> QED
    BY <1>2, <2>1, <2>2, RestoredIs
<1> QED
  BY <1>5, <1>6 DEF g, c

LEMMA OwnersBytes ==
  ASSUME NEW fs, NEW b, NEW ins, NEW m, NEW d, Sound(fs, b, ins, m, d)
  PROVE  IsSeq(Restored(fs, 1, b).bytes)
<1>1. IsSeq(fs)
  BY DEF Sound
<1>2. CASE NoRec(fs, 1, Len(fs))
  BY <1>1, <1>2, RestoredIs DEF Sound, IsBuffer
<1>3. ASSUME NEW i, FirstRec(fs, 1, i) PROVE IsSeq(Restored(fs, 1, b).bytes)
  <2>1. Restored(fs, 1, b) = fs[i].parent
    BY <1>1, <1>3, RestoredIs
  <2>2. i \in 1 .. Len(fs)
    BY <1>3 DEF FirstRec
  <2>3. IsFrame(fs[i], ins, m)
    BY <2>2 DEF Sound
  <2> QED
    BY <2>1, <2>3 DEF IsFrame, IsBuffer
<1> QED
  BY <1>1, <1>2, <1>3, RestoredIs

\* Another buffer instead of b.
LEMMA Rewritten ==
  ASSUME NEW fs, NEW b, NEW c, NEW ins, NEW m \in Nat, NEW n \in Nat, NEW d,
         Sound(fs, b, ins, m, d), m <= n,
         IsBuffer(c, n), c.io => b.io, References(c.bytes) \cap d = {}
  PROVE  Sound(fs, c, ins, n, d)
<1>1. 1 .. m \subseteq 1 .. n
  OBVIOUS
<1>2. \A i \in 1 .. Len(fs) : IsFrame(fs[i], ins, n)
  BY <1>1 DEF Sound, IsFrame, IsBuffer
<1> QED
  BY <1>2 DEF Sound

\* What the owner gets follows what it got, if only a buffer without a
\* recursive type above it loses bytes.
LEMMA StreamGrows ==
  ASSUME NEW fs, NEW b, NEW c, IsSeq(fs), NEW old, NEW new, IsSeq(old),
         IsSeq(b.bytes), \A i \in 1 .. Len(fs) : IsSeq(fs[i].parent.bytes),
         NoRec(fs, 1, Len(fs)) => Extends(new \o c.bytes, old \o b.bytes),
         ~ NoRec(fs, 1, Len(fs)) => new = old
  PROVE  Extends(new \o Restored(fs, 1, c).bytes, old \o Restored(fs, 1, b).bytes)
<1>1. CASE NoRec(fs, 1, Len(fs))
  <2>1. Restored(fs, 1, c) = c /\ Restored(fs, 1, b) = b
    BY <1>1, RestoredIs
  <2> QED
    BY <1>1, <2>1
<1>2. CASE ~ NoRec(fs, 1, Len(fs))
  <2>1. PICK i : FirstRec(fs, 1, i)
    BY <1>2, RestoredIs
  <2>2. Restored(fs, 1, c) = fs[i].parent /\ Restored(fs, 1, b) = fs[i].parent
    BY <2>1, RestoredIs
  <2>3. IsSeq(fs[i].parent.bytes)
    BY <2>1 DEF FirstRec
  <2> DEFINE s == old \o fs[i].parent.bytes
  <2>4. IsSeq(s) /\ IsSeq(<<>>)
    BY <2>3, ConcatIs, OneIs
  <2>5. s = s \o <<>>
    BY <2>4, ConcatEmptySeq DEF IsSeq
  <2> QED
    BY <1>2, <2>2, <2>4, <2>5 DEF Extends
<1> QED
  BY <1>1, <1>2

LEMMA SameBytes ==
  ASSUME NEW fs, IsSeq(fs), NEW b, NEW c, b.bytes = c.bytes
  PROVE  Restored(fs, 1, b).bytes = Restored(fs, 1, c).bytes
<1>1. CASE NoRec(fs, 1, Len(fs))
  BY <1>1, RestoredIs
<1>2. ASSUME NEW i, FirstRec(fs, 1, i)
      PROVE  Restored(fs, 1, b).bytes = Restored(fs, 1, c).bytes
  BY <1>2, RestoredIs
<1> QED
  BY <1>1, <1>2, RestoredIs

LEMMA Extension ==
  ASSUME NEW s, NEW x, IsSeq(s), IsSeq(x)
  PROVE  Extends(s \o x, s) /\ Extends(s, s)
<1>1. IsSeq(<<>>) /\ s \o <<>> = s
  BY OneIs, ConcatEmptySeq DEF IsSeq
<1> QED
  BY <1>1 DEF Extends
-----------------------------------------------------------------------------
(* What a write does. *)

\* The buffer of the owner, and what the owner gets in the end.
Owners == Restored(frames, 1, buffer)
Written == sent \o Owners.bytes

LEMMA OutermostIs ==
  ASSUME IsSeq(frames)
  PROVE  Outermost = Owners /\ Stream = Written
<1>1. Parents(frames, 1) = {i \in DOMAIN frames : frames[i].k = "rec"}
  BY SeqFacts DEF Parents
<1>2. Outermost = Owners
  BY <1>1 DEF Outermost, Owners, Restored
<1> QED
  BY <1>2 DEF Stream, Written

\* The packer may be called with the stack fs and the buffer b.
Ready(fs, b) ==
    /\ use \in Uses /\ raises \in 0 .. use.raises /\ exact \in BOOLEAN
    /\ issued \in Nat /\ dead \subseteq 1 .. issued
    /\ Sound(fs, b, inside, issued, dead)
    /\ IsSeq(sent)

\* What it leaves.
Keeps(fs, b) ==
    /\ raises' \in 0 .. use.raises /\ exact' \in BOOLEAN
    /\ issued' \in Nat /\ dead' \subseteq 1 .. issued'
    /\ Sound(frames', buffer', inside', issued', dead')
    /\ IsSeq(sent')
    /\ Extends(sent' \o Owners'.bytes, sent \o Restored(fs, 1, b).bytes)
    /\ inside' = inside /\ meddles' = meddles

LEMMA RaiseKeeps ==
  ASSUME NEW fs, NEW b, Sound(fs, b, inside, issued, dead), Raise(fs, b)
  PROVE  /\ Sound(frames', buffer', inside', issued', dead')
         /\ Owners'.bytes = Restored(fs, 1, b).bytes
         /\ UNCHANGED <<inside, issued, dead, meddles>> /\ exact' = FALSE
<1>1. PICK j \in {0} \cup {i \in DOMAIN fs : fs[i].k \in Writing} :
        /\ frames' = SubSeq(fs, 1, j)
        /\ buffer' = [Restored(fs, j + 1, b) EXCEPT !.clean = FALSE]
  BY DEF Raise
<1> DEFINE c == Restored(fs, j + 1, b)
<1>2. j \in 0 .. Len(fs)
  BY SeqFacts DEF Sound
<1>3. /\ Sound(frames', c, inside, issued, dead)
      /\ Restored(frames', 1, c) = Restored(fs, 1, b)
  BY <1>1, <1>2, Unwound
<1>4. buffer' = [c EXCEPT !.clean = FALSE]
  BY <1>1
<1> HIDE DEF c
<1>5. c = [bytes |-> c.bytes, io |-> c.io, clean |-> c.clean]
  BY <1>3 DEF Sound, IsBuffer
<1>6. buffer' = [bytes |-> c.bytes, io |-> c.io, clean |-> FALSE]
  BY <1>4, <1>5
<1>7. buffer'.bytes = c.bytes /\ buffer'.io = c.io /\ buffer'.clean = FALSE
  BY <1>6
<1>8. IsBuffer(buffer', issued)
  BY <1>3, <1>6, <1>7 DEF Sound, IsBuffer
<1>9. Sound(frames', buffer', inside, issued, dead)
  BY <1>3, <1>7, <1>8 DEF Sound
<1>10. Restored(frames', 1, buffer').bytes = Restored(frames', 1, c).bytes
  BY <1>3, <1>7, SameBytes DEF Sound
<1> QED
  BY <1>3, <1>9, <1>10 DEF Raise, Owners

LEMMA More ==
  ASSUME NEW s, NEW b, NEW x, IsSeq(s), IsSeq(b), IsSeq(x)
  PROVE  Extends(s \o (b \o x), s \o b)
<1>1. (s \o b) \o x = s \o (b \o x)
  BY ConcatTwice
<1> QED
  BY <1>1 DEF Extends

LEMMA ExtendsOn ==
  ASSUME NEW s, NEW t, NEW u, IsSeq(s), Extends(t, s), Extends(u, t)
  PROVE  Extends(u, s)
<1>1. PICK x : IsSeq(x) /\ t = s \o x
  BY DEF Extends
<1>2. PICK y : IsSeq(y) /\ u = t \o y
  BY DEF Extends
<1>3. (s \o x) \o y = s \o (x \o y)
  BY <1>1, <1>2, ConcatTwice
<1>4. IsSeq(x \o y)
  BY <1>1, <1>2, ConcatIs
<1>5. u = s \o (x \o y)
  BY <1>1, <1>2, <1>3
<1> QED
  BY <1>4, <1>5 DEF Extends

LEMMA TwoMore ==
  ASSUME NEW s, NEW b, NEW x, NEW y, IsSeq(s), IsSeq(b), IsSeq(x), IsSeq(y)
  PROVE  /\ Extends(s \o ((b \o x) \o y), s \o b) /\ Extends(s \o (b \o x), s \o b)
         /\ Extends(s \o b, s \o b)
<1>1. Extends(s \o (b \o x), s \o b)
  BY More
<1>2. IsSeq(b \o x) /\ IsSeq(s \o b)
  BY ConcatIs
<1>3. Extends(s \o ((b \o x) \o y), s \o (b \o x))
  BY <1>2, More
<1>4. Extends(s \o ((b \o x) \o y), s \o b)
  BY <1>1, <1>2, <1>3, ExtendsOn
<1>5. Extends(s \o b, s \o b)
  BY <1>2, Extension
<1> QED
  BY <1>1, <1>4, <1>5

LEMMA OtherBytes ==
  ASSUME NEW b, NEW x, b = [bytes |-> b.bytes, io |-> b.io, clean |-> b.clean]
  PROVE  LET c == [b EXCEPT !.bytes = x]
         IN  /\ c = [bytes |-> x, io |-> b.io, clean |-> b.clean]
             /\ c.bytes = x /\ c.io = b.io /\ c.clean = b.clean
<1>1. [b EXCEPT !.bytes = x] = [bytes |-> x, io |-> b.io, clean |-> b.clean]
  OBVIOUS
<1> QED
  BY <1>1

LEMMA OtherClean ==
  ASSUME NEW b, NEW x, b = [bytes |-> b.bytes, io |-> b.io, clean |-> b.clean]
  PROVE  [b EXCEPT !.clean = x] = [bytes |-> b.bytes, io |-> b.io, clean |-> x]
<1>1. [b EXCEPT !.clean = x] = [bytes |-> b.bytes, io |-> b.io, clean |-> x]
  OBVIOUS
<1> QED
  BY <1>1

LEMMA PutKeeps ==
  ASSUME NEW fs, NEW b, NEW head, NEW of, NEW inner, NEW n,
         Ready(fs, b), Plain(head), Put(b, fs, head, of, inner, n)
  PROVE  Keeps(fs, b)
<1> DEFINE long   == n > ReferenceThreshold
           body   == IF n = 0 THEN <<>>
                     ELSE <<Body(of, inner, n, IF long /\ ~ b.io THEN issued + 1 ELSE 0)>>
           headed == b.bytes \o head
           all    == headed \o body
           Cuts   == IF ~ b.io THEN {0}
                     ELSE IF long /\ head[1].h = "str" /\ Data[of].k # "bin"
                          THEN {Len(headed)}
                     ELSE IF long THEN {Len(headed), Len(all)}
                     ELSE {0, Len(b.bytes), Len(headed)}
           more   == IF long /\ ~ b.io THEN issued + 1 ELSE issued
<1>1. \/ /\ frames' = fs
         /\ \E cut \in Cuts : Split(b, all, cut)
         /\ issued' = more
         /\ UNCHANGED <<inside, dead, exact, raises, meddles>>
      \/ /\ b.io /\ raises < use.raises /\ raises' = raises + 1
         /\ \E s \in {b.bytes, headed} : \E cut \in 0 .. Len(s) :
              /\ sent' = sent \o SubSeq(s, 1, cut)
              /\ Raise(fs, [b EXCEPT !.bytes = SubSeq(s, cut + 1, Len(s))])
  BY DEF Put
<1>2. /\ IsSeq(fs) /\ IsSeq(b.bytes) /\ IsSeq(head) /\ IsSeq(sent)
      /\ \A i \in 1 .. Len(fs) : IsSeq(fs[i].parent.bytes)
      /\ b = [bytes |-> b.bytes, io |-> b.io, clean |-> b.clean]
      /\ b.io \in BOOLEAN /\ b.clean \in BOOLEAN
      /\ issued \in Nat /\ dead \subseteq 1 .. issued
      /\ References(b.bytes) \subseteq 1 .. issued /\ References(b.bytes) \cap dead = {}
      /\ b.io => NoRec(fs, 1, Len(fs))
      /\ References(head) = {}
      /\ Sound(fs, b, inside, issued, dead)
  BY DEF Ready, Sound, IsBuffer, IsFrame, Plain
<1>0. IsSeq(b.bytes) /\ IsSeq(head) /\ IsSeq(sent)
  BY <1>2
<1> HIDE DEF long, Cuts
<1>3. IsSeq(body) /\ more \in Nat /\ issued <= more
      /\ References(body) \subseteq (1 .. more) \ (1 .. issued)
  <2>0. more \in Nat /\ issued <= more
    BY <1>2
  <2>1. CASE n = 0
    <3>1. body = <<>>
      BY <2>1
    <3> QED
      BY <2>0, <3>1, OneIs, ReferencesOfNone
  <2>2. CASE n # 0
    <3> DEFINE ref == IF long /\ ~ b.io THEN issued + 1 ELSE 0
               e   == Body(of, inner, n, ref)
    <3>1. body = <<e>> /\ e.ref = ref
      BY <2>2 DEF Body
    <3>2. IsSeq(body) /\ Range(body) = {e}
      BY <3>1, OneIs
    <3>3. \A r \in References(body) : r # 0 /\ r = ref
      BY <3>1, <3>2, ReferencesAre
    <3> QED
      BY <1>2, <2>0, <3>2, <3>3
  <2> QED
    BY <2>1, <2>2
<1> HIDE DEF body, more
<1>4. /\ IsSeq(headed) /\ Len(headed) = Len(b.bytes) + Len(head)
      /\ Len(b.bytes) \in Nat /\ Len(head) \in Nat /\ Len(body) \in Nat
      /\ References(headed) \subseteq References(b.bytes)
  <2>1. References(headed) \subseteq References(b.bytes) \cup References(head)
    BY <1>2, ReferencesOfConcat
  <2> QED
    BY <1>2, <1>3, <2>1, ConcatIs, SeqFacts
<1> HIDE DEF headed
<1>5. /\ IsSeq(all) /\ Len(all) = Len(headed) + Len(body)
      /\ References(all) \subseteq References(b.bytes) \cup References(body)
  <2>1. References(all) \subseteq References(headed) \cup References(body)
    BY <1>3, <1>4, ReferencesOfConcat
  <2> QED
    BY <1>3, <1>4, <2>1, ConcatIs
<1>6. /\ Extends(sent \o all, sent \o b.bytes) /\ Extends(sent \o headed, sent \o b.bytes)
      /\ Extends(sent \o b.bytes, sent \o b.bytes)
  BY <1>0, <1>3, TwoMore DEF all, headed
<1> HIDE DEF all
\* A part of s goes to the IO.
<1>7. ASSUME NEW s, IsSeq(s), Extends(sent \o s, sent \o b.bytes),
             NEW cut \in 0 .. Len(s), NEW new, NEW rest,
             new = sent \o SubSeq(s, 1, cut), rest.bytes = SubSeq(s, cut + 1, Len(s)),
             ~ b.io => cut = 0
      PROVE  /\ IsSeq(new) /\ IsSeq(rest.bytes)
             /\ References(rest.bytes) \subseteq References(s)
             /\ Extends(new \o Restored(fs, 1, rest).bytes, sent \o Restored(fs, 1, b).bytes)
  <2>1. /\ IsSeq(SubSeq(s, 1, cut)) /\ IsSeq(SubSeq(s, cut + 1, Len(s)))
        /\ Range(SubSeq(s, cut + 1, Len(s))) \subseteq Range(s)
        /\ SubSeq(s, 1, cut) \o SubSeq(s, cut + 1, Len(s)) = s
        /\ Len(SubSeq(s, 1, cut)) = cut
    BY <1>7, CutIs
  <2>2. IsSeq(new) /\ IsSeq(rest.bytes)
    BY <1>2, <1>7, <2>1, ConcatIs
  <2>3. References(rest.bytes) \subseteq References(s)
    BY <1>7, <2>1, ReferencesOfPart
  <2>4. new \o rest.bytes = sent \o s
    <3> DEFINE x == SubSeq(s, 1, cut)
               y == SubSeq(s, cut + 1, Len(s))
    <3>1. IsSeq(x) /\ IsSeq(y)
      BY <2>1
    <3>2. x \o y = s /\ new = sent \o x /\ rest.bytes = y
      BY <1>7, <2>1
    <3> HIDE DEF x, y
    <3>3. IsSeq(sent)
      BY <1>0
    <3>4. (sent \o x) \o y = sent \o (x \o y)
      BY ONLY <3>1, <3>3, ConcatTwice, SMTT(60)
    <3> QED
      BY <3>2, <3>4
  <2>5. ~ NoRec(fs, 1, Len(fs)) => new = sent
    <3>1. SUFFICES ASSUME cut = 0 PROVE sent \o SubSeq(s, 1, cut) = sent
      BY <1>2, <1>7
    <3>2. SubSeq(s, 1, cut) = <<>>
      BY <2>1, <3>1, EmptySeq DEF IsSeq
    <3> QED
      BY <1>2, <3>2, ConcatEmptySeq DEF IsSeq
  <2> QED
    BY <1>2, <1>7, <2>2, <2>3, <2>4, <2>5, StreamGrows
<1>8. CASE /\ frames' = fs
           /\ \E cut \in Cuts : Split(b, all, cut)
           /\ issued' = more
           /\ UNCHANGED <<inside, dead, exact, raises, meddles>>
  <2>1. PICK cut \in Cuts : /\ sent' = sent \o SubSeq(all, 1, cut)
                            /\ buffer' = [b EXCEPT !.bytes = SubSeq(all, cut + 1, Len(all))]
    BY <1>8 DEF Split
  <2>2. cut \in 0 .. Len(all) /\ (~ b.io => cut = 0)
    BY <1>4, <1>5, <1>2 DEF Cuts
  <2>3. /\ buffer' = [bytes |-> SubSeq(all, cut + 1, Len(all)), io |-> b.io, clean |-> b.clean]
        /\ buffer'.bytes = SubSeq(all, cut + 1, Len(all))
        /\ buffer'.io = b.io /\ buffer'.clean = b.clean
    BY <1>2, <2>1
  <2>4. /\ IsSeq(sent') /\ IsSeq(buffer'.bytes)
        /\ References(buffer'.bytes) \subseteq References(all)
        /\ Extends(sent' \o Restored(fs, 1, buffer').bytes, sent \o Restored(fs, 1, b).bytes)
    BY <1>5, <1>6, <1>7, <2>1, <2>2, <2>3
  <2>5. /\ References(buffer'.bytes) \subseteq 1 .. more
        /\ References(buffer'.bytes) \cap dead = {}
    BY <1>2, <1>3, <1>5, <2>4
  <2>6. IsBuffer(buffer', more)
    BY <1>2, <2>3, <2>4, <2>5 DEF IsBuffer
  <2>7. Sound(fs, buffer', inside, more, dead)
    <3>1. buffer'.io => b.io
      BY <2>3
    <3> QED
      BY <1>2, <1>3, <2>5, <2>6, <3>1, Rewritten
  <2>8. dead \subseteq 1 .. more
    BY <1>2, <1>3
  <2> QED
    BY <1>3, <1>8, <2>4, <2>7, <2>8 DEF Keeps, Ready, Owners
<1>9. CASE /\ b.io /\ raises < use.raises /\ raises' = raises + 1
           /\ \E s \in {b.bytes, headed} : \E cut \in 0 .. Len(s) :
                /\ sent' = sent \o SubSeq(s, 1, cut)
                /\ Raise(fs, [b EXCEPT !.bytes = SubSeq(s, cut + 1, Len(s))])
  <2>0. PICK s \in {b.bytes, headed} : \E cut \in 0 .. Len(s) :
          /\ sent' = sent \o SubSeq(s, 1, cut)
          /\ Raise(fs, [b EXCEPT !.bytes = SubSeq(s, cut + 1, Len(s))])
    BY <1>9
  <2>1. PICK cut \in 0 .. Len(s) :
          /\ sent' = sent \o SubSeq(s, 1, cut)
          /\ Raise(fs, [b EXCEPT !.bytes = SubSeq(s, cut + 1, Len(s))])
    BY <2>0
  <2> DEFINE c == [b EXCEPT !.bytes = SubSeq(s, cut + 1, Len(s))]
  <2>2. /\ c = [bytes |-> SubSeq(s, cut + 1, Len(s)), io |-> b.io, clean |-> b.clean]
        /\ c.bytes = SubSeq(s, cut + 1, Len(s)) /\ c.io = b.io /\ c.clean = b.clean
    BY <1>2, OtherBytes
  <2>3. Raise(fs, c)
    BY <2>1
  <2> HIDE DEF c
  <2>4. /\ IsSeq(s) /\ Extends(sent \o s, sent \o b.bytes)
        /\ References(s) \subseteq References(b.bytes)
    BY <1>2, <1>4, <1>6
  <2>5. /\ IsSeq(sent') /\ IsSeq(c.bytes) /\ References(c.bytes) \subseteq References(s)
        /\ Extends(sent' \o Restored(fs, 1, c).bytes, sent \o Restored(fs, 1, b).bytes)
    <3>1. ~ b.io => cut = 0
      BY <1>9
    <3>2. sent' = sent \o SubSeq(s, 1, cut) /\ c.bytes = SubSeq(s, cut + 1, Len(s))
      BY <2>1, <2>2
    <3> QED
      BY <1>7, <2>4, <3>1, <3>2
  <2>6. IsBuffer(c, issued) /\ References(c.bytes) \cap dead = {}
    BY <1>2, <2>2, <2>4, <2>5 DEF IsBuffer
  <2>7. Sound(fs, c, inside, issued, dead)
    <3>1. c.io => b.io
      BY <2>2
    <3>2. issued <= issued
      BY <1>2
    <3> QED
      BY <1>2, <2>6, <3>1, <3>2, Rewritten
  <2>8. /\ Sound(frames', buffer', inside', issued', dead')
        /\ Owners'.bytes = Restored(fs, 1, c).bytes
        /\ UNCHANGED <<inside, issued, dead, meddles>> /\ exact' = FALSE
    BY <2>3, <2>7, RaiseKeeps
  <2>9. raises' \in 0 .. use.raises
    <3>1. use.raises \in Nat
      BY PackerAssumption DEF Ready
    <3>2. raises \in 0 .. use.raises
      BY DEF Ready
    <3>3. raises < use.raises /\ raises' = raises + 1
      BY <1>9
    <3> QED
      BY <3>1, <3>2, <3>3
  <2> QED
    BY <1>2, <2>5, <2>8, <2>9 DEF Keeps
<1> QED
  BY <1>1, <1>8, <1>9
-----------------------------------------------------------------------------
(* Calls. *)

\* A frame on top keeps the buffer of the owner, as long as a recursive type
\* puts the buffer aside.
LEMMA RestoredPush ==
  ASSUME NEW fs, IsSeq(fs), NEW f, NEW b
  PROVE  /\ f.k # "rec" => \A c : Restored(Append(fs, f), 1, c) = Restored(fs, 1, c)
         /\ f.k = "rec" /\ f.parent = b =>
              \A c : Restored(Append(fs, f), 1, c) = Restored(fs, 1, b)
<1> DEFINE g == Append(fs, f)
<1>1. Len(fs) \in Nat
  BY SeqFacts
<1>2. IsSeq(g) /\ Len(g) = Len(fs) + 1 /\ g[Len(fs) + 1] = f
      /\ \A i \in 1 .. Len(fs) : g[i] = fs[i]
  BY <1>1, AppendIs
<1> HIDE DEF g
<1>3. ASSUME NEW i, FirstRec(fs, 1, i), NEW c, NEW e
      PROVE  Restored(g, 1, c) = Restored(fs, 1, e)
  <2>1. FirstRec(g, 1, i) /\ g[i] = fs[i]
    BY <1>1, <1>2, <1>3 DEF FirstRec, NoRec
  <2>2. Restored(g, 1, c) = fs[i].parent
    BY <1>2, <2>1, RestoredIs
  <2> QED
    BY <1>3, <2>2, RestoredIs
<1>4. ASSUME NoRec(fs, 1, Len(fs)), f.k # "rec", NEW c
      PROVE  Restored(g, 1, c) = Restored(fs, 1, c)
  <2>1. NoRec(g, 1, Len(g))
    BY <1>1, <1>2, <1>4 DEF NoRec
  <2> QED
    BY <1>2, <1>4, <2>1, RestoredIs
<1>5. ASSUME NoRec(fs, 1, Len(fs)), f.k = "rec", f.parent = b, NEW c
      PROVE  Restored(g, 1, c) = Restored(fs, 1, b)
  <2>1. FirstRec(g, 1, Len(fs) + 1)
    BY <1>1, <1>2, <1>5 DEF FirstRec, NoRec
  <2>2. Restored(g, 1, c) = b
    BY <1>2, <1>5, <2>1, RestoredIs
  <2> QED
    BY <1>5, <2>2, RestoredIs
<1> QED
  BY <1>3, <1>4, <1>5, RestoredIs DEF g

\* A frame on top, of a container, a plain type or to_msgpack.
LEMMA PushPlain ==
  ASSUME NEW fs, NEW b, NEW ins, NEW m \in Nat, NEW d, Sound(fs, b, ins, m, d),
         NEW f, IsFrame(f, ins, m), f.k # "rec", References(f.parent.bytes) \cap d = {}
  PROVE  /\ Sound(Append(fs, f), b, ins, m, d)
         /\ \A c : Restored(Append(fs, f), 1, c) = Restored(fs, 1, c)
<1> DEFINE g == Append(fs, f)
<1>1. IsSeq(fs) /\ Len(fs) \in Nat
  BY SeqFacts DEF Sound
<1>2. IsSeq(g) /\ Len(g) = Len(fs) + 1 /\ g[Len(fs) + 1] = f
      /\ \A i \in 1 .. Len(fs) : g[i] = fs[i]
  BY <1>1, AppendIs
<1> HIDE DEF g
<1>3. /\ NoRec(fs, 1, Len(fs)) => NoRec(g, 1, Len(g))
      /\ \A i \in 1 .. Len(fs) : NoRec(fs, 1, i - 1) => NoRec(g, 1, i - 1)
  BY <1>1, <1>2 DEF NoRec
<1>4. Sound(g, b, ins, m, d)
  <2>1. \A i \in 1 .. Len(g) : i \in 1 .. Len(fs) \/ g[i] = f
    BY <1>1, <1>2
  <2>2. \A i \in 1 .. Len(g) : IsFrame(g[i], ins, m)
    BY <1>2, <2>1 DEF Sound
  <2>3. \A i \in 1 .. Len(g) : References(g[i].parent.bytes) \cap d = {}
    BY <1>2, <2>1 DEF Sound
  <2>4. ASSUME NEW i \in 1 .. Len(g), g[i].k = "rec", g[i].parent.io
        PROVE  NoRec(g, 1, i - 1)
    <3>1. i \in 1 .. Len(fs) /\ g[i] = fs[i]
      BY <1>2, <2>1, <2>4
    <3>2. NoRec(fs, 1, i - 1)
      BY <2>4, <3>1 DEF Sound
    <3> QED
      BY <1>3, <3>1, <3>2
  <2>5. b.io => NoRec(g, 1, Len(g))
    BY <1>3 DEF Sound
  <2> QED
    BY <1>2, <2>2, <2>3, <2>4, <2>5 DEF Sound
<1>5. \A c : Restored(g, 1, c) = Restored(fs, 1, c)
  BY <1>1, RestoredPush DEF g
<1> QED
  BY <1>4, <1>5 DEF g

\* A frame of a recursive type, which puts the buffer b aside and writes to c.
LEMMA PushRec ==
  ASSUME NEW fs, NEW b, NEW ins, NEW m \in Nat, NEW d, Sound(fs, b, ins, m, d),
         NEW f, IsFrame(f, ins, m), f.k = "rec", f.parent = b,
         NEW c, IsBuffer(c, m), ~ c.io, References(c.bytes) \cap d = {}
  PROVE  /\ Sound(Append(fs, f), c, ins, m, d)
         /\ \A e : Restored(Append(fs, f), 1, e) = Restored(fs, 1, b)
<1> DEFINE g == Append(fs, f)
<1>1. IsSeq(fs) /\ Len(fs) \in Nat
  BY SeqFacts DEF Sound
<1>2. IsSeq(g) /\ Len(g) = Len(fs) + 1 /\ g[Len(fs) + 1] = f
      /\ \A i \in 1 .. Len(fs) : g[i] = fs[i]
  BY <1>1, AppendIs
<1> HIDE DEF g
<1>3. \A i \in 1 .. Len(fs) + 1 : NoRec(fs, 1, i - 1) => NoRec(g, 1, i - 1)
  BY <1>1, <1>2 DEF NoRec
<1>4. Sound(g, c, ins, m, d)
  <2>1. \A i \in 1 .. Len(g) : i \in 1 .. Len(fs) \/ (i = Len(fs) + 1 /\ g[i] = f)
    BY <1>1, <1>2
  <2>2. \A i \in 1 .. Len(g) : IsFrame(g[i], ins, m)
    BY <1>2, <2>1 DEF Sound
  <2>3. \A i \in 1 .. Len(g) : References(g[i].parent.bytes) \cap d = {}
    BY <1>2, <2>1 DEF Sound
  <2>4. ASSUME NEW i \in 1 .. Len(g), g[i].k = "rec", g[i].parent.io
        PROVE  NoRec(g, 1, i - 1)
    <3>1. CASE i \in 1 .. Len(fs)
      <4>1. g[i] = fs[i]
        BY <1>2, <3>1
      <4>2. NoRec(fs, 1, i - 1)
        BY <2>4, <3>1, <4>1 DEF Sound
      <4> QED
        BY <1>1, <1>3, <3>1, <4>2
    <3>2. CASE i = Len(fs) + 1 /\ g[i] = f
      <4>1. NoRec(fs, 1, Len(fs))
        BY <2>4, <3>2 DEF Sound
      <4>2. i - 1 = Len(fs) /\ i \in 1 .. Len(fs) + 1
        BY <1>1, <3>2
      <4> QED
        BY <1>3, <4>1, <4>2
    <3> QED
      BY <2>1, <3>1, <3>2
  <2> QED
    BY <1>2, <2>2, <2>3, <2>4 DEF Sound
<1>5. \A e : Restored(g, 1, e) = Restored(fs, 1, b)
  BY <1>1, RestoredPush DEF g
<1> QED
  BY <1>4, <1>5 DEF g

\* What is in the containers: what is no container never changes, and a hash
\* has pairs.
InsideInv(ins) ==
    /\ ins \in [Object -> Seq(Object)]
    /\ \A v \in Object : /\ Data[v].k \notin {"array", "hash"} => ins[v] = Data[v].kids
                         /\ Data[v].k = "hash" => Len(ins[v]) % 2 = 0

LEMMA FreshIs ==
  ASSUME NEW m
  PROVE  IsBuffer(Fresh, m) /\ ~ Fresh.io /\ References(Fresh.bytes) = {}
BY OneIs, ReferencesOfNone DEF Fresh, IsBuffer

LEMMA FrameIs ==
  ASSUME InsideInv(inside), NEW k, NEW v, Suits(k, v), NEW m \in Nat
  PROVE  IsFrame(Frame(k, v), inside, m) /\ Frame(k, v).k = k
         /\ References(Frame(k, v).parent.bytes) = {}
<1> DEFINE f == Frame(k, v)
<1>1. /\ f = [k |-> k, v |-> v, at |-> 0, len |-> Len(inside[v]), todo |-> <<>>,
              parent |-> Fresh, held |-> {}]
      /\ f.k = k /\ f.v = v /\ f.at = 0 /\ f.len = Len(inside[v]) /\ f.todo = <<>>
      /\ f.parent = Fresh /\ f.held = {}
  BY DEF Frame
<1> HIDE DEF f
<1>2. v \in Object /\ inside[v] \in Seq(Object)
  BY DEF InsideInv, Suits
<1>3. Len(inside[v]) \in Nat
  BY <1>2
<1>4. k \in Writing => inside[v] = Data[v].kids
  BY <1>2 DEF InsideInv, Suits
<1>5. <<>> \in Seq(Object) /\ 0 % 2 = 0
  OBVIOUS
<1>6. Suits(f.k, f.v) /\ f.len \in Nat /\ f.at \in 0 .. f.len /\ f.todo \in Seq(Object)
  BY <1>1, <1>3, <1>5
<1>7. f.k \in Writing => f.len = Len(Data[f.v].kids)
  BY <1>1, <1>4
<1>8. f.k = "hash" => f.at % 2 = 0 /\ Len(inside[f.v]) <= f.len
  BY <1>1, <1>3, <1>5
<1>9. IsFrame(f, inside, m)
  BY <1>1, <1>6, <1>7, <1>8, FreshIs DEF IsFrame
<1> QED
  BY <1>1, <1>9, FreshIs DEF f

\* How many objects a frame still has to write.  What a recursive type writes
\* goes to a buffer of its own, and is one object in the end.
Left(f) == IF f.k \in {"array", "user"} THEN f.len - f.at
           ELSE IF f.k = "hash" THEN (f.len - f.at) + (IF f.todo = <<>> THEN 0 ELSE 1)
           ELSE 1

LEMMA LeftIs ==
  ASSUME NEW f, NEW ins, NEW m, IsFrame(f, ins, m)
  PROVE  Left(f) \in Nat
<1>1. f.len \in Nat /\ f.at \in 0 .. f.len
  BY DEF IsFrame
<1>2. f.len - f.at \in Nat
  BY <1>1
<1> QED
  BY <1>2 DEF Left

\* The fields of a frame that change.
AsFrame(f) == [k |-> f.k, v |-> f.v, at |-> f.at, len |-> f.len, todo |-> f.todo,
               parent |-> f.parent, held |-> f.held]

LEMMA OtherFields ==
  ASSUME NEW f, NEW x, f = AsFrame(f)
  PROVE  /\ [f EXCEPT !.parent = x] = [k |-> f.k, v |-> f.v, at |-> f.at, len |-> f.len,
                                       todo |-> f.todo, parent |-> x, held |-> f.held]
         /\ [f EXCEPT !.held = x] = [k |-> f.k, v |-> f.v, at |-> f.at, len |-> f.len,
                                     todo |-> f.todo, parent |-> f.parent, held |-> x]
         /\ [f EXCEPT !.at = x] = [k |-> f.k, v |-> f.v, at |-> x, len |-> f.len,
                                   todo |-> f.todo, parent |-> f.parent, held |-> f.held]
         /\ [f EXCEPT !.todo = x] = [k |-> f.k, v |-> f.v, at |-> f.at, len |-> f.len,
                                     todo |-> x, parent |-> f.parent, held |-> f.held]
<1>0. f = [k |-> f.k, v |-> f.v, at |-> f.at, len |-> f.len, todo |-> f.todo,
           parent |-> f.parent, held |-> f.held]
  BY DEF AsFrame
<1>1. [f EXCEPT !.parent = x] = [k |-> f.k, v |-> f.v, at |-> f.at, len |-> f.len,
                                 todo |-> f.todo, parent |-> x, held |-> f.held]
  BY <1>0
<1>2. [f EXCEPT !.held = x] = [k |-> f.k, v |-> f.v, at |-> f.at, len |-> f.len,
                               todo |-> f.todo, parent |-> f.parent, held |-> x]
  BY <1>0
<1>3. [f EXCEPT !.at = x] = [k |-> f.k, v |-> f.v, at |-> x, len |-> f.len,
                             todo |-> f.todo, parent |-> f.parent, held |-> f.held]
  BY <1>0
<1>4. [f EXCEPT !.todo = x] = [k |-> f.k, v |-> f.v, at |-> f.at, len |-> f.len,
                               todo |-> x, parent |-> f.parent, held |-> f.held]
  BY <1>0
<1> QED
  BY <1>1, <1>2, <1>3, <1>4

LEMMA PutAsideIs ==
  ASSUME NEW f, NEW x, NEW y, f = AsFrame(f)
  PROVE  [f EXCEPT !.parent = x, !.held = y]
           = [k |-> f.k, v |-> f.v, at |-> f.at, len |-> f.len, todo |-> f.todo,
              parent |-> x, held |-> y]
<1> DEFINE c == [f EXCEPT !.parent = x]
<1>1. c = [k |-> f.k, v |-> f.v, at |-> f.at, len |-> f.len, todo |-> f.todo,
           parent |-> x, held |-> f.held]
  BY OtherFields
<1> HIDE DEF c
<1>2. /\ c.k = f.k /\ c.v = f.v /\ c.at = f.at /\ c.len = f.len /\ c.todo = f.todo
      /\ c.parent = x /\ c.held = f.held
  BY <1>1
<1>3. c = AsFrame(c)
  BY <1>1, <1>2 DEF AsFrame
<1>4. [c EXCEPT !.held = y] = [k |-> f.k, v |-> f.v, at |-> f.at, len |-> f.len,
                               todo |-> f.todo, parent |-> x, held |-> y]
  <2>1. [c EXCEPT !.held = y] = [k |-> c.k, v |-> c.v, at |-> c.at, len |-> c.len,
                                 todo |-> c.todo, parent |-> c.parent, held |-> y]
    BY <1>3, OtherFields
  <2> QED
    BY <1>2, <2>1
<1> QED
  BY <1>4 DEF c

LEMMA AdvancedIs ==
  ASSUME NEW f, NEW x, NEW y, f = AsFrame(f)
  PROVE  [f EXCEPT !.at = x, !.todo = y]
           = [k |-> f.k, v |-> f.v, at |-> x, len |-> f.len, todo |-> y,
              parent |-> f.parent, held |-> f.held]
<1> DEFINE c == [f EXCEPT !.at = x]
<1>1. c = [k |-> f.k, v |-> f.v, at |-> x, len |-> f.len, todo |-> f.todo,
           parent |-> f.parent, held |-> f.held]
  BY OtherFields
<1> HIDE DEF c
<1>2. /\ c.k = f.k /\ c.v = f.v /\ c.at = x /\ c.len = f.len /\ c.todo = f.todo
      /\ c.parent = f.parent /\ c.held = f.held
  BY <1>1
<1>3. c = AsFrame(c)
  BY <1>1, <1>2 DEF AsFrame
<1>4. [c EXCEPT !.todo = y] = [k |-> f.k, v |-> f.v, at |-> x, len |-> f.len,
                               todo |-> y, parent |-> f.parent, held |-> f.held]
  <2>1. [c EXCEPT !.todo = y] = [k |-> c.k, v |-> c.v, at |-> c.at, len |-> c.len,
                                 todo |-> y, parent |-> c.parent, held |-> c.held]
    BY <1>3, OtherFields
  <2> QED
    BY <1>2, <2>1
<1> QED
  BY <1>4 DEF c

LEMMA CallKeeps ==
  ASSUME NEW fs, Ready(fs, buffer), InsideInv(inside), NEW k \in Ruby, NEW v, Suits(k, v),
         Call(k, v, fs)
  PROVE  Keeps(fs, buffer)
<1>1. /\ UNCHANGED <<inside, sent, issued, dead, exact, raises, meddles>>
      /\ issued \in Nat /\ IsSeq(sent) /\ Sound(fs, buffer, inside, issued, dead)
  BY DEF Call, Ready
<1>2. /\ Sound(frames', buffer', inside, issued, dead)
      /\ Restored(frames', 1, buffer') = Restored(fs, 1, buffer)
  <2>1. CASE k # "rec"
    <3>1. frames' = Append(fs, Frame(k, v)) /\ buffer' = buffer
      BY <2>1 DEF Call
    <3>2. /\ IsFrame(Frame(k, v), inside, issued) /\ Frame(k, v).k # "rec"
          /\ References(Frame(k, v).parent.bytes) \cap dead = {}
      BY <1>1, <2>1, FrameIs
    <3>3. /\ Sound(Append(fs, Frame(k, v)), buffer, inside, issued, dead)
          /\ Restored(Append(fs, Frame(k, v)), 1, buffer) = Restored(fs, 1, buffer)
      BY <1>1, <3>2, PushPlain
    <3> QED
      BY <3>1, <3>3
  <2>2. CASE k = "rec"
    <3> DEFINE e == Frame(k, v)
               f == [e EXCEPT !.parent = buffer, !.held = Hold(buffer)]
    <3>1. frames' = Append(fs, f) /\ buffer' = Fresh
      BY <2>2 DEF Call
    <3>2. IsFrame(e, inside, issued) /\ e.k = k
      BY <1>1, FrameIs
    <3> HIDE DEF e
    <3>3. /\ f = [k |-> e.k, v |-> e.v, at |-> e.at, len |-> e.len, todo |-> e.todo,
                  parent |-> buffer, held |-> Hold(buffer)]
      <4>1. e = AsFrame(e)
        BY <3>2 DEF IsFrame, AsFrame
      <4> QED
        BY <4>1, PutAsideIs
    <3> HIDE DEF f
    <3>4. /\ f.k = e.k /\ f.v = e.v /\ f.at = e.at /\ f.len = e.len /\ f.todo = e.todo
          /\ f.parent = buffer /\ f.held = Hold(buffer)
      BY <3>3
    <3>5. IsBuffer(buffer, issued)
      BY <1>1 DEF Sound
    <3>6. Hold(buffer) \subseteq 1 .. issued
      BY <3>5 DEF Hold, IsBuffer
    <3>7. IsFrame(f, inside, issued)
      <4>1. /\ Suits(f.k, f.v) /\ f.len \in Nat /\ f.at \in 0 .. f.len
            /\ f.todo \in Seq(Object)
            /\ f.k \in Writing => f.len = Len(Data[f.v].kids)
            /\ f.k = "hash" => f.at % 2 = 0 /\ Len(inside[f.v]) <= f.len
        BY <3>2, <3>4 DEF IsFrame
      <4>2. IsBuffer(f.parent, issued) /\ f.held \subseteq 1 .. issued
            /\ References(f.parent.bytes) \subseteq f.held
        BY <3>4, <3>5, <3>6 DEF Hold
      <4>3. f = [k |-> f.k, v |-> f.v, at |-> f.at, len |-> f.len, todo |-> f.todo,
                 parent |-> f.parent, held |-> f.held]
        BY <3>3, <3>4
      <4> QED
        BY <4>1, <4>2, <4>3 DEF IsFrame
    <3>8. /\ IsBuffer(Fresh, issued) /\ ~ Fresh.io
          /\ References(Fresh.bytes) \cap dead = {}
      BY FreshIs
    <3>9. f.k = "rec" /\ f.parent = buffer
      BY <2>2, <3>2, <3>4
    <3>10. /\ Sound(Append(fs, f), Fresh, inside, issued, dead)
           /\ Restored(Append(fs, f), 1, Fresh) = Restored(fs, 1, buffer)
      BY <1>1, <3>7, <3>8, <3>9, PushRec
    <3> QED
      BY <3>1, <3>10
  <2> QED
    BY <2>1, <2>2
<1>3. IsSeq(Restored(fs, 1, buffer).bytes)
  BY <1>1, OwnersBytes
<1>4. Extends(sent \o Restored(fs, 1, buffer).bytes, sent \o Restored(fs, 1, buffer).bytes)
  BY <1>1, <1>3, ConcatIs, Extension
<1> QED
  BY <1>1, <1>2, <1>4 DEF Keeps, Ready, Owners
-----------------------------------------------------------------------------
(* msgpack_packer_write_value *)

LEMMA RefuseKeeps ==
  ASSUME NEW fs, Ready(fs, buffer), Refuse(fs)
  PROVE  Keeps(fs, buffer)
<1>1. /\ Sound(fs, buffer, inside, issued, dead) /\ IsSeq(sent)
      /\ raises \in 0 .. use.raises /\ issued \in Nat /\ dead \subseteq 1 .. issued
  BY DEF Ready
<1>2. Raise(fs, buffer) /\ sent' = sent /\ raises' = raises
  BY DEF Refuse
<1>3. /\ Sound(frames', buffer', inside', issued', dead')
      /\ Owners'.bytes = Restored(fs, 1, buffer).bytes
      /\ inside' = inside /\ issued' = issued /\ dead' = dead /\ meddles' = meddles
      /\ exact' = FALSE
  BY <1>1, <1>2, RaiseKeeps
<1>4. IsSeq(Restored(fs, 1, buffer).bytes)
  BY <1>1, OwnersBytes
<1>5. Extends(sent' \o Owners'.bytes, sent \o Restored(fs, 1, buffer).bytes)
  BY <1>1, <1>2, <1>3, <1>4, ConcatIs, Extension
<1> QED
  BY <1>1, <1>2, <1>3, <1>5 DEF Keeps

\* A container or a to_msgpack that begins with a head: the frame is there
\* before the head is written.
LEMMA BeginKeeps ==
  ASSUME NEW fs, Ready(fs, buffer), InsideInv(inside),
         NEW k \in {"array", "hash", "user"}, NEW v, Suits(k, v),
         NEW h \in {"array", "map"}, NEW n, Begin(k, v, h, n, fs)
  PROVE  Keeps(fs, buffer)
<1> DEFINE gs == Append(fs, Frame(k, v))
<1>0. CASE n >= Limit(4)
  BY <1>0, RefuseKeeps DEF Begin
<1>1. /\ Sound(fs, buffer, inside, issued, dead) /\ issued \in Nat
      /\ use \in Uses /\ raises \in 0 .. use.raises /\ exact \in BOOLEAN
      /\ dead \subseteq 1 .. issued /\ IsSeq(sent)
  BY DEF Ready
<1>2. /\ IsFrame(Frame(k, v), inside, issued) /\ Frame(k, v).k # "rec"
      /\ References(Frame(k, v).parent.bytes) \cap dead = {}
  BY <1>1, FrameIs
<1>3. /\ Sound(gs, buffer, inside, issued, dead)
      /\ Restored(gs, 1, buffer) = Restored(fs, 1, buffer)
  BY <1>1, <1>2, PushPlain
<1> HIDE DEF gs
<1>4. Ready(gs, buffer)
  BY <1>1, <1>3 DEF Ready
<1>5. CASE ~ (n >= Limit(4))
  <2>1. Put(buffer, gs, CountHeader(h, n), v, <<>>, 0)
    BY <1>5 DEF gs, Begin
  <2>2. Plain(CountHeader(h, n))
    BY HeadersArePlain
  <2>3. Keeps(gs, buffer)
    BY <1>4, <2>1, <2>2, PutKeeps
  <2> QED
    BY <1>3, <2>3 DEF Keeps
<1> QED
  BY <1>0, <1>5

LEMMA TextKeeps ==
  ASSUME NEW v, NEW n, NEW fs, Ready(fs, buffer), Text(v, n, fs)
  PROVE  Keeps(fs, buffer)
<1>1. CASE n >= Limit(4)
  BY <1>1, RefuseKeeps DEF Text
<1>2. CASE ~ (n >= Limit(4))
  <2> DEFINE binary == Data[v].k = "binhead" \/ (Data[v].k = "bin" /\ ~ use.compat)
             head == IF binary THEN BinHeader(n) ELSE RawHeader(n, use.compat)
  <2>1. Put(buffer, fs, head, v, <<>>, n)
    BY <1>2 DEF Text
  <2>2. Plain(head)
    BY HeadersArePlain
  <2> HIDE DEF head
  <2> QED
    BY <2>1, <2>2, PutKeeps
<1> QED
  BY <1>1, <1>2

LEMMA ExtensionKeeps ==
  ASSUME NEW v, NEW fs, Ready(fs, buffer), WriteExtension(v, fs)
  PROVE  Keeps(fs, buffer)
<1>1. CASE Data[v].type \notin ExtTypes
  BY <1>1, RefuseKeeps DEF WriteExtension
<1>2. CASE Data[v].type \in ExtTypes
  <2>1. Put(buffer, fs, ExtHeader(Data[v].size, Data[v].type), v, <<>>, Data[v].size)
    BY <1>2 DEF WriteExtension
  <2>2. Plain(ExtHeader(Data[v].size, Data[v].type))
    BY HeadersArePlain
  <2> QED
    BY <2>1, <2>2, PutKeeps
<1> QED
  BY <1>1, <1>2

\* What an integer does, whichever way it takes.
LEMMA WriteIntegerIs ==
  ASSUME NEW v \in Object, NEW fs, WriteInteger(v, fs)
  PROVE  \/ ~ IsBig(Data[v].n) /\ Put(buffer, fs, WriteLong(Data[v].n), v, <<>>, 0)
         \/ Call("plain", v, fs) \/ Refuse(fs)
BY DEF WriteInteger

\* What msgpack_packer_write_value does, by the kind of the object.
LEMMA WriteValueIs ==
  ASSUME NEW v \in Object, NEW fs, WriteValue(v, fs)
  PROVE  LET d == Data[v]
             n == Len(inside[v])
         IN  /\ d.k = "nil" => Put(buffer, fs, Fix("nil", 0), v, <<>>, 0)
             /\ d.k = "int" => \/ ~ IsBig(d.n) /\ Put(buffer, fs, WriteLong(d.n), v, <<>>, 0)
                               \/ Call("plain", v, fs) \/ Refuse(fs)
             /\ d.k = "float" => Put(buffer, fs, WriteDouble(d.n), v, <<>>, 0)
             /\ d.k = "float32" => Put(buffer, fs, WriteFloat(d.n), v, <<>>, 0)
             /\ d.k = "time" => Call("plain", v, fs)
             /\ d.k \in {"str", "bin", "binhead"} => Text(v, d.n, fs)
             /\ d.k = "ext" => WriteExtension(v, fs)
             /\ d.k = "sym" => Call("plain", v, fs) \/ Text(v, d.n, fs)
             /\ d.k = "array" => Begin("array", v, "array", n, fs)
             /\ d.k = "hash" => Begin("hash", v, "map", n \div 2, fs)
             /\ d.k = "rows" => Begin("user", v, "array", n, fs)
             /\ d.k = "pairs" => Begin("user", v, "map", n \div 2, fs)
             /\ d.k \in Ruby => Call(d.k, v, fs)
             /\ d.k = "unknown" => Refuse(fs)
BY WriteIntegerIs DEF WriteValue, Ruby

LEMMA WriteValueKeeps ==
  ASSUME NEW v \in Object, NEW fs, Ready(fs, buffer), InsideInv(inside), WriteValue(v, fs)
  PROVE  Keeps(fs, buffer)
<1> DEFINE d == Data[v]
<1>1. d.k \in ObjectKinds
  BY PackerAssumption
<1>2. /\ d.k # "ext" => Suits("plain", v)
      /\ d.k \in {"array", "hash"} => Suits(d.k, v)
      /\ d.k \notin {"array", "hash", "ext"} => Suits("user", v)
      /\ d.k \in Ruby => Suits(d.k, v)
  BY DEF Suits, Ruby, Writing
<1>3. CASE d.k \in {"nil", "float", "float32"}
  <2>1. Plain(Fix("nil", 0))
    BY HeadsArePlain
  <2>2. Plain(WriteDouble(d.n)) /\ Plain(WriteFloat(d.n))
    BY HeadersArePlain
  <2>3. \/ Put(buffer, fs, Fix("nil", 0), v, <<>>, 0)
        \/ Put(buffer, fs, WriteDouble(d.n), v, <<>>, 0)
        \/ Put(buffer, fs, WriteFloat(d.n), v, <<>>, 0)
    BY <1>3, WriteValueIs
  <2> QED
    BY <2>1, <2>2, <2>3, PutKeeps
<1>4. CASE d.k = "int"
  <2>1. \/ Put(buffer, fs, WriteLong(d.n), v, <<>>, 0)
        \/ Call("plain", v, fs) \/ Refuse(fs)
    BY <1>4, WriteValueIs
  <2>2. Plain(WriteLong(d.n)) /\ "plain" \in Ruby
    BY HeadersArePlain DEF Ruby
  <2> QED
    BY <1>2, <1>4, <2>1, <2>2, PutKeeps, CallKeeps, RefuseKeeps
<1>5. CASE d.k \in {"time", "sym", "str", "bin", "binhead"}
  <2>1. Call("plain", v, fs) \/ Text(v, d.n, fs)
    BY <1>5, WriteValueIs
  <2>2. "plain" \in Ruby
    BY DEF Ruby
  <2> QED
    BY <1>2, <1>5, <2>1, <2>2, CallKeeps, TextKeeps
<1>6. CASE d.k = "ext"
  BY <1>6, WriteValueIs, ExtensionKeeps
<1>7. CASE d.k \in {"array", "hash", "rows", "pairs"}
  <2> DEFINE n == Len(inside[v])
  <2>1. \/ d.k = "array" /\ Begin("array", v, "array", n, fs)
        \/ d.k = "hash" /\ Begin("hash", v, "map", n \div 2, fs)
        \/ d.k = "rows" /\ Begin("user", v, "array", n, fs)
        \/ d.k = "pairs" /\ Begin("user", v, "map", n \div 2, fs)
    BY <1>7, WriteValueIs
  <2> HIDE DEF n
  <2> QED
    BY <1>2, <2>1, BeginKeeps
<1>8. CASE d.k \in Ruby
  <2>1. Call(d.k, v, fs) /\ Suits(d.k, v)
    BY <1>2, <1>8, WriteValueIs
  <2> QED
    BY <1>8, <2>1, CallKeeps
<1>9. CASE d.k = "unknown"
  BY <1>9, WriteValueIs, RefuseKeeps
<1> QED
  BY <1>1, <1>3, <1>4, <1>5, <1>6, <1>7, <1>8, <1>9 DEF ObjectKinds, Ruby
-----------------------------------------------------------------------------
(* The frame on top. *)

LEMMA TopIs ==
  ASSUME Ready(frames, buffer), frames # <<>>
  PROVE  /\ IsSeq(frames) /\ Len(frames) \in Nat \ {0}
         /\ Top = frames[Len(frames)] /\ IsFrame(Top, inside, issued)
         /\ Front(frames) = SubSeq(frames, 1, Len(frames) - 1)
         /\ Len(frames) - 1 \in 0 .. Len(frames)
<1>1. IsSeq(frames) /\ \A i \in 1 .. Len(frames) : IsFrame(frames[i], inside, issued)
  BY DEF Ready, Sound
<1>2. Len(frames) \in Nat \ {0}
  BY <1>1, EmptySeq DEF IsSeq
<1>3. Len(frames) \in 1 .. Len(frames) /\ Len(frames) - 1 \in 0 .. Len(frames)
  BY <1>2
<1> QED
  BY <1>1, <1>2, <1>3 DEF Top, Last, Front

\* It is gone, and its buffer comes back.
LEMMA PopReady ==
  ASSUME Ready(frames, buffer), frames # <<>>
  PROVE  LET b == Restored(frames, Len(frames), buffer)
         IN  /\ Ready(Front(frames), b)
             /\ Restored(Front(frames), 1, b) = Owners
             /\ Top.k # "rec" => b = buffer
             /\ Top.k = "rec" => b = Top.parent
<1> DEFINE n == Len(frames)
           b == Restored(frames, n, buffer)
<1>1. /\ IsSeq(frames) /\ n \in Nat \ {0} /\ Top = frames[n]
      /\ Front(frames) = SubSeq(frames, 1, n - 1) /\ n - 1 \in 0 .. n /\ (n - 1) + 1 = n
  BY TopIs
<1>2. Sound(frames, buffer, inside, issued, dead)
  BY DEF Ready
<1>3. /\ Sound(SubSeq(frames, 1, n - 1), Restored(frames, (n - 1) + 1, buffer),
               inside, issued, dead)
      /\ Restored(SubSeq(frames, 1, n - 1), 1, Restored(frames, (n - 1) + 1, buffer))
           = Restored(frames, 1, buffer)
  BY <1>1, <1>2, Unwound
<1>4. Sound(Front(frames), b, inside, issued, dead) /\ Restored(Front(frames), 1, b) = Owners
  BY <1>1, <1>3 DEF Owners
<1>5. Top.k # "rec" => b = buffer
  <2>1. ASSUME Top.k # "rec" PROVE NoRec(frames, n, n)
    BY <1>1, <2>1 DEF NoRec
  <2> QED
    BY <1>1, <2>1, RestoredIs
<1>6. Top.k = "rec" => b = Top.parent
  <2>1. ASSUME Top.k = "rec" PROVE FirstRec(frames, n, n)
    BY <1>1, <2>1 DEF FirstRec, NoRec
  <2> QED
    BY <1>1, <2>1, RestoredIs
<1> HIDE DEF b
<1>7. Ready(Front(frames), b)
  BY <1>4 DEF Ready
<1> QED
  BY <1>4, <1>5, <1>6, <1>7 DEF b

\* The frame on top has gone on: it is g now.
LEMMA CallerReady ==
  ASSUME Ready(frames, buffer), frames # <<>>,
         NEW g, IsFrame(g, inside, issued), g.k = Top.k, g.parent = Top.parent
  PROVE  Ready(Caller(g), buffer) /\ Restored(Caller(g), 1, buffer) = Owners
<1> DEFINE b == Restored(frames, Len(frames), buffer)
           gs == Append(Front(frames), g)
<1>1. /\ Ready(Front(frames), b) /\ Restored(Front(frames), 1, b) = Owners
      /\ Top.k # "rec" => b = buffer
      /\ Top.k = "rec" => b = Top.parent
  BY PopReady
<1> HIDE DEF b
<1>2. /\ Sound(Front(frames), b, inside, issued, dead) /\ issued \in Nat
      /\ Sound(frames, buffer, inside, issued, dead)
  BY <1>1 DEF Ready
<1>3. IsSeq(frames) /\ Len(frames) \in Nat \ {0} /\ Top = frames[Len(frames)]
  BY TopIs
<1>4. References(g.parent.bytes) \cap dead = {}
  BY <1>2, <1>3 DEF Sound
<1>5. Sound(gs, buffer, inside, issued, dead) /\ Restored(gs, 1, buffer) = Owners
  <2>1. CASE Top.k # "rec"
    <3>1. b = buffer /\ g.k # "rec"
      BY <1>1, <2>1
    <3>2. Sound(Front(frames), buffer, inside, issued, dead)
      BY <1>2, <3>1
    <3>3. issued \in Nat /\ g.k # "rec"
      BY <1>2, <3>1
    <3>4. /\ Sound(gs, buffer, inside, issued, dead)
          /\ \A e : Restored(gs, 1, e) = Restored(Front(frames), 1, e)
      <4> DEFINE h == Front(frames)
      <4>1. Sound(h, buffer, inside, issued, dead)
        BY <3>2
      <4> HIDE DEF h
      <4>2. /\ Sound(Append(h, g), buffer, inside, issued, dead)
            /\ \A e : Restored(Append(h, g), 1, e) = Restored(h, 1, e)
        <5>1. IsFrame(g, inside, issued) /\ g.k # "rec" /\ issued \in Nat
          BY <3>3
        <5>2. References(g.parent.bytes) \cap dead = {}
          BY <1>4
        <5>3. Sound(h, buffer, inside, issued, dead)
          BY <4>1
        <5>4. Sound(Append(h, g), buffer, inside, issued, dead)
          BY ONLY <5>1, <5>2, <5>3, PushPlain
        <5>5. ASSUME NEW e PROVE Restored(Append(h, g), 1, e) = Restored(h, 1, e)
          BY ONLY <5>1, <5>2, <5>3, PushPlain
        <5> QED
          BY <5>4, <5>5
      <4> QED
        BY <4>2 DEF h
    <3> QED
      BY <1>1, <3>1, <3>4
  <2>2. CASE Top.k = "rec"
    <3>1. g.k = "rec" /\ g.parent = b
      BY <1>1, <2>2
    <3>2. ~ buffer.io
      <4>1. ~ NoRec(frames, 1, Len(frames))
        BY <1>3, <2>2 DEF NoRec
      <4> QED
        BY <1>2, <4>1 DEF Sound
    <3>3. IsBuffer(buffer, issued) /\ References(buffer.bytes) \cap dead = {}
      BY <1>2 DEF Sound
    <3> DEFINE h == Front(frames)
    <3>4. Sound(h, b, inside, issued, dead) /\ issued \in Nat
      BY <1>2
    <3>5. IsFrame(g, inside, issued)
      OBVIOUS
    <3> HIDE DEF h
    <3>6. /\ Sound(Append(h, g), buffer, inside, issued, dead)
          /\ Restored(Append(h, g), 1, buffer) = Restored(h, 1, b)
      BY ONLY <3>1, <3>2, <3>3, <3>4, <3>5, PushRec
    <3> QED
      BY <1>1, <3>6 DEF h
  <2> QED
    BY <2>1, <2>2
<1> HIDE DEF gs
<1>6. Ready(gs, buffer)
  BY <1>1, <1>5 DEF Ready
<1> QED
  BY <1>5, <1>6 DEF Caller, gs
-----------------------------------------------------------------------------
(* The steps. *)

\* What a step leaves of the stream and of the stack.
Goes ==
    /\ raises' \in 0 .. use.raises /\ exact' \in BOOLEAN
    /\ issued' \in Nat /\ dead' \subseteq 1 .. issued'
    /\ Sound(frames', buffer', inside', issued', dead')
    /\ IsSeq(sent') /\ Extends(Written', Written)
    /\ inside' = inside /\ meddles' = meddles

LEMMA KeepsGoes ==
  ASSUME NEW fs, NEW b, Keeps(fs, b), Restored(fs, 1, b) = Owners
  PROVE  Goes
BY DEF Keeps, Goes, Written

\* One object is written from the frame on top, which has gone on to g.
Advances ==
    \E g, v :
       /\ IsFrame(g, inside, issued) /\ g.k = Top.k /\ g.parent = Top.parent
       /\ v \in Object /\ WriteValue(v, Caller(g))
       /\ Top.k # "rec" => Left(Top) = Left(g) + 1

LEMMA AdvancesGoes ==
  ASSUME Ready(frames, buffer), InsideInv(inside), frames # <<>>, Advances
  PROVE  Goes
<1>1. PICK g, v : /\ IsFrame(g, inside, issued) /\ g.k = Top.k /\ g.parent = Top.parent
                  /\ v \in Object /\ WriteValue(v, Caller(g))
  BY DEF Advances
<1>2. Ready(Caller(g), buffer) /\ Restored(Caller(g), 1, buffer) = Owners
  BY <1>1, CallerReady
<1>3. Keeps(Caller(g), buffer)
  BY <1>1, <1>2, WriteValueKeeps
<1> QED
  BY <1>2, <1>3, KeepsGoes

\* f has gone on to `at`, and still has to write `todo`.
LEMMA Advanced ==
  ASSUME NEW f, NEW m, IsFrame(f, inside, m), NEW at \in 0 .. f.len,
         NEW todo \in Seq(Object), f.k = "hash" => at % 2 = 0,
         NEW g, g = [k |-> f.k, v |-> f.v, at |-> at, len |-> f.len, todo |-> todo,
                     parent |-> f.parent, held |-> f.held]
  PROVE  IsFrame(g, inside, m) /\ g.k = f.k /\ g.parent = f.parent
<1>1. /\ g.k = f.k /\ g.v = f.v /\ g.at = at /\ g.len = f.len /\ g.todo = todo
      /\ g.parent = f.parent /\ g.held = f.held
  OBVIOUS
<1>2. g = [k |-> g.k, v |-> g.v, at |-> g.at, len |-> g.len, todo |-> g.todo,
           parent |-> g.parent, held |-> g.held]
  BY <1>1
<1>3. IsFrame(g, inside, m)
  BY <1>1, <1>2 DEF IsFrame
<1> QED
  BY <1>1, <1>3

LEMMA NextElementIs ==
  ASSUME Ready(frames, buffer), InsideInv(inside), frames # <<>>, NextElement(Top)
  PROVE  Advances
<1> DEFINE f == Top
           v == IF f.at < Len(inside[f.v]) THEN inside[f.v][f.at + 1] ELSE Nil
           g == [f EXCEPT !.at = f.at + 1]
<1>1. IsFrame(f, inside, issued)
  BY TopIs
<1>2. f.k = "array" /\ f.at < f.len /\ WriteValue(v, Caller(g))
  BY DEF NextElement
<1> HIDE DEF f
<1>3. f.at \in Nat /\ f.len \in Nat /\ f.at + 1 \in 0 .. f.len /\ f.todo \in Seq(Object)
      /\ inside[f.v] \in Seq(Object)
  BY <1>1, <1>2 DEF IsFrame, Suits, InsideInv
<1>4. v \in Object
  <2>1. f.at < Len(inside[f.v]) => inside[f.v][f.at + 1] \in Object
    <3> DEFINE now == inside[f.v]
    <3>1. now \in Seq(Object)
      BY <1>3
    <3> HIDE DEF now
    <3>2. f.at < Len(now) => now[f.at + 1] \in Object
      BY <1>3, <3>1
    <3> QED
      BY <3>2 DEF now
  <2> QED
    BY <2>1, PackerAssumption
<1>5. g = [k |-> f.k, v |-> f.v, at |-> f.at + 1, len |-> f.len, todo |-> f.todo,
           parent |-> f.parent, held |-> f.held]
  BY <1>1, OtherFields DEF IsFrame, AsFrame
<1> HIDE DEF v, g
<1>6. IsFrame(g, inside, issued) /\ g.k = f.k /\ g.parent = f.parent
  BY <1>1, <1>2, <1>3, <1>5, Advanced
<1>7. Left(f) = Left(g) + 1
  <2>1. g.k = f.k /\ g.len = f.len /\ g.at = f.at + 1
    BY <1>5
  <2> QED
    BY <1>2, <1>3, <2>1 DEF Left
<1> QED
  BY <1>2, <1>4, <1>6, <1>7 DEF f, Advances

LEMMA NextOfProcIs ==
  ASSUME Ready(frames, buffer), InsideInv(inside), frames # <<>>, NextOfProc(Top)
  PROVE  Advances
<1> DEFINE f == Top
           v == inside[f.v][f.at + 1]
           g == [f EXCEPT !.at = f.at + 1]
<1>1. IsFrame(f, inside, issued)
  BY TopIs
<1>2. f.k \in Writing /\ f.at < f.len /\ WriteValue(v, Caller(g))
  BY DEF NextOfProc
<1> HIDE DEF f
<1>3. /\ f.at \in Nat /\ f.len \in Nat /\ f.at + 1 \in 0 .. f.len /\ f.todo \in Seq(Object)
      /\ f.v \in Object /\ f.k # "hash"
  BY <1>1, <1>2 DEF IsFrame, Suits, Writing
<1>4. inside[f.v] \in Seq(Object) /\ Len(inside[f.v]) = f.len
  BY <1>1, <1>2, <1>3 DEF IsFrame, Suits, InsideInv
<1>5. v \in Object
  BY <1>2, <1>3, <1>4
<1>6. g = [k |-> f.k, v |-> f.v, at |-> f.at + 1, len |-> f.len, todo |-> f.todo,
           parent |-> f.parent, held |-> f.held]
  BY <1>1, OtherFields DEF IsFrame, AsFrame
<1> HIDE DEF v, g
<1>7. IsFrame(g, inside, issued) /\ g.k = f.k /\ g.parent = f.parent
  BY <1>1, <1>3, <1>6, Advanced
<1>8. f.k # "rec" => Left(f) = Left(g) + 1
  <2>1. g.k = f.k /\ g.len = f.len /\ g.at = f.at + 1
    BY <1>6
  <2> QED
    BY <1>2, <1>3, <2>1 DEF Left, Writing
<1> QED
  BY <1>2, <1>5, <1>7, <1>8 DEF f, Advances

LEMMA NextKeyIs ==
  ASSUME Ready(frames, buffer), InsideInv(inside), frames # <<>>, NextKey(Top)
  PROVE  Advances
<1> DEFINE f == Top
           now == inside[f.v]
           v == now[f.at + 1]
           g == [f EXCEPT !.at = f.at + 2, !.todo = <<now[f.at + 2]>>]
<1>1. IsFrame(f, inside, issued)
  BY TopIs
<1>2. f.k = "hash" /\ f.at < Len(now) /\ WriteValue(v, Caller(g))
  BY DEF NextKey
<1> HIDE DEF f
<1>3. /\ f.at \in Nat /\ f.len \in Nat /\ f.v \in Object /\ f.at % 2 = 0
      /\ Len(now) <= f.len /\ Data[f.v].k = "hash"
  BY <1>1, <1>2 DEF IsFrame, Suits
<1>4. now \in Seq(Object) /\ Len(now) % 2 = 0 /\ Len(now) \in Nat
  <2>1. now \in Seq(Object) /\ Len(now) % 2 = 0
    BY <1>3 DEF InsideInv
  <2> HIDE DEF now
  <2> QED
    BY <2>1
<1> HIDE DEF now
<1>5. f.at + 2 <= Len(now) /\ (f.at + 2) % 2 = 0
  BY <1>2, <1>3, <1>4
<1>6. v \in Object /\ now[f.at + 2] \in Object
  BY <1>3, <1>4, <1>5
<1>7. f.at + 2 \in 0 .. f.len /\ <<now[f.at + 2]>> \in Seq(Object)
  BY <1>3, <1>4, <1>5, <1>6
<1>8. g = [k |-> f.k, v |-> f.v, at |-> f.at + 2, len |-> f.len,
           todo |-> <<now[f.at + 2]>>, parent |-> f.parent, held |-> f.held]
  BY <1>1, AdvancedIs DEF IsFrame, AsFrame
<1> HIDE DEF v, g
<1>9. IsFrame(g, inside, issued) /\ g.k = f.k /\ g.parent = f.parent
  BY <1>1, <1>5, <1>7, <1>8, Advanced
<1>10. Left(f) = Left(g) + 1
  <2>1. g.k = f.k /\ g.len = f.len /\ g.at = f.at + 2 /\ g.todo = <<now[f.at + 2]>>
    BY <1>8
  <2>2. f.todo = <<>> /\ <<now[f.at + 2]>> # <<>>
    BY DEF NextKey, f
  <2> QED
    BY <1>2, <1>3, <2>1, <2>2 DEF Left
<1> QED
  BY <1>2, <1>6, <1>9, <1>10 DEF f, Advances

LEMMA NextValueIs ==
  ASSUME Ready(frames, buffer), InsideInv(inside), frames # <<>>, NextValue(Top)
  PROVE  Advances
<1> DEFINE f == Top
           v == f.todo[1]
           g == [f EXCEPT !.todo = <<>>]
<1>1. IsFrame(f, inside, issued)
  BY TopIs
<1>2. f.k = "hash" /\ f.todo # <<>> /\ WriteValue(v, Caller(g))
  BY DEF NextValue
<1> HIDE DEF f
<1>3. f.at \in 0 .. f.len /\ f.at % 2 = 0 /\ f.todo \in Seq(Object)
  BY <1>1, <1>2 DEF IsFrame
<1>4. v \in Object
  <2>1. Len(f.todo) \in Nat \ {0}
    BY <1>2, <1>3, EmptySeq
  <2> QED
    BY <1>3, <2>1
<1>5. /\ g = [k |-> f.k, v |-> f.v, at |-> f.at, len |-> f.len, todo |-> <<>>,
              parent |-> f.parent, held |-> f.held]
      /\ <<>> \in Seq(Object)
  <2>1. f = AsFrame(f)
    BY <1>1 DEF IsFrame, AsFrame
  <2>2. g = [k |-> f.k, v |-> f.v, at |-> f.at, len |-> f.len, todo |-> <<>>,
             parent |-> f.parent, held |-> f.held]
    BY <2>1, OtherFields
  <2> QED
    BY <2>2
<1> HIDE DEF v, g
<1>6. IsFrame(g, inside, issued) /\ g.k = f.k /\ g.parent = f.parent
  BY <1>1, <1>3, <1>5, Advanced
<1>7. Left(f) = Left(g) + 1
  <2>1. g.k = f.k /\ g.len = f.len /\ g.at = f.at /\ g.todo = <<>>
    BY <1>5
  <2>2. f.at \in Int /\ f.len \in Int
    BY <1>1, <1>3 DEF IsFrame
  <2> QED
    BY <1>2, <2>1, <2>2 DEF Left
<1> QED
  BY <1>2, <1>4, <1>6, <1>7 DEF f, Advances

LEMMA ContinueIs ==
  ASSUME Ready(frames, buffer), InsideInv(inside), Continue
  PROVE  frames # <<>> /\ Advances
BY NextElementIs, NextKeyIs, NextValueIs, NextOfProcIs DEF Continue

LEMMA ContinueGoes ==
  ASSUME Ready(frames, buffer), InsideInv(inside), Continue
  PROVE  Goes
BY ContinueIs, AdvancesGoes

\* The buffer has the same bytes and the same IO, and the stack is one that
\* the exception or the return leaves.
LEMMA ReturnPlainlyGoes ==
  ASSUME Ready(frames, buffer), frames # <<>>, ReturnPlainly(Top)
  PROVE  Goes
<1> DEFINE b == Restored(frames, Len(frames), buffer)
           done == Top.k = "hash" => Top.at = Top.len
<1>1. /\ Ready(Front(frames), b) /\ Restored(Front(frames), 1, b) = Owners
      /\ Top.k # "rec" => b = buffer
  BY PopReady
<1>2. /\ Top.k # "rec" /\ frames' = Front(frames)
      /\ buffer' = [buffer EXCEPT !.clean = buffer.clean /\ done]
      /\ UNCHANGED <<inside, sent, issued, dead, exact, raises, meddles>>
  BY DEF ReturnPlainly
<1> HIDE DEF b
<1>3. /\ b = buffer /\ Sound(Front(frames), buffer, inside, issued, dead)
      /\ issued \in Nat /\ raises \in 0 .. use.raises /\ exact \in BOOLEAN
      /\ dead \subseteq 1 .. issued /\ IsSeq(sent)
  BY <1>1, <1>2 DEF Ready
<1>4. IsBuffer(buffer, issued) /\ References(buffer.bytes) \cap dead = {}
  BY <1>3 DEF Sound
<1> HIDE DEF done
<1>5. /\ buffer' = [bytes |-> buffer.bytes, io |-> buffer.io, clean |-> buffer.clean /\ done]
      /\ buffer'.bytes = buffer.bytes /\ buffer'.io = buffer.io
  <2>1. buffer = [bytes |-> buffer.bytes, io |-> buffer.io, clean |-> buffer.clean]
    BY <1>4 DEF IsBuffer
  <2>2. buffer' = [bytes |-> buffer.bytes, io |-> buffer.io, clean |-> buffer.clean /\ done]
    BY <1>2, <2>1
  <2> QED
    BY <2>2
<1>6. (buffer.clean /\ done) \in BOOLEAN
  BY <1>4 DEF IsBuffer, done
<1>7. IsBuffer(buffer', issued)
  BY <1>4, <1>5, <1>6 DEF IsBuffer
<1>8. Sound(frames', buffer', inside, issued, dead)
  <2>1. issued <= issued
    BY <1>3
  <2> QED
    BY <1>2, <1>3, <1>4, <1>5, <1>7, <2>1, Rewritten
<1>9. Owners'.bytes = Owners.bytes
  <2>1. IsSeq(Front(frames))
    BY <1>3 DEF Sound
  <2>2. Restored(Front(frames), 1, buffer').bytes = Restored(Front(frames), 1, buffer).bytes
    BY <1>5, <2>1, SameBytes
  <2> QED
    BY <1>1, <1>2, <1>3, <2>2 DEF Owners
<1>10. Extends(Written', Written)
  <2>1. IsSeq(Owners.bytes)
    BY OwnersBytes DEF Ready, Owners
  <2> QED
    BY <1>2, <1>3, <1>9, <2>1, ConcatIs, Extension DEF Written
<1> QED
  BY <1>2, <1>3, <1>8, <1>10 DEF Goes

LEMMA ReturnGoes ==
  ASSUME Ready(frames, buffer), Return
  PROVE  Goes
<1> DEFINE b == Restored(frames, Len(frames), buffer)
<1>1. frames # <<>>
  BY DEF Return
<1>2. /\ Ready(Front(frames), b) /\ Restored(Front(frames), 1, b) = Owners
      /\ Top.k # "rec" => b = buffer
  BY <1>1, PopReady
<1>3. CASE ReturnPlainly(Top)
  BY <1>1, <1>3, ReturnPlainlyGoes
<1>4. CASE ReturnPayload(Top)
  <2>1. PICK n : Put(buffer, Front(frames), ExtHeader(n, Data[Top.v].type), Top.v,
                     Payload(Data[Top.v]), n)
    BY <1>4 DEF ReturnPayload
  <2>2. b = buffer
    BY <1>2, <1>4 DEF ReturnPayload
  <2>3. Plain(ExtHeader(n, Data[Top.v].type))
    BY HeadersArePlain
  <2> HIDE DEF b
  <2>4. Keeps(Front(frames), buffer)
    BY <1>2, <2>1, <2>2, <2>3, PutKeeps
  <2> QED
    BY <1>2, <2>2, <2>4, KeepsGoes
<1>5. CASE ReturnRecursive(Top)
  <2>1. PICK n : Put(b, Front(frames), ExtHeader(n, Data[Top.v].type), Top.v,
                     Copied(buffer.bytes), n)
    BY <1>5 DEF ReturnRecursive
  <2>2. Plain(ExtHeader(n, Data[Top.v].type))
    BY HeadersArePlain
  <2> HIDE DEF b
  <2>3. Keeps(Front(frames), b)
    BY <1>2, <2>1, <2>2, PutKeeps
  <2> QED
    BY <1>2, <2>3, KeepsGoes
<1> QED
  BY <1>3, <1>4, <1>5 DEF Return

LEMMA ProcRaisesGoes ==
  ASSUME Ready(frames, buffer), ProcRaises
  PROVE  Goes
<1> DEFINE b == Restored(frames, Len(frames), buffer)
<1>1. /\ frames # <<>> /\ raises < use.raises /\ raises' = raises + 1
      /\ Raise(Front(frames), b) /\ sent' = sent
  BY DEF ProcRaises, InRuby
<1>2. Ready(Front(frames), b) /\ Restored(Front(frames), 1, b) = Owners
  BY <1>1, PopReady
<1> HIDE DEF b
<1>3. /\ Sound(Front(frames), b, inside, issued, dead) /\ IsSeq(sent) /\ issued \in Nat
      /\ dead \subseteq 1 .. issued /\ raises \in 0 .. use.raises /\ use \in Uses
  BY <1>2 DEF Ready
<1>4. /\ Sound(frames', buffer', inside', issued', dead')
      /\ Owners'.bytes = Owners.bytes
      /\ inside' = inside /\ issued' = issued /\ dead' = dead /\ meddles' = meddles
      /\ exact' = FALSE
  BY <1>1, <1>2, <1>3, RaiseKeeps
<1>5. raises' \in 0 .. use.raises
  <2>1. use.raises \in Nat
    BY <1>3, PackerAssumption
  <2> QED
    BY <1>1, <1>3, <2>1
<1>6. Extends(Written', Written)
  <2>1. IsSeq(Owners.bytes)
    BY OwnersBytes DEF Ready, Owners
  <2> QED
    BY <1>1, <1>3, <1>4, <2>1, ConcatIs, Extension DEF Written
<1> QED
  BY <1>1, <1>3, <1>4, <1>5, <1>6 DEF Goes

\* Only the containers change, and no hash grows.
LEMMA SoundInside ==
  ASSUME NEW fs, NEW b, NEW ins, NEW jns, NEW m, NEW d, Sound(fs, b, ins, m, d),
         InsideInv(ins), InsideInv(jns),
         \A v \in Object : Data[v].k = "hash" => Len(jns[v]) <= Len(ins[v])
  PROVE  Sound(fs, b, jns, m, d)
<1>1. ASSUME NEW f, IsFrame(f, ins, m) PROVE IsFrame(f, jns, m)
  <2>1. f.k = "hash" => Len(jns[f.v]) <= f.len
    <3>1. ASSUME f.k = "hash" PROVE Len(jns[f.v]) <= f.len
      <4>1. /\ f.v \in Object /\ Data[f.v].k = "hash" /\ f.len \in Nat
            /\ Len(ins[f.v]) <= f.len
        BY <1>1, <3>1 DEF IsFrame, Suits
      <4>2. Len(jns[f.v]) <= Len(ins[f.v])
        BY <4>1
      <4>3. Len(jns[f.v]) \in Nat /\ Len(ins[f.v]) \in Nat
        BY <4>1 DEF InsideInv
      <4> QED
        BY <4>1, <4>2, <4>3
    <3> QED
      BY <3>1
  <2> QED
    BY <1>1, <2>1 DEF IsFrame
<1> QED
  BY <1>1 DEF Sound

LEMMA OneContainer ==
  ASSUME InsideInv(inside), NEW v \in Object, Data[v].k \in {"array", "hash"},
         NEW s \in Seq(Object),
         Data[v].k = "hash" => Len(s) % 2 = 0 /\ Len(s) <= Len(inside[v]),
         NEW jns, jns = [inside EXCEPT ![v] = s]
  PROVE  /\ InsideInv(jns)
         /\ \A w \in Object : Data[w].k = "hash" => Len(jns[w]) <= Len(inside[w])
<1>1. inside \in [Object -> Seq(Object)]
  BY DEF InsideInv
<1>2. jns \in [Object -> Seq(Object)] /\ jns[v] = s
      /\ \A w \in Object : w # v => jns[w] = inside[w]
  BY <1>1
<1>3. InsideInv(jns)
  BY <1>2 DEF InsideInv
<1>4. ASSUME NEW w \in Object, Data[w].k = "hash" PROVE Len(jns[w]) <= Len(inside[w])
  <2>1. Len(inside[w]) \in Nat
    BY <1>1
  <2> QED
    BY <1>2, <1>4, <2>1
<1> QED
  BY <1>3, <1>4

LEMMA ChangeKeeps ==
  ASSUME Ready(frames, buffer), InsideInv(inside), Change
  PROVE  /\ Sound(frames, buffer, inside', issued, dead) /\ InsideInv(inside')
<1>1. Sound(frames, buffer, inside, issued, dead)
  BY DEF Ready
<1>2. PICK f \in Range(frames) :
        \/ /\ f.k = "array"
           /\ inside' \in {[inside EXCEPT ![f.v] = Front(inside[f.v])] :
                              i \in 1 .. Len(inside[f.v])}
                          \cup {[inside EXCEPT ![f.v] = Append(inside[f.v], Nil)]}
        \/ /\ f.k = "hash" /\ inside[f.v] # <<>>
           /\ inside' = [inside EXCEPT ![f.v] = SubSeq(inside[f.v], 1, Len(inside[f.v]) - 2)]
  BY DEF Change
<1>3. IsFrame(f, inside, issued)
  BY <1>1, SeqFacts DEF Sound, Range
<1> DEFINE now == inside[f.v]
<1>4. /\ f.k \in {"array", "hash"} /\ f.v \in Object /\ Data[f.v].k = f.k
      /\ now \in Seq(Object) /\ Len(now) \in Nat
  BY <1>2, <1>3 DEF IsFrame, Suits, InsideInv
<1>5. \E s \in Seq(Object) :
        /\ inside' = [inside EXCEPT ![f.v] = s]
        /\ Data[f.v].k = "hash" => Len(s) % 2 = 0 /\ Len(s) <= Len(now)
  <2>1. CASE f.k = "array" /\ inside' = [inside EXCEPT ![f.v] = Append(now, Nil)]
    <3>1. Append(now, Nil) \in Seq(Object)
      BY <1>4, PackerAssumption
    <3> QED
      BY <1>4, <2>1, <3>1
  <2>2. CASE /\ f.k = "array" /\ 1 .. Len(now) # {}
             /\ inside' = [inside EXCEPT ![f.v] = Front(now)]
    <3> HIDE DEF now
    <3>1. \A i \in 1 .. Len(now) - 1 : now[i] \in Object
      BY <1>4
    <3>2. SubSeq(now, 1, Len(now) - 1) \in Seq(Object)
      BY <1>4, <2>2, <3>1, SubSeqProperties
    <3>3. Front(now) \in Seq(Object)
      BY <3>2 DEF Front
    <3> QED
      BY <1>4, <2>2, <3>3
  <2>3. CASE /\ f.k = "hash" /\ now # <<>>
             /\ inside' = [inside EXCEPT ![f.v] = SubSeq(now, 1, Len(now) - 2)]
    <3>1. Len(now) % 2 = 0
      BY <1>4, <2>3 DEF InsideInv
    <3> HIDE DEF now
    <3>2. Len(now) # 0
      BY <1>4, <2>3, EmptySeq
    <3>3. Len(now) - 2 \in 0 .. Len(now) /\ (Len(now) - 2) % 2 = 0
      BY <1>4, <3>1, <3>2
    <3> DEFINE s == SubSeq(now, 1, Len(now) - 2)
    <3>4. IsSeq(now) /\ Range(now) \subseteq Object
      BY <1>4, SomeSeq
    <3>5. /\ IsSeq(s) /\ Len(s) = Len(now) - 2
          /\ \A i \in 1 .. Len(now) - 2 : s[i] = now[i]
      BY <3>3, <3>4, CutIs
    <3>6. s \in Seq(Object)
      <4>1. \A i \in 1 .. Len(now) - 2 : now[i] \in Object
        BY <1>4
      <4>2. \A i \in 1 .. Len(s) : s[i] \in Object
        BY <3>5, <4>1
      <4> HIDE DEF s
      <4>3. Range(s) \subseteq Object
        BY <3>5, <4>2, SeqFacts DEF Range
      <4> QED
        BY <3>5, <4>3, SeqFacts
    <3>7. Len(s) % 2 = 0 /\ Len(s) <= Len(now)
      <4>1. Len(s) = Len(now) - 2
        BY <3>5
      <4> HIDE DEF s
      <4> QED
        BY <1>4, <3>3, <4>1
    <3>8. inside' = [inside EXCEPT ![f.v] = s]
      BY <2>3
    <3> HIDE DEF s
    <3> QED
      BY <3>6, <3>7, <3>8
  <2> QED
    BY <1>2, <2>1, <2>2, <2>3
<1>6. PICK s \in Seq(Object) :
        /\ inside' = [inside EXCEPT ![f.v] = s]
        /\ Data[f.v].k = "hash" => Len(s) % 2 = 0 /\ Len(s) <= Len(inside[f.v])
  BY <1>5
<1>7. /\ InsideInv(inside')
      /\ \A w \in Object : Data[w].k = "hash" => Len(inside'[w]) <= Len(inside[w])
  BY <1>4, <1>6, OneContainer
<1> QED
  BY <1>1, <1>7, SoundInside

\* The collector takes nothing that is marked.
LEMMA CollectKeeps ==
  ASSUME Ready(frames, buffer), Collect
  PROVE  /\ Sound(frames, buffer, inside, issued, dead') /\ dead' \subseteq 1 .. issued
<1> DEFINE marked == References(buffer.bytes) \cup UNION {f.held : f \in Range(frames)}
<1>1. Sound(frames, buffer, inside, issued, dead)
  BY DEF Ready
<1>2. dead' = (1 .. issued) \ marked
  BY DEF Collect
<1>3. ASSUME NEW i \in 1 .. Len(frames) PROVE References(frames[i].parent.bytes) \cap dead' = {}
  <2>1. IsFrame(frames[i], inside, issued) /\ frames[i] \in Range(frames)
    BY <1>1, SeqFacts DEF Sound
  <2>2. References(frames[i].parent.bytes) \subseteq frames[i].held
    BY <2>1 DEF IsFrame
  <2>3. frames[i].held \subseteq marked
    BY <2>1
  <2> HIDE DEF marked
  <2> QED
    BY <1>2, <2>2, <2>3
<1>4. References(buffer.bytes) \cap dead' = {}
  BY <1>2
<1> QED
  BY <1>1, <1>2, <1>3, <1>4 DEF Sound

\* A part of the bytes s, those of the owner's buffer, goes to its IO.
LEMMA HandedOver ==
  ASSUME Ready(frames, buffer), frames = <<>>,
         NEW cut \in 0 .. Len(buffer.bytes), Split(buffer, buffer.bytes, cut)
  PROVE  /\ IsSeq(sent') /\ Sound(frames, buffer', inside, issued, dead)
         /\ sent' \o buffer'.bytes = sent \o buffer.bytes
<1> DEFINE x == SubSeq(buffer.bytes, 1, cut)
           y == SubSeq(buffer.bytes, cut + 1, Len(buffer.bytes))
<1>1. /\ Sound(frames, buffer, inside, issued, dead) /\ IsSeq(sent) /\ issued \in Nat
  BY DEF Ready
<1>2. IsBuffer(buffer, issued) /\ References(buffer.bytes) \cap dead = {}
  BY <1>1 DEF Sound
<1>3. IsSeq(buffer.bytes)
  BY <1>2 DEF IsBuffer
<1>4. IsSeq(x) /\ IsSeq(y) /\ Range(y) \subseteq Range(buffer.bytes) /\ x \o y = buffer.bytes
  BY <1>3, CutIs
<1>5. sent' = sent \o x /\ buffer' = [buffer EXCEPT !.bytes = y]
  BY DEF Split
<1> HIDE DEF x, y
<1>6. /\ buffer' = [bytes |-> y, io |-> buffer.io, clean |-> buffer.clean]
      /\ buffer'.bytes = y /\ buffer'.io = buffer.io /\ buffer'.clean = buffer.clean
  BY <1>2, <1>5, OtherBytes DEF IsBuffer
<1>7. References(y) \subseteq References(buffer.bytes)
  BY <1>3, <1>4, ReferencesOfPart
<1>8. IsBuffer(buffer', issued) /\ References(buffer'.bytes) \cap dead = {}
  BY <1>2, <1>4, <1>6, <1>7 DEF IsBuffer
<1>9. Sound(frames, buffer', inside, issued, dead)
  <2>1. issued <= issued
    BY <1>1
  <2> QED
    BY <1>1, <1>6, <1>8, <2>1, Rewritten
<1>10. (sent \o x) \o y = sent \o (x \o y)
  <2>1. IsSeq(sent) /\ IsSeq(x) /\ IsSeq(y)
    BY <1>1, <1>4
  <2> QED
    BY <2>1, ConcatTwice
<1>11. IsSeq(sent')
  BY <1>1, <1>4, <1>5, ConcatIs
<1> QED
  BY <1>4, <1>5, <1>6, <1>9, <1>10, <1>11

LEMMA EmptiedIs ==
  ASSUME NEW b, NEW m, IsBuffer(b, m)
  PROVE  /\ IsBuffer(Emptied(b), m) /\ Emptied(b).io = b.io /\ Emptied(b).bytes = <<>>
         /\ References(Emptied(b).bytes) = {} /\ References(Emptied(b).bytes) \subseteq 1 .. 0
<1>1. Emptied(b) = [bytes |-> <<>>, io |-> b.io, clean |-> TRUE]
  <2> DEFINE c == [b EXCEPT !.bytes = <<>>]
  <2>1. c = [bytes |-> <<>>, io |-> b.io, clean |-> b.clean]
    BY OtherBytes DEF IsBuffer
  <2> HIDE DEF c
  <2>2. c = [bytes |-> c.bytes, io |-> c.io, clean |-> c.clean] /\ c.bytes = <<>> /\ c.io = b.io
    BY <2>1
  <2>3. [c EXCEPT !.clean = TRUE] = [bytes |-> c.bytes, io |-> c.io, clean |-> TRUE]
    BY <2>2, OtherClean
  <2> QED
    BY <2>2, <2>3 DEF c, Emptied
<1>2. Emptied(b).bytes = <<>> /\ Emptied(b).io = b.io /\ Emptied(b).clean = TRUE
  BY <1>1
<1>3. IsSeq(<<>>) /\ References(<<>>) = {}
  BY OneIs, ReferencesOfNone
<1> QED
  BY <1>1, <1>2, <1>3 DEF IsBuffer

\* Only the buffer of a recursive type can be cleared in the middle of a call.
LEMMA ClearKeeps ==
  ASSUME Ready(frames, buffer), Clear
  PROVE  Sound(frames, buffer', inside, issued, dead) /\ Owners' = Owners
<1>1. frames # <<>> /\ Top.k = "rec" /\ buffer' = Emptied(buffer) /\ frames' = frames
  BY DEF Clear, InRuby
<1>2. IsSeq(frames) /\ Len(frames) \in Nat \ {0} /\ Top = frames[Len(frames)]
  BY <1>1, TopIs
<1>3. Sound(frames, buffer, inside, issued, dead) /\ issued \in Nat /\ issued <= issued
  BY DEF Ready
<1>4. IsBuffer(buffer, issued)
  BY <1>3 DEF Sound
<1>5. /\ IsBuffer(buffer', issued) /\ buffer'.io = buffer.io
      /\ References(buffer'.bytes) \cap dead = {}
  BY <1>1, <1>4, EmptiedIs
<1>6. Sound(frames, buffer', inside, issued, dead)
  BY <1>3, <1>5, Rewritten
<1>7. ~ NoRec(frames, 1, Len(frames))
  BY <1>1, <1>2 DEF NoRec
<1>8. PICK i : FirstRec(frames, 1, i)
  BY <1>2, <1>7, RestoredIs
<1>9. Restored(frames, 1, buffer') = frames[i].parent /\ Restored(frames, 1, buffer) = frames[i].parent
  BY <1>2, <1>8, RestoredIs
<1> QED
  BY <1>1, <1>6, <1>9 DEF Owners

LEMMA EmptyStack ==
  ASSUME NEW b
  PROVE  Restored(<<>>, 1, b) = b
<1>1. IsSeq(<<>>) /\ Len(<<>>) = 0
  BY OneIs
<1>2. NoRec(<<>>, 1, Len(<<>>))
  <2>1. \A i \in 1 .. Len(<<>>) : FALSE
    BY <1>1
  <2> QED
    BY <2>1 DEF NoRec
<1> QED
  BY <1>1, <1>2, RestoredIs
-----------------------------------------------------------------------------
(* The invariant. *)

KeptFirst == IsPrefix(kept, Written)

IInv ==
    /\ Ready(frames, buffer)
    /\ InsideInv(inside)
    /\ meddles \in 0 .. use.meddles
    /\ wrote \in Seq(use.values) /\ Len(wrote) <= use.writes
    /\ IsSeq(kept) /\ KeptFirst

LEMMA StreamIs ==
  ASSUME Ready(frames, buffer)
  PROVE  IsSeq(Written) /\ IsSeq(Owners.bytes)
<1>1. IsSeq(Owners.bytes)
  BY OwnersBytes DEF Ready, Owners
<1> QED
  BY <1>1, ConcatIs DEF Ready, Written

LEMMA IInvInit == Init => IInv
<1> SUFFICES ASSUME Init PROVE IInv
  OBVIOUS
<1>1. /\ use \in Uses /\ inside = Contents
      /\ buffer = [bytes |-> <<>>, io |-> use.io, clean |-> TRUE]
      /\ sent = <<>> /\ frames = <<>> /\ issued = 0 /\ dead = {}
      /\ wrote = <<>> /\ kept = <<>> /\ exact = TRUE /\ raises = 0 /\ meddles = 0
  BY DEF Init
<1>2. /\ use.io \in BOOLEAN /\ use.raises \in Nat /\ use.meddles \in Nat /\ use.writes \in Nat
  BY <1>1, PackerAssumption
<1>3. IsSeq(<<>>) /\ References(<<>>) = {} /\ Len(<<>>) = 0
  BY OneIs, ReferencesOfNone
<1>4. IsBuffer(buffer, 0) /\ References(buffer.bytes) = {}
  BY <1>1, <1>2, <1>3 DEF IsBuffer
<1>5. Sound(frames, buffer, inside, issued, dead)
  <2>1. \A i : i \notin 1 .. Len(frames)
    BY <1>1, <1>3
  <2>2. NoRec(frames, 1, Len(frames))
    BY <2>1 DEF NoRec
  <2> QED
    BY <1>1, <1>3, <1>4, <2>1, <2>2 DEF Sound
<1>6. Ready(frames, buffer)
  BY <1>1, <1>2, <1>3, <1>5 DEF Ready
<1>7. InsideInv(inside)
  <2>1. /\ \A v \in Object : Data[v].kids \in Seq(Object)
        /\ \A v \in Object : Data[v].k = "hash" => Len(Data[v].kids) % 2 = 0
    BY PackerAssumption
  <2> QED
    BY <1>1, <2>1 DEF InsideInv, Contents
<1>8. IsPrefix(<<>>, Written)
  <2>1. Written = <<>> \o Owners.bytes /\ IsSeq(Owners.bytes)
    BY <1>1, <1>6, StreamIs DEF Written
  <2>2. Extends(Written, <<>>)
    BY <2>1 DEF Extends
  <2> QED
    BY <1>3, <2>2, PrefixOfItself
<1>9. wrote \in Seq(use.values) /\ Len(wrote) <= use.writes /\ meddles \in 0 .. use.meddles
  BY <1>1, <1>2, <1>3
<1> QED
  BY <1>1, <1>3, <1>6, <1>7, <1>8, <1>9 DEF IInv, KeptFirst

\* A step that only adds to the stream.
LEMMA GoesKeepsIInv ==
  ASSUME IInv, Goes, use' = use, wrote' = wrote, kept' = kept
  PROVE  IInv'
<1>1. /\ Ready(frames, buffer) /\ InsideInv(inside) /\ use \in Uses
      /\ IsSeq(kept) /\ IsPrefix(kept, Written)
  BY DEF IInv, Ready, KeptFirst
<1>2. /\ raises' \in 0 .. use.raises /\ exact' \in BOOLEAN
      /\ issued' \in Nat /\ dead' \subseteq 1 .. issued'
      /\ Sound(frames', buffer', inside', issued', dead')
      /\ IsSeq(sent') /\ Extends(Written', Written)
      /\ inside' = inside /\ meddles' = meddles
  BY DEF Goes
<1>3. Ready(frames, buffer)'
  BY <1>1, <1>2 DEF Ready
<1>4. IsSeq(Written)
  BY <1>1, StreamIs
<1>5. IsPrefix(kept, Written')
  BY <1>1, <1>2, <1>4, PrefixStays
<1>6. KeptFirst'
  BY <1>5 DEF KeptFirst
<1> QED
  BY <1>1, <1>2, <1>3, <1>6 DEF IInv

\* A step of which the stream is the same.
LEMMA SameStreamKeepsIInv ==
  ASSUME IInv, InsideInv(inside'), Sound(frames', buffer', inside', issued', dead'),
         issued' \in Nat, dead' \subseteq 1 .. issued', exact' \in BOOLEAN, IsSeq(sent'),
         raises' \in 0 .. use.raises, meddles' \in 0 .. use.meddles,
         Written' = Written, use' = use, wrote' = wrote, kept' = kept
  PROVE  IInv'
<1>1. Ready(frames, buffer)'
  BY DEF Ready, IInv
<1>2. KeptFirst'
  BY DEF KeptFirst, IInv
<1> QED
  BY <1>1, <1>2 DEF IInv

LEMMA WriteKeepsIInv ==
  ASSUME IInv, NEW v \in use.values, Write(v)
  PROVE  IInv'
<1>1. /\ frames = <<>> /\ Len(wrote) < use.writes /\ wrote' = Append(wrote, v)
      /\ kept' = sent \o buffer.bytes /\ WriteValue(v, <<>>) /\ use' = use
  BY DEF Write
<1>2. /\ Ready(frames, buffer) /\ InsideInv(inside) /\ use \in Uses
      /\ meddles \in 0 .. use.meddles /\ wrote \in Seq(use.values)
      /\ Len(wrote) <= use.writes
  BY DEF IInv, Ready
<1>3. v \in Object /\ use.writes \in Nat
  BY <1>2, PackerAssumption
<1>4. Keeps(<<>>, buffer)
  BY <1>1, <1>2, <1>3, WriteValueKeeps
<1>5. kept' = Written
  BY <1>1, EmptyStack DEF Written, Owners
<1>6. Goes
  BY <1>1, <1>4, KeepsGoes DEF Owners
<1>7. /\ raises' \in 0 .. use.raises /\ exact' \in BOOLEAN
      /\ issued' \in Nat /\ dead' \subseteq 1 .. issued'
      /\ Sound(frames', buffer', inside', issued', dead')
      /\ IsSeq(sent') /\ Extends(Written', Written)
      /\ inside' = inside /\ meddles' = meddles
  BY <1>6 DEF Goes
<1>8. Ready(frames, buffer)'
  BY <1>1, <1>2, <1>7 DEF Ready
<1>9. IsSeq(kept') /\ IsPrefix(kept', Written')
  BY <1>2, <1>5, <1>7, StreamIs, PrefixOfItself
<1>10. KeptFirst'
  BY <1>9 DEF KeptFirst
<1>11. wrote' \in Seq(use.values) /\ Len(wrote') <= use.writes
  BY <1>1, <1>2, <1>3
<1> QED
  BY <1>1, <1>2, <1>7, <1>8, <1>9, <1>10, <1>11 DEF IInv

LEMMA OwnerKeepsIInv ==
  ASSUME IInv, HandOver \/ HandOverRaises
  PROVE  IInv'
<1>1. /\ Ready(frames, buffer) /\ InsideInv(inside) /\ use \in Uses
      /\ meddles \in 0 .. use.meddles /\ raises \in 0 .. use.raises
      /\ issued \in Nat /\ dead \subseteq 1 .. issued /\ exact \in BOOLEAN
  BY DEF IInv, Ready
<1>2. /\ frames = <<>>
      /\ UNCHANGED <<use, inside, frames, issued, dead, wrote, kept, exact, meddles>>
  BY DEF HandOver, HandOverRaises
<1>3. raises' \in 0 .. use.raises
  <2>1. use.raises \in Nat
    BY <1>1, PackerAssumption
  <2> QED
    BY <1>1, <2>1 DEF HandOver, HandOverRaises
<1>4. IsSeq(buffer.bytes)
  BY <1>1 DEF Ready, Sound, IsBuffer
<1>5. Len(buffer.bytes) \in 0 .. Len(buffer.bytes)
  BY <1>4, SeqFacts
<1>6. \E cut \in 0 .. Len(buffer.bytes) : Split(buffer, buffer.bytes, cut)
  BY <1>5 DEF HandOver, HandOverRaises
<1>7. PICK cut \in 0 .. Len(buffer.bytes) : Split(buffer, buffer.bytes, cut)
  BY <1>6
<1>8. /\ IsSeq(sent') /\ Sound(frames, buffer', inside, issued, dead)
      /\ sent' \o buffer'.bytes = sent \o buffer.bytes
  BY <1>1, <1>2, <1>7, HandedOver
<1>9. Written' = Written
  BY <1>2, <1>8, EmptyStack DEF Written, Owners
<1> QED
  BY <1>1, <1>2, <1>3, <1>8, <1>9, SameStreamKeepsIInv

LEMMA ProcKeepsIInv ==
  ASSUME IInv, Change \/ Clear \/ Collect
  PROVE  IInv'
<1>1. /\ Ready(frames, buffer) /\ InsideInv(inside) /\ use \in Uses
      /\ meddles \in 0 .. use.meddles /\ raises \in 0 .. use.raises
      /\ issued \in Nat /\ dead \subseteq 1 .. issued /\ exact \in BOOLEAN /\ IsSeq(sent)
      /\ Sound(frames, buffer, inside, issued, dead)
  BY DEF IInv, Ready
<1>2. use.meddles \in Nat
  BY <1>1, PackerAssumption
<1>3. CASE Change
  <2>1. /\ exact' = FALSE /\ meddles < use.meddles /\ meddles' = meddles + 1
        /\ UNCHANGED <<use, buffer, sent, frames, issued, dead, wrote, kept, raises>>
    BY <1>3 DEF Change
  <2>2. Sound(frames, buffer, inside', issued, dead) /\ InsideInv(inside')
    BY <1>1, <1>3, ChangeKeeps
  <2>3. Written' = Written
    BY <2>1 DEF Written, Owners
  <2>4. meddles' \in 0 .. use.meddles
    BY <1>1, <1>2, <2>1
  <2> QED
    BY <1>1, <2>1, <2>2, <2>3, <2>4, SameStreamKeepsIInv
<1>4. CASE Clear
  <2>1. /\ exact' = FALSE /\ meddles < use.meddles /\ meddles' = meddles + 1
        /\ UNCHANGED <<use, inside, sent, frames, issued, dead, wrote, kept, raises>>
    BY <1>4 DEF Clear
  <2>2. Sound(frames, buffer', inside, issued, dead) /\ Owners' = Owners
    BY <1>1, <1>4, ClearKeeps
  <2>3. Written' = Written
    BY <2>1, <2>2 DEF Written
  <2>4. meddles' \in 0 .. use.meddles
    BY <1>1, <1>2, <2>1
  <2> QED
    BY <1>1, <2>1, <2>2, <2>3, <2>4, SameStreamKeepsIInv
<1>5. CASE Collect
  <2>1. UNCHANGED <<use, inside, buffer, sent, frames, issued, wrote, kept, exact,
                    raises, meddles>>
    BY <1>5 DEF Collect
  <2>2. Sound(frames, buffer, inside, issued, dead') /\ dead' \subseteq 1 .. issued
    BY <1>1, <1>5, CollectKeeps
  <2>3. Written' = Written
    BY <2>1 DEF Written, Owners
  <2> QED
    BY <1>1, <2>1, <2>2, <2>3, SameStreamKeepsIInv
<1> QED
  BY <1>3, <1>4, <1>5

LEMMA ResetKeepsIInv ==
  ASSUME IInv, Reset
  PROVE  IInv'
<1>1. /\ frames = <<>> /\ buffer' = Emptied(buffer) /\ inside' = Contents
      /\ sent' = <<>> /\ wrote' = <<>> /\ kept' = <<>> /\ exact' = TRUE
      /\ issued' = 0 /\ dead' = {} /\ raises' = 0 /\ meddles' = 0
      /\ use' = use /\ frames' = frames
  BY DEF Reset
<1>2. use \in Uses /\ Sound(frames, buffer, inside, issued, dead)
  BY DEF IInv, Ready
<1>3. use.raises \in Nat /\ use.meddles \in Nat /\ use.writes \in Nat
  BY <1>2, PackerAssumption
<1>4. IsSeq(<<>>) /\ Len(<<>>) = 0
  BY OneIs
<1>5. /\ IsBuffer(buffer', issued) /\ buffer'.bytes = <<>>
      /\ References(buffer'.bytes) = {}
  BY <1>1, <1>2, EmptiedIs DEF Sound
<1>6. IsBuffer(buffer', 0)
  BY <1>5 DEF IsBuffer
<1>7. Sound(frames', buffer', inside', issued', dead')
  <2>1. \A i : i \notin 1 .. Len(frames)
    BY <1>1, <1>4
  <2>2. NoRec(frames, 1, Len(frames))
    BY <2>1 DEF NoRec
  <2> QED
    BY <1>1, <1>4, <1>5, <1>6, <2>1, <2>2 DEF Sound
<1>8. Ready(frames, buffer)'
  BY <1>1, <1>2, <1>3, <1>4, <1>7 DEF Ready
<1>9. InsideInv(inside')
  <2>1. /\ \A v \in Object : Data[v].kids \in Seq(Object)
        /\ \A v \in Object : Data[v].k = "hash" => Len(Data[v].kids) % 2 = 0
    BY PackerAssumption
  <2> QED
    BY <1>1, <2>1 DEF InsideInv, Contents
<1>10. IsPrefix(kept', Written')
  <2>1. Written' = <<>> \o <<>>
    BY <1>1, <1>5, EmptyStack DEF Written, Owners
  <2>2. Extends(Written', <<>>)
    BY <1>4, <2>1 DEF Extends
  <2> QED
    BY <1>1, <1>4, <2>2, PrefixOfItself
<1>11. /\ wrote' \in Seq(use.values) /\ Len(wrote') <= use.writes
       /\ meddles' \in 0 .. use.meddles
  BY <1>1, <1>3, <1>4
<1> QED
  BY <1>1, <1>4, <1>8, <1>9, <1>10, <1>11 DEF IInv, KeptFirst

LEMMA IInvStep == IInv /\ [Next]_vars => IInv'
<1> SUFFICES ASSUME IInv, [Next]_vars PROVE IInv'
  OBVIOUS
<1>1. Ready(frames, buffer) /\ InsideInv(inside)
  BY DEF IInv
<1>2. ASSUME NEW v \in use.values, Write(v) PROVE IInv'
  BY <1>2, WriteKeepsIInv
<1>3. CASE Continue
  <2>1. Goes
    BY <1>1, <1>3, ContinueGoes
  <2> QED
    BY <1>3, <2>1, GoesKeepsIInv DEF Continue
<1>4. CASE Return
  <2>1. Goes
    BY <1>1, <1>4, ReturnGoes
  <2> QED
    BY <1>4, <2>1, GoesKeepsIInv DEF Return
<1>5. CASE ProcRaises
  <2>1. Goes
    BY <1>1, <1>5, ProcRaisesGoes
  <2> QED
    BY <1>5, <2>1, GoesKeepsIInv DEF ProcRaises
<1>6. CASE Change \/ Clear \/ Collect
  BY <1>6, ProcKeepsIInv
<1>7. CASE HandOver \/ HandOverRaises
  BY <1>7, OwnerKeepsIInv
<1>8. CASE Reset
  BY <1>8, ResetKeepsIInv
<1>9. CASE UNCHANGED vars
  BY <1>9 DEF vars, IInv, Ready, KeptFirst, Written, Owners
<1> QED
  BY <1>2, <1>3, <1>4, <1>5, <1>6, <1>7, <1>8, <1>9 DEF Next

LEMMA Inductive == Spec => []IInv
BY IInvInit, IInvStep, PTL DEF Spec

\* The types of the packer, its stack and its buffers, whatever is written and
\* whatever raises (packer.h, packer.c).
THEOREM TypeCorrect == Spec => []TypeOK
<1>1. IInv => TypeOK
  <2> SUFFICES ASSUME IInv PROVE TypeOK
    OBVIOUS
  <2>1. /\ use \in Uses /\ raises \in 0 .. use.raises /\ exact \in BOOLEAN
        /\ dead \subseteq 1 .. issued /\ Sound(frames, buffer, inside, issued, dead)
        /\ inside \in [Object -> Seq(Object)] /\ meddles \in 0 .. use.meddles
        /\ wrote \in Seq(use.values) /\ Len(wrote) <= use.writes
    BY DEF IInv, Ready, InsideInv
  <2>2. {buffer.io, buffer.clean, exact} \subseteq BOOLEAN
    BY <2>1 DEF Sound, IsBuffer
  <2>3. ASSUME NEW f \in Range(frames)
        PROVE  /\ f.k \in Ruby \cup {"array", "hash"} /\ f.v \in Object
               /\ f.at \in 0 .. f.len /\ f.todo \in Seq(Object)
               /\ f.held \subseteq 1 .. issued
    <3>1. IsFrame(f, inside, issued)
      BY <2>1, SeqFacts DEF Sound, Range
    <3> QED
      BY <3>1 DEF IsFrame, Suits
  <2> QED
    BY <2>1, <2>2, <2>3 DEF TypeOK
<1> QED
  BY <1>1, Inductive, PTL

\* What a call of write found in the stream stays in it, in front of what it
\* adds, however many recursive types put a buffer aside and wherever an
\* exception is rescued (packer.c:118-137).
THEOREM NothingLost == Spec => []EarlierKept
<1>1. IInv => EarlierKept
  BY OutermostIs DEF IInv, Ready, Sound, KeptFirst, EarlierKept
<1> QED
  BY <1>1, Inductive, PTL

\* No string that pk->buffer or a buffer put aside refers to is ever collected
\* (buffer_class.c MessagePack_Buffer_hold, packer.c:116,143).
THEOREM NothingCollected == Spec => []RefsAlive
<1>1. IInv => RefsAlive
  <2> SUFFICES ASSUME IInv PROVE RefsAlive
    OBVIOUS
  <2>1. Sound(frames, buffer, inside, issued, dead)
    BY DEF IInv, Ready
  <2>2. References(buffer.bytes) \cap dead = {}
    BY <2>1 DEF Sound
  <2>3. ASSUME NEW f \in Range(frames) PROVE References(f.parent.bytes) \cap dead = {}
    BY <2>1, SeqFacts DEF Sound, Range
  <2> QED
    BY <2>2, <2>3 DEF RefsAlive
<1> QED
  BY <1>1, Inductive, PTL

-----------------------------------------------------------------------------
(* Numbers. *)

\* The equation that Power is the solution of.
LEMMA Powers ==
  /\ Power[0] = 1
  /\ \A w \in 1 .. 8 : Power[w] = Base * Power[w - 1]
<1> DEFINE IsPower(f) == f = [w \in 0 .. 8 |-> IF w = 0 THEN 1 ELSE Base * f[w - 1]]
           p1 == Base * 1
           p2 == Base * p1
           p3 == Base * p2
           p4 == Base * p3
           p5 == Base * p4
           p6 == Base * p5
           p7 == Base * p6
           p8 == Base * p7
           g == [w \in 0 .. 8 |-> CASE w = 0 -> 1  [] w = 1 -> p1 [] w = 2 -> p2
                                    [] w = 3 -> p3 [] w = 4 -> p4 [] w = 5 -> p5
                                    [] w = 6 -> p6 [] w = 7 -> p7 [] w = 8 -> p8]
<1>1. /\ p1 = Base * 1 /\ p2 = Base * p1 /\ p3 = Base * p2 /\ p4 = Base * p3
      /\ p5 = Base * p4 /\ p6 = Base * p5 /\ p7 = Base * p6 /\ p8 = Base * p7
  OBVIOUS
<1> HIDE DEF p1, p2, p3, p4, p5, p6, p7, p8
<1>2. \A w \in 0 .. 8 : w \in {0, 1, 2, 3, 4, 5, 6, 7, 8}
  OBVIOUS
<1>3. \A w \in 0 .. 8 : g[w] = IF w = 0 THEN 1 ELSE Base * g[w - 1]
  BY <1>1, <1>2
<1>4. IsPower(g)
  BY <1>3
<1> HIDE DEF g
<1>5. Power = CHOOSE f : IsPower(f)
  BY DEF Power
<1>6. IsPower(Power)
  BY <1>4, <1>5
<1>7. Power[0] = 1
  BY <1>6
<1>8. ASSUME NEW w \in 1 .. 8 PROVE Power[w] = Base * Power[w - 1]
  BY <1>6
<1> QED
  BY <1>7, <1>8

LEMMA LimitsAre ==
  /\ Limit(0) = 1 /\ Base \in Nat \ {0, 1, 2}
  /\ \A w \in 0 .. 8 : Limit(w) \in Nat \ {0}
  /\ \A w \in 1 .. 8 : Limit(w) = Base * Limit(w - 1)
<1>1. Base \in Nat \ {0, 1, 2}
  BY FormatAssumption
<1>2. ASSUME NEW w \in 1 .. 8, Limit(w - 1) \in Nat \ {0}
      PROVE  Limit(w) = Base * Limit(w - 1) /\ Limit(w) \in Nat \ {0}
  <2> DEFINE l == Limit(w - 1)
  <2>1. Limit(w) = Base * l
    BY Powers DEF Limit
  <2>2. l \in Nat \ {0}
    BY <1>2
  <2> HIDE DEF l
  <2>3. Base * l \in Nat \ {0}
    BY <1>1, <2>2
  <2> QED
    BY <2>1, <2>3 DEF l
<1>3. Limit(0) = 1 /\ Limit(0) \in Nat \ {0}
  BY Powers DEF Limit
<1>4. /\ Limit(1) \in Nat \ {0} /\ Limit(2) \in Nat \ {0} /\ Limit(3) \in Nat \ {0}
      /\ Limit(4) \in Nat \ {0}
  <2>1. Limit(1) \in Nat \ {0}
    BY <1>2, <1>3
  <2>2. Limit(2) \in Nat \ {0}
    BY <1>2, <2>1
  <2>3. Limit(3) \in Nat \ {0}
    BY <1>2, <2>2
  <2> QED
    BY <1>2, <2>1, <2>2, <2>3
<1>5. /\ Limit(5) \in Nat \ {0} /\ Limit(6) \in Nat \ {0} /\ Limit(7) \in Nat \ {0}
      /\ Limit(8) \in Nat \ {0}
  <2>1. Limit(5) \in Nat \ {0}
    BY <1>2, <1>4
  <2>2. Limit(6) \in Nat \ {0}
    BY <1>2, <2>1
  <2>3. Limit(7) \in Nat \ {0}
    BY <1>2, <2>2
  <2> QED
    BY <1>2, <2>1, <2>2, <2>3
<1>6. \A w \in 0 .. 8 : w \in {0, 1, 2, 3, 4, 5, 6, 7, 8}
  OBVIOUS
<1>7. \A w \in 0 .. 8 : Limit(w) \in Nat \ {0}
  BY <1>3, <1>4, <1>5, <1>6
<1>8. ASSUME NEW w \in 1 .. 8 PROVE Limit(w) = Base * Limit(w - 1)
  BY Powers DEF Limit
<1> QED
  BY <1>1, <1>3, <1>7, <1>8

\* More bytes hold more.
LEMMA LimitsGrow == Base <= Limit(1) /\ Limit(1) <= Limit(2) /\ Limit(2) <= Limit(4)
<1> DEFINE a == Limit(1)
           b == Limit(2)
           c == Limit(3)
           d == Limit(4)
<1>1. /\ a \in Nat /\ b \in Nat /\ c \in Nat /\ d \in Nat /\ Base \in Nat \ {0}
      /\ a = Base * 1 /\ b = Base * a /\ c = Base * b /\ d = Base * c
  BY LimitsAre
<1> HIDE DEF a, b, c, d
<1>2. \A x \in Nat : x <= Base * x
  BY <1>1
<1>3. a <= b /\ b <= c /\ c <= d
  BY <1>1, <1>2
<1> QED
  BY <1>1, <1>3 DEF a, b, d

\* f[k] is the number in the first k bytes from i on.
Reads(f, s, i, w) ==
    f[0] = 0 /\ \A k \in 1 .. w : f[k] = Base * f[k - 1] + s[i + k - 1].n

LEMMA UnsignedEquation ==
  ASSUME NEW s, NEW i \in Nat, NEW w \in 0 .. 8
  PROVE  \E f : Reads(f, s, i, w) /\ UnsignedAt(s, i, w) = f[w]
<1> DEFINE IsValue(f) ==
             f = [k \in 0 .. w |-> IF k = 0 THEN 0 ELSE Base * f[k - 1] + s[i + k - 1].n]
           v1 == Base * 0 + s[i + 1 - 1].n
           v2 == Base * v1 + s[i + 2 - 1].n
           v3 == Base * v2 + s[i + 3 - 1].n
           v4 == Base * v3 + s[i + 4 - 1].n
           v5 == Base * v4 + s[i + 5 - 1].n
           v6 == Base * v5 + s[i + 6 - 1].n
           v7 == Base * v6 + s[i + 7 - 1].n
           v8 == Base * v7 + s[i + 8 - 1].n
           e(k) == CASE k = 0 -> 0  [] k = 1 -> v1 [] k = 2 -> v2
                     [] k = 3 -> v3 [] k = 4 -> v4 [] k = 5 -> v5
                     [] k = 6 -> v6 [] k = 7 -> v7 [] k = 8 -> v8
           g == [k \in 0 .. w |-> e(k)]
<1>1. /\ v1 = Base * 0 + s[i + 1 - 1].n /\ v2 = Base * v1 + s[i + 2 - 1].n
      /\ v3 = Base * v2 + s[i + 3 - 1].n /\ v4 = Base * v3 + s[i + 4 - 1].n
      /\ v5 = Base * v4 + s[i + 5 - 1].n /\ v6 = Base * v5 + s[i + 6 - 1].n
      /\ v7 = Base * v6 + s[i + 7 - 1].n /\ v8 = Base * v7 + s[i + 8 - 1].n
  OBVIOUS
<1> HIDE DEF v1, v2, v3, v4, v5, v6, v7, v8
<1>2. \A k \in 1 .. w : k \in {1, 2, 3, 4, 5, 6, 7, 8} /\ k - 1 \in 0 .. w /\ k \in 0 .. w
  OBVIOUS
<1>e. /\ e(0) = 0 /\ e(1) = v1 /\ e(2) = v2 /\ e(3) = v3 /\ e(4) = v4
      /\ e(5) = v5 /\ e(6) = v6 /\ e(7) = v7 /\ e(8) = v8
  OBVIOUS
<1> HIDE DEF e
<1>3. e(0) = 0 /\ \A k \in 1 .. w : e(k) = Base * e(k - 1) + s[i + k - 1].n
  <2>1. /\ e(1) = Base * e(1 - 1) + s[i + 1 - 1].n /\ e(2) = Base * e(2 - 1) + s[i + 2 - 1].n
        /\ e(3) = Base * e(3 - 1) + s[i + 3 - 1].n /\ e(4) = Base * e(4 - 1) + s[i + 4 - 1].n
    BY <1>1, <1>e
  <2>2. /\ e(5) = Base * e(5 - 1) + s[i + 5 - 1].n /\ e(6) = Base * e(6 - 1) + s[i + 6 - 1].n
        /\ e(7) = Base * e(7 - 1) + s[i + 7 - 1].n /\ e(8) = Base * e(8 - 1) + s[i + 8 - 1].n
    BY <1>1, <1>e
  <2> QED
    BY <1>2, <1>e, <2>1, <2>2
<1>4. \A k \in 0 .. w : g[k] = e(k)
  OBVIOUS
<1>5. ASSUME NEW k \in 0 .. w
      PROVE  g[k] = IF k = 0 THEN 0 ELSE Base * g[k - 1] + s[i + k - 1].n
  BY <1>2, <1>3, <1>4
<1>6. IsValue(g)
  BY <1>5
<1> DEFINE value == CHOOSE f : IsValue(f)
<1>7. UnsignedAt(s, i, w) = value[w]
  BY DEF UnsignedAt
<1>8. IsValue(value)
  BY <1>6
<1> HIDE DEF value
<1>9. \A k \in 0 .. w : value[k] = IF k = 0 THEN 0 ELSE Base * value[k - 1] + s[i + k - 1].n
  BY <1>8
<1>10. 0 \in 0 .. w /\ \A k \in 1 .. w : k # 0
  OBVIOUS
<1>11. value[0] = 0
  BY <1>9, <1>10
<1>12. ASSUME NEW k \in 1 .. w PROVE value[k] = Base * value[k - 1] + s[i + k - 1].n
  BY <1>2, <1>9, <1>10
<1> QED
  BY <1>7, <1>11, <1>12 DEF Reads

\* The bytes of x are those of s behind the first p.
Holds(s, p, x) ==
    /\ IsSeq(s) /\ IsSeq(x) /\ p \in Nat /\ p + Len(x) <= Len(s)
    /\ \A j \in 1 .. Len(x) : s[p + j] = x[j]

LEMMA HoldsParts ==
  ASSUME NEW s, NEW p, NEW x, NEW y, IsSeq(x), IsSeq(y), Holds(s, p, x \o y)
  PROVE  Holds(s, p, x) /\ Holds(s, p + Len(x), y)
<1>1. /\ Len(x) \in Nat /\ Len(y) \in Nat /\ Len(x \o y) = Len(x) + Len(y)
      /\ \A i \in 1 .. Len(x) + Len(y) :
           (x \o y)[i] = IF i <= Len(x) THEN x[i] ELSE y[i - Len(x)]
  BY ConcatIs, SeqFacts
<1>2. /\ IsSeq(s) /\ p \in Nat /\ Len(s) \in Nat /\ p + (Len(x) + Len(y)) <= Len(s)
      /\ \A j \in 1 .. Len(x) + Len(y) : s[p + j] = (x \o y)[j]
  BY <1>1, SeqFacts DEF Holds
<1>3. ASSUME NEW j \in 1 .. Len(x) PROVE s[p + j] = x[j]
  <2>1. j \in 1 .. Len(x) + Len(y) /\ j <= Len(x)
    BY <1>1
  <2> QED
    BY <1>1, <1>2, <2>1
<1>4. ASSUME NEW j \in 1 .. Len(y) PROVE s[p + Len(x) + j] = y[j]
  <2>1. /\ Len(x) + j \in 1 .. Len(x) + Len(y) /\ ~ (Len(x) + j <= Len(x))
        /\ (Len(x) + j) - Len(x) = j /\ p + (Len(x) + j) = p + Len(x) + j
    BY <1>1, <1>2
  <2> QED
    BY <1>1, <1>2, <2>1
<1>5. p + Len(x) <= Len(s) /\ p + Len(x) \in Nat /\ (p + Len(x)) + Len(y) <= Len(s)
  BY <1>1, <1>2
<1> QED
  BY <1>2, <1>3, <1>4, <1>5 DEF Holds

LEMMA HoldsMiddle ==
  ASSUME NEW s, NEW x, NEW t, IsSeq(s), IsSeq(x), IsSeq(t)
  PROVE  Holds(s \o (x \o t), Len(s), x)
<1> DEFINE y == x \o t
           u == s \o y
<1>1. /\ Len(x) \in Nat /\ Len(t) \in Nat /\ Len(s) \in Nat
      /\ IsSeq(y) /\ Len(y) = Len(x) + Len(t)
      /\ \A i \in 1 .. Len(x) + Len(t) : y[i] = IF i <= Len(x) THEN x[i] ELSE t[i - Len(x)]
  BY ConcatIs, SeqFacts
<1> HIDE DEF y
<1>2. /\ IsSeq(u) /\ Len(u) = Len(s) + Len(y)
      /\ \A i \in 1 .. Len(s) + Len(y) : u[i] = IF i <= Len(s) THEN s[i] ELSE y[i - Len(s)]
  BY <1>1, ConcatIs
<1> HIDE DEF u
<1>3. ASSUME NEW j \in 1 .. Len(x) PROVE u[Len(s) + j] = x[j]
  <2>1. /\ Len(s) + j \in 1 .. Len(s) + Len(y) /\ ~ (Len(s) + j <= Len(s))
        /\ (Len(s) + j) - Len(s) = j /\ j \in 1 .. Len(x) + Len(t) /\ j <= Len(x)
    BY <1>1
  <2> QED
    BY <1>1, <1>2, <2>1
<1>4. Len(s) + Len(x) <= Len(u)
  BY <1>1, <1>2
<1>5. Holds(u, Len(s), x)
  BY <1>1, <1>2, <1>3, <1>4 DEF Holds
<1> QED
  BY <1>5 DEF u, y

LEMMA BytesAre ==
  ASSUME NEW n \in Int, NEW w \in 0 .. 8
  PROVE  /\ IsSeq(Bytes(n, w)) /\ Len(Bytes(n, w)) = w
         /\ \A j \in 1 .. w :
              /\ Bytes(n, w)[j] = Lead("byte", 0, ((n % Limit(w)) \div Limit(w - j)) % Base)
              /\ Bytes(n, w)[j].h = "byte"
              /\ Bytes(n, w)[j].n = ((n % Limit(w)) \div Limit(w - j)) % Base
              /\ Bytes(n, w)[j].n \in 0 .. Base - 1
<1> DEFINE c == Bytes(n, w)
           digit(j) == ((n % Limit(w)) \div Limit(w - j)) % Base
<1>1. c = [j \in 1 .. w |-> Lead("byte", 0, digit(j))]
  BY DEF Bytes
<1>2. \A j \in 1 .. w : digit(j) \in 0 .. Base - 1
  <2> TAKE j \in 1 .. w
  <2>1. w - j \in 0 .. 8 /\ w \in 0 .. 8
    OBVIOUS
  <2>2. Limit(w) \in Nat \ {0} /\ Limit(w - j) \in Nat \ {0} /\ Base \in Nat \ {0}
    BY <2>1, LimitsAre
  <2>3. n % Limit(w) \in Nat
    BY <2>2
  <2>4. (n % Limit(w)) \div Limit(w - j) \in Nat
    BY <2>2, <2>3
  <2> QED
    BY <2>2, <2>4
<1> HIDE DEF digit
<1>3. \A j \in 1 .. w : c[j] = Lead("byte", 0, digit(j)) /\ c[j].h = "byte" /\ c[j].n = digit(j)
  BY <1>1 DEF Lead
<1>4. c \in [1 .. w -> Range(c)]
  BY <1>1 DEF Range
<1>5. c \in Seq(Range(c)) /\ Len(c) = w
  BY <1>4, SeqDef
<1> QED
  BY <1>2, <1>3, <1>5 DEF IsSeq, digit

\* One more byte.
LEMMA OneDigit ==
  ASSUME NEW n \in Nat, NEW l \in Nat \ {0}
  PROVE  Base * (n \div (Base * l)) + ((n \div l) % Base) = n \div l
<1>1. Base \in Nat \ {0}
  BY LimitsAre
<1> DEFINE q == n \div l
<1>2. q \in Nat
  OBVIOUS
<1>3. n \div (Base * l) = q \div Base
  BY <1>1
<1> HIDE DEF q
<1>4. Base * (q \div Base) + (q % Base) = q
  BY <1>1, <1>2
<1> QED
  BY <1>3, <1>4 DEF q

\* What w bytes hold is read back.
LEMMA BytesRead ==
  ASSUME NEW s, NEW p, NEW w \in 1 .. 8, NEW n \in Nat, n < Limit(w),
         Holds(s, p, Bytes(n, w))
  PROVE  UnsignedAt(s, p + 1, w) = n
<1>1. /\ Len(Bytes(n, w)) = w /\ p \in Nat
      /\ \A j \in 1 .. w : /\ s[p + j].n = ((n % Limit(w)) \div Limit(w - j)) % Base
                           /\ s[p + j].n \in Int
  <2>1. p \in Nat /\ \A j \in 1 .. Len(Bytes(n, w)) : s[p + j] = Bytes(n, w)[j]
    BY DEF Holds
  <2>2. /\ Len(Bytes(n, w)) = w
        /\ \A j \in 1 .. w :
             /\ Bytes(n, w)[j].n = ((n % Limit(w)) \div Limit(w - j)) % Base
             /\ Bytes(n, w)[j].n \in 0 .. Base - 1
    <3>1. n \in Int /\ w \in 0 .. 8
      OBVIOUS
    <3> QED
      BY <3>1, BytesAre
  <2>3. \A b \in 0 .. Base - 1 : b \in Int
    BY LimitsAre
  <2> QED
    BY <2>1, <2>2, <2>3
<1>2. n % Limit(w) = n
  <2>1. Limit(w) \in Nat \ {0}
    BY LimitsAre
  <2> QED
    BY <2>1
<1>3. \A j \in 1 .. w : (p + 1) + j - 1 = p + j
  BY <1>1
<1>4. PICK value : Reads(value, s, p + 1, w) /\ UnsignedAt(s, p + 1, w) = value[w]
  <2>1. p + 1 \in Nat /\ w \in 0 .. 8
    BY <1>1
  <2> QED
    BY ONLY <2>1, UnsignedEquation
<1>5. ASSUME NEW k \in 1 .. w
      PROVE  value[k] = Base * value[k - 1] + ((n \div Limit(w - k)) % Base)
  <2>1. value[k] = Base * value[k - 1] + s[p + k].n
    BY <1>3, <1>4 DEF Reads
  <2>2. s[p + k].n = (n \div Limit(w - k)) % Base
    BY <1>1, <1>2
  <2> QED
    BY <2>1, <2>2
<1>6. ASSUME NEW k \in 1 .. w, value[k - 1] = n \div Limit(w - (k - 1))
      PROVE  value[k] = n \div Limit(w - k)
  <2> DEFINE l == Limit(w - k)
  <2>1. w - k \in 0 .. 8 /\ w - (k - 1) \in 1 .. 8 /\ (w - (k - 1)) - 1 = w - k
    OBVIOUS
  <2>2. l \in Nat \ {0} /\ Limit(w - (k - 1)) = Base * l
    BY <2>1, LimitsAre
  <2>3. value[k] = Base * value[k - 1] + ((n \div l) % Base)
    BY <1>5
  <2> HIDE DEF l
  <2>4. value[k] = Base * (n \div (Base * l)) + ((n \div l) % Base)
    BY <1>6, <2>2, <2>3
  <2>5. value[k] = n \div l
    BY <2>2, <2>4, OneDigit
  <2> QED
    BY <2>5 DEF l
<1> DEFINE Right(k) == k <= w => value[k] = n \div Limit(w - k)
<1>7. Right(0)
  <2>1. Limit(w) \in Nat \ {0} /\ w - 0 = w
    BY LimitsAre
  <2>2. n \div Limit(w) = 0
    BY <2>1
  <2> QED
    BY <1>4, <2>1, <2>2 DEF Reads
<1>8. ASSUME NEW k \in 1 .. 8, Right(k - 1) PROVE Right(k)
  <2>1. SUFFICES ASSUME k <= w PROVE value[k] = n \div Limit(w - k)
    OBVIOUS
  <2>2. k \in 1 .. w /\ k - 1 <= w
    BY <2>1
  <2> QED
    BY <1>6, <1>8, <2>2
<1> HIDE DEF Right
<1>9. Right(1) /\ Right(2) /\ Right(3) /\ Right(4)
  <2>1. Right(1)
    BY <1>7, <1>8
  <2>2. Right(2)
    BY <1>8, <2>1
  <2>3. Right(3)
    BY <1>8, <2>2
  <2> QED
    BY <1>8, <2>1, <2>2, <2>3
<1>10. Right(5) /\ Right(6) /\ Right(7) /\ Right(8)
  <2>1. Right(5)
    BY <1>8, <1>9
  <2>2. Right(6)
    BY <1>8, <2>1
  <2>3. Right(7)
    BY <1>8, <2>2
  <2> QED
    BY <1>8, <2>1, <2>2, <2>3
<1>11. Right(w)
  <2>1. w \in {1, 2, 3, 4, 5, 6, 7, 8}
    OBVIOUS
  <2> QED
    BY <1>9, <1>10, <2>1
<1>12. value[w] = n \div Limit(0)
  <2>1. w - w = 0 /\ w <= w
    OBVIOUS
  <2> QED
    BY <1>11, <2>1 DEF Right
<1>13. n \div Limit(0) = n
  BY LimitsAre
<1> QED
  BY <1>4, <1>12, <1>13

-----------------------------------------------------------------------------
(* Heads. *)

Families == {"nil", "int", "uint", "float", "str", "bin", "ext", "array", "map"}

\* A byte of a stream: what a read of it needs to know.
IsByte(b) ==
    /\ b.h = "byte" => b.n \in Nat
    /\ b.h \notin {"byte", "body"} => b.w \in 0 .. 8
    /\ b.h \in {"array", "map"} /\ b.w = 0 => b.n \in Nat

Typed(s) == IsSeq(s) /\ \A i \in 1 .. Len(s) : IsByte(s[i])

LEMMA TypedConcat ==
  ASSUME NEW s, NEW t, Typed(s), Typed(t)
  PROVE  Typed(s \o t)
<1>1. /\ IsSeq(s \o t) /\ Len(s \o t) = Len(s) + Len(t)
      /\ \A i \in 1 .. Len(s) + Len(t) :
           (s \o t)[i] = IF i <= Len(s) THEN s[i] ELSE t[i - Len(s)]
      /\ Len(s) \in Nat /\ Len(t) \in Nat
  BY ConcatIs, SeqFacts DEF Typed
<1>2. ASSUME NEW i \in 1 .. Len(s) + Len(t) PROVE IsByte((s \o t)[i])
  <2>1. CASE i <= Len(s)
    BY <1>1, <2>1 DEF Typed
  <2>2. CASE ~ (i <= Len(s))
    <3>1. i - Len(s) \in 1 .. Len(t)
      BY <1>1, <2>2
    <3> QED
      BY <1>1, <2>2, <3>1 DEF Typed
  <2> QED
    BY <2>1, <2>2
<1> QED
  BY <1>1, <1>2 DEF Typed

LEMMA TypedOne ==
  ASSUME NEW b, IsByte(b)
  PROVE  Typed(<<b>>) /\ Typed(<<>>) /\ Len(<<b>>) = 1
<1>1. /\ IsSeq(<<b>>) /\ Len(<<b>>) = 1 /\ <<b>>[1] = b
      /\ IsSeq(<<>>) /\ Len(<<>>) = 0
  BY OneIs
<1>2. \A i \in 1 .. 1 : i = 1
  OBVIOUS
<1> QED
  BY <1>1, <1>2 DEF Typed

LEMMA TypedBytes ==
  ASSUME NEW n \in Int, NEW w \in 0 .. 8
  PROVE  Typed(Bytes(n, w))
<1>1. /\ IsSeq(Bytes(n, w)) /\ Len(Bytes(n, w)) = w
      /\ \A j \in 1 .. w : Bytes(n, w)[j].h = "byte" /\ Bytes(n, w)[j].n \in 0 .. Base - 1
  BY BytesAre
<1>2. \A b \in 0 .. Base - 1 : b \in Nat
  BY LimitsAre
<1> QED
  BY <1>1, <1>2 DEF Typed, IsByte

\* x is the head of an object of this kind, wherever it is.
Heads(x, kind) ==
    /\ Typed(x) /\ Len(x) \in Nat \ {0}
    /\ \A s, p : Holds(s, p, x) => /\ HeadAt(s, p + 1).kind = kind
                                  /\ HeadAt(s, p + 1).end = p + Len(x) + 1

\* And it says n.
Says(x, kind, n) ==
    Heads(x, kind) /\ \A s, p : Holds(s, p, x) => HeadAt(s, p + 1).n = n

Kind(h) == IF h = "uint" THEN "int" ELSE h

\* The bytes y are what belongs to a head of this family and width.
Belongs(y, h, w) ==
    /\ IsSeq(y) /\ Len(y) = w + (IF h = "ext" THEN 1 ELSE 0)
    /\ \A j \in 1 .. Len(y) : y[j].h = "byte"

LEMMA HeadIs ==
  ASSUME NEW h \in Families, NEW w \in 0 .. 8, NEW n, NEW y, Belongs(y, h, w),
         NEW s, NEW p, Holds(s, p, <<Lead(h, w, n)>> \o y)
  PROVE  /\ HeadAt(s, p + 1).kind = Kind(h)
         /\ HeadAt(s, p + 1).end = p + 2 + Len(y)
         /\ HeadAt(s, p + 1).n = IF w = 0 THEN n
                                 ELSE IF h = "int" THEN SignedAt(s, p + 2, w)
                                 ELSE UnsignedAt(s, p + 2, w)
         /\ h = "ext" => HeadAt(s, p + 1).type = SignedAt(s, p + 2 + w, 1)
<1> DEFINE i   == p + 1
           end == i + 1 + w + (IF h = "ext" THEN 1 ELSE 0)
           r   == [kind |-> IF h = "uint" THEN "int" ELSE h,
                   n    |-> IF w = 0 THEN s[i].n
                            ELSE IF h = "int" THEN SignedAt(s, i + 1, w)
                            ELSE UnsignedAt(s, i + 1, w),
                   type |-> IF h = "ext" THEN SignedAt(s, end - 1, 1) ELSE 0,
                   end  |-> end]
<1>0. /\ IsSeq(y) /\ Len(y) = w + (IF h = "ext" THEN 1 ELSE 0)
      /\ \A j \in 1 .. Len(y) : y[j].h = "byte"
  BY DEF Belongs
<1>1. /\ IsSeq(<<Lead(h, w, n)>>) /\ Len(<<Lead(h, w, n)>>) = 1
      /\ <<Lead(h, w, n)>>[1] = Lead(h, w, n)
  BY OneIs
<1>2. Holds(s, p, <<Lead(h, w, n)>>) /\ Holds(s, p + 1, y)
  <2> DEFINE x == <<Lead(h, w, n)>>
  <2>1. IsSeq(x) /\ IsSeq(y) /\ Holds(s, p, x \o y) /\ Len(x) = 1
    BY <1>0, <1>1
  <2> HIDE DEF x
  <2>2. Holds(s, p, x) /\ Holds(s, p + Len(x), y)
    BY <2>1, HoldsParts
  <2> QED
    BY <2>1, <2>2 DEF x
<1>3. /\ s[i] = Lead(h, w, n) /\ p \in Nat /\ Len(s) \in Nat /\ Len(y) \in Nat
      /\ i + Len(y) <= Len(s) /\ \A j \in 1 .. Len(y) : s[i + j] = y[j]
  <2>1. 1 \in 1 .. 1
    OBVIOUS
  <2> QED
    BY <1>0, <1>1, <1>2, <2>1, SeqFacts DEF Holds
<1>4. s[i].h = h /\ s[i].w = w /\ s[i].n = n
  BY <1>3 DEF Lead
<1>5. end = i + 1 + Len(y) /\ ~ (end > Len(s) + 1) /\ i \in Nat /\ end \in Nat
  BY <1>0, <1>3
<1>6. ~ \E j \in i + 1 .. end - 1 : s[j].h # "byte"
  <2> SUFFICES ASSUME NEW j \in i + 1 .. end - 1 PROVE s[j].h = "byte"
    OBVIOUS
  <2>1. j - i \in 1 .. Len(y) /\ i + (j - i) = j
    BY <1>3, <1>5
  <2> QED
    BY <1>0, <1>3, <2>1
<1>7. h \notin {"byte", "body"}
  BY DEF Families
<1>8. HeadAt(s, i) = r
  BY <1>4, <1>5, <1>6, <1>7 DEF HeadAt
<1>9. /\ r.kind = Kind(h) /\ r.end = end
      /\ r.n = IF w = 0 THEN s[i].n ELSE IF h = "int" THEN SignedAt(s, i + 1, w)
               ELSE UnsignedAt(s, i + 1, w)
      /\ h = "ext" => r.type = SignedAt(s, end - 1, 1)
  BY DEF Kind
<1> HIDE DEF r, end
<1>10. /\ i + 1 = p + 2 /\ end = p + 2 + Len(y)
       /\ h = "ext" => end - 1 = p + 2 + w
  <2> DEFINE l == Len(y)
  <2>1. l \in Nat /\ p \in Nat /\ end = (p + 1) + 1 + l
    BY <1>3, <1>5
  <2>2. h = "ext" => l = w + 1
    BY <1>0
  <2> HIDE DEF l
  <2>3. (p + 1) + 1 = p + 2 /\ end = p + 2 + l
    BY <2>1
  <2>4. h = "ext" => end - 1 = p + 2 + w
    BY <2>1, <2>2
  <2> QED
    BY <2>3, <2>4 DEF l
<1> QED
  BY <1>4, <1>8, <1>9, <1>10

LEMMA FixSays ==
  ASSUME NEW h \in Families \ {"ext"}, NEW n, h \in {"array", "map"} => n \in Nat
  PROVE  Says(Fix(h, n), Kind(h), n)
<1> DEFINE x == <<Lead(h, 0, n)>>
<1>1. IsByte(Lead(h, 0, n))
  BY DEF IsByte, Lead, Families
<1>2. Typed(x) /\ IsSeq(<<>>) /\ Len(<<>>) = 0 /\ Len(x) = 1
  BY <1>1, TypedOne, OneIs
<1>3. x \o <<>> = x
  BY <1>2, ConcatEmptySeq DEF Typed, IsSeq
<1> HIDE DEF x
<1>4. ASSUME NEW s, NEW p, Holds(s, p, x)
      PROVE  /\ HeadAt(s, p + 1).kind = Kind(h) /\ HeadAt(s, p + 1).end = p + Len(x) + 1
             /\ HeadAt(s, p + 1).n = n
  <2>1. Holds(s, p, <<Lead(h, 0, n)>> \o <<>>)
    BY <1>3, <1>4 DEF x
  <2>2. 0 \in 0 .. 8 /\ \A j \in 1 .. Len(<<>>) : FALSE
    BY <1>2
  <2>3. h \in Families /\ Belongs(<<>>, h, 0)
    BY <1>2, <2>2 DEF Belongs
  <2> DEFINE y == <<>>
  <2> HIDE DEF y
  <2>4. /\ HeadAt(s, p + 1).kind = Kind(h) /\ HeadAt(s, p + 1).end = p + 2 + Len(y)
        /\ HeadAt(s, p + 1).n = n
    <3>1. Holds(s, p, <<Lead(h, 0, n)>> \o y) /\ Belongs(y, h, 0) /\ h \in Families
      BY <2>1, <2>3 DEF y
    <3> QED
      BY <2>2, <3>1, HeadIs
  <2>5. p \in Nat
    BY <1>4 DEF Holds
  <2> QED
    BY <1>2, <2>4, <2>5 DEF y
<1>5. Says(x, Kind(h), n)
  BY <1>2, <1>4 DEF Says, Heads
<1> QED
  BY <1>5 DEF x, Fix

LEMMA WideHeads ==
  ASSUME NEW h \in Families \ {"ext"}, NEW n \in Int, NEW w \in 1 .. 8
  PROVE  /\ Heads(Wide(h, n, w), Kind(h))
         /\ \A s, p : Holds(s, p, Wide(h, n, w)) =>
              /\ Holds(s, p + 1, Bytes(n, w))
              /\ HeadAt(s, p + 1).n = IF h = "int" THEN SignedAt(s, p + 2, w)
                                      ELSE UnsignedAt(s, p + 2, w)
<1> DEFINE x == <<Lead(h, w, 0)>>
           y == Bytes(n, w)
<1>1. IsByte(Lead(h, w, 0))
  BY DEF IsByte, Lead, Families
<1>2. /\ Typed(x) /\ Len(x) = 1 /\ Typed(y) /\ Len(y) = w
      /\ \A j \in 1 .. w : y[j].h = "byte"
  <2>1. n \in Int /\ w \in 0 .. 8
    OBVIOUS
  <2>2. Typed(y) /\ Len(y) = w /\ \A j \in 1 .. w : Bytes(n, w)[j].h = "byte"
    BY <2>1, TypedBytes, BytesAre
  <2> QED
    BY <1>1, <2>2, TypedOne
<1> HIDE DEF x, y
<1>3. Typed(x \o y) /\ IsSeq(x) /\ IsSeq(y) /\ Len(x \o y) = w + 1
  <2>1. IsSeq(x) /\ IsSeq(y)
    BY <1>2 DEF Typed
  <2>2. Typed(x \o y)
    BY <1>2, TypedConcat
  <2>3. Len(x \o y) = Len(x) + Len(y)
    BY <2>1, ConcatIs
  <2> QED
    BY <1>2, <2>1, <2>2, <2>3
<1>4. ASSUME NEW s, NEW p, Holds(s, p, x \o y)
      PROVE  /\ HeadAt(s, p + 1).kind = Kind(h)
             /\ HeadAt(s, p + 1).end = p + Len(x \o y) + 1
             /\ HeadAt(s, p + 1).n = IF h = "int" THEN SignedAt(s, p + 2, w)
                                     ELSE UnsignedAt(s, p + 2, w)
             /\ Holds(s, p + 1, y)
  <2>1. Holds(s, p, <<Lead(h, w, 0)>> \o y)
    BY <1>4 DEF x
  <2>2. w \in 0 .. 8 /\ w # 0 /\ h \in Families
    BY <1>2
  <2>3. Belongs(y, h, w)
    BY <1>2, <1>3 DEF Belongs
  <2>4. /\ HeadAt(s, p + 1).kind = Kind(h) /\ HeadAt(s, p + 1).end = p + 2 + Len(y)
        /\ HeadAt(s, p + 1).n = IF w = 0 THEN 0
                                ELSE IF h = "int" THEN SignedAt(s, p + 2, w)
                                ELSE UnsignedAt(s, p + 2, w)
    BY <2>1, <2>2, <2>3, HeadIs
  <2>5. p \in Nat
    BY <1>4 DEF Holds
  <2>6. Holds(s, p + 1, y)
    BY <1>2, <1>3, <1>4, HoldsParts
  <2> QED
    BY <1>2, <1>3, <2>2, <2>4, <2>5, <2>6
<1>5. Heads(x \o y, Kind(h))
  BY <1>3, <1>4 DEF Heads
<1>6. Wide(h, n, w) = x \o y
  BY DEF Wide, x, y
<1> QED
  BY <1>4, <1>5, <1>6 DEF y

LEMMA WideSays ==
  ASSUME NEW h \in Families \ {"ext", "int"}, NEW w \in 1 .. 8, NEW n \in Nat,
         n < Limit(w)
  PROVE  Says(Wide(h, n, w), Kind(h), n)
<1> DEFINE x == Wide(h, n, w)
<1>1. /\ Heads(x, Kind(h))
      /\ \A s, p : Holds(s, p, x) =>
           /\ Holds(s, p + 1, Bytes(n, w))
           /\ HeadAt(s, p + 1).n = UnsignedAt(s, p + 2, w)
  <2>1. h \in Families \ {"ext"} /\ n \in Int /\ h # "int"
    OBVIOUS
  <2>2. /\ Heads(x, Kind(h))
        /\ \A s, p : Holds(s, p, x) =>
             /\ Holds(s, p + 1, Bytes(n, w))
             /\ HeadAt(s, p + 1).n = IF h = "int" THEN SignedAt(s, p + 2, w)
                                     ELSE UnsignedAt(s, p + 2, w)
    BY <2>1, WideHeads
  <2> HIDE DEF x
  <2> QED
    BY <2>1, <2>2
<1> HIDE DEF x
<1>2. ASSUME NEW s, NEW p, Holds(s, p, x) PROVE HeadAt(s, p + 1).n = n
  <2>1. Holds(s, p + 1, Bytes(n, w)) /\ p \in Nat
    <3>1. Holds(s, p + 1, Bytes(n, w))
      BY <1>1, <1>2
    <3>2. p \in Nat
      BY <1>2 DEF Holds
    <3> QED
      BY <3>1, <3>2
  <2>2. UnsignedAt(s, (p + 1) + 1, w) = n
    BY <2>1, BytesRead
  <2>3. (p + 1) + 1 = p + 2
    BY <2>1
  <2> QED
    BY <1>1, <1>2, <2>2, <2>3
<1> QED
  BY <1>1, <1>2 DEF Says, x

\* A negative number in w bytes.
LEMMA WideSaysNegative ==
  ASSUME NEW w \in 1 .. 8, NEW v \in Int, v < 0, v >= -SignedLimit(w)
  PROVE  Says(Wide("int", v, w), "int", v)
<1> DEFINE x == Wide("int", v, w)
           l == Limit(w)
           u == v + l
<1>1. /\ Heads(x, "int")
      /\ \A s, p : Holds(s, p, x) =>
           /\ Holds(s, p + 1, Bytes(v, w))
           /\ HeadAt(s, p + 1).n = SignedAt(s, p + 2, w)
  <2>1. "int" \in Families \ {"ext"} /\ Kind("int") = "int"
    BY DEF Families, Kind
  <2> QED
    BY <2>1, WideHeads
<1> HIDE DEF x
<1>2. l \in Nat \ {0} /\ SignedLimit(w) = l \div 2
  BY LimitsAre DEF SignedLimit
<1> HIDE DEF l
<1>3. /\ u \in Nat /\ u < l /\ u >= l \div 2 /\ v % l = u /\ u % l = u
  BY <1>2
<1>4. Bytes(v, w) = Bytes(u, w)
  BY <1>3 DEF Bytes, l
<1>5. ASSUME NEW s, NEW p, Holds(s, p, x) PROVE HeadAt(s, p + 1).n = v
  <2>1. Holds(s, p + 1, Bytes(u, w)) /\ p \in Nat
    <3>1. Holds(s, p + 1, Bytes(v, w))
      BY <1>1, <1>5
    <3> QED
      BY <1>4, <1>5, <3>1 DEF Holds
  <2>2. UnsignedAt(s, (p + 1) + 1, w) = u
    BY <1>3, <2>1, BytesRead DEF l
  <2>3. (p + 1) + 1 = p + 2
    BY <2>1
  <2>4. UnsignedAt(s, p + 2, w) = u
    BY <2>2, <2>3
  <2> HIDE DEF u
  <2>5. SignedAt(s, p + 2, w) = u - l
    BY <1>2, <1>3, <2>4 DEF SignedAt, l
  <2>6. u - l = v
    BY <1>2 DEF u
  <2> QED
    BY <1>1, <1>5, <2>5, <2>6
<1> QED
  BY <1>1, <1>5 DEF Says, x

LEMMA LengthWidths ==
  ASSUME NEW n \in Nat, n < Limit(4)
  PROVE  /\ LengthWidth(n) \in {1, 2, 4} /\ n < Limit(LengthWidth(n))
         /\ n < Limit(1) => n < Limit(2)
<1>1. Limit(1) \in Nat /\ Limit(2) \in Nat /\ Limit(1) <= Limit(2)
  BY LimitsAre, LimitsGrow
<1> QED
  BY <1>1 DEF LengthWidth

\* What the packer writes in front of an object, at any length that it does
\* not refuse, is read back (packer.h:115-513, unpacker.c:440-740).
LEMMA RawHeaderSays ==
  ASSUME NEW n \in Nat, n < Limit(4), NEW c
  PROVE  Says(RawHeader(n, c), "str", n)
<1>1. "str" \in Families \ {"ext", "int"} /\ Kind("str") = "str"
  BY DEF Families, Kind
<1>2. CASE n < FixRaw
  <2>1. RawHeader(n, c) = Fix("str", n)
    BY <1>2 DEF RawHeader
  <2> QED
    BY <1>1, <2>1, FixSays
<1>3. CASE ~ (n < FixRaw) /\ c /\ n < Limit(1)
  <2>1. RawHeader(n, c) = Wide("str", n, 2)
    BY <1>3 DEF RawHeader
  <2>2. 2 \in 1 .. 8 /\ n < Limit(2)
    BY <1>3, LengthWidths
  <2> QED
    BY <1>1, <2>1, <2>2, WideSays
<1>4. CASE ~ (n < FixRaw) /\ ~ (c /\ n < Limit(1))
  <2> DEFINE w == LengthWidth(n)
  <2>1. RawHeader(n, c) = Wide("str", n, w)
    BY <1>4 DEF RawHeader
  <2>2. w \in 1 .. 8 /\ n < Limit(w)
    BY LengthWidths
  <2> HIDE DEF w
  <2> QED
    BY <1>1, <2>1, <2>2, WideSays
<1> QED
  BY <1>2, <1>3, <1>4

LEMMA BinHeaderSays ==
  ASSUME NEW n \in Nat, n < Limit(4)
  PROVE  Says(BinHeader(n), "bin", n)
<1> DEFINE w == LengthWidth(n)
<1>1. "bin" \in Families \ {"ext", "int"} /\ Kind("bin") = "bin"
  BY DEF Families, Kind
<1>2. w \in 1 .. 8 /\ n < Limit(w) /\ BinHeader(n) = Wide("bin", n, w)
  BY LengthWidths DEF BinHeader
<1> HIDE DEF w
<1> QED
  BY <1>1, <1>2, WideSays

LEMMA CountHeaderSays ==
  ASSUME NEW h \in {"array", "map"}, NEW n \in Nat, n < Limit(4)
  PROVE  Says(CountHeader(h, n), h, n)
<1>1. h \in Families \ {"ext", "int"} /\ Kind(h) = h /\ h \in Families \ {"ext"}
  BY DEF Families, Kind
<1>2. CASE n < FixCount
  <2>1. CountHeader(h, n) = Fix(h, n)
    BY <1>2 DEF CountHeader
  <2> QED
    BY <1>1, <2>1, FixSays
<1>3. CASE ~ (n < FixCount)
  <2> DEFINE w == IF n < Limit(2) THEN 2 ELSE 4
  <2>1. CountHeader(h, n) = Wide(h, n, w)
    BY <1>3 DEF CountHeader
  <2>2. w \in 1 .. 8 /\ n < Limit(w)
    OBVIOUS
  <2> HIDE DEF w
  <2> QED
    BY <1>1, <2>1, <2>2, WideSays
<1> QED
  BY <1>2, <1>3

LEMMA FloatHeads ==
  ASSUME NEW bits \in Int
  PROVE  /\ Heads(WriteDouble(bits), "float") /\ Heads(WriteFloat(bits), "float")
         /\ bits \in 0 .. Limit(8) - 1 => Says(WriteDouble(bits), "float", bits)
         /\ bits \in 0 .. Limit(4) - 1 => Says(WriteFloat(bits), "float", bits)
<1>1. /\ "float" \in Families \ {"ext", "int"} /\ "float" \in Families \ {"ext"}
      /\ Kind("float") = "float" /\ 4 \in 1 .. 8 /\ 8 \in 1 .. 8
  BY DEF Families, Kind
<1>2. Heads(Wide("float", bits, 8), "float") /\ Heads(Wide("float", bits, 4), "float")
  BY <1>1, WideHeads
<1>3. ASSUME NEW w \in {4, 8}, bits \in 0 .. Limit(w) - 1
      PROVE  Says(Wide("float", bits, w), "float", bits)
  <2>1. w \in 1 .. 8 /\ bits \in Nat /\ bits < Limit(w)
    <3>1. Limit(w) \in Nat
      BY LimitsAre
    <3> QED
      BY <1>3, <3>1
  <2> QED
    BY <1>1, <2>1, WideSays
<1> QED
  BY <1>2, <1>3 DEF WriteDouble, WriteFloat

\* An integer keeps its value and its sign.
LEMMA WriteLongSays ==
  ASSUME NEW v \in Int, ~ IsBig(v)
  PROVE  Says(WriteLong(v), "int", v)
<1>1. /\ "int" \in Families \ {"ext"} /\ Kind("int") = "int"
      /\ "uint" \in Families \ {"ext", "int"} /\ Kind("uint") = "int"
  BY DEF Families, Kind
<1>2. CASE v \in -FixNegative .. Base \div 2 - 1
  <2>1. WriteLong(v) = Fix("int", v)
    BY <1>2 DEF WriteLong
  <2>2. Says(Fix("int", v), Kind("int"), v)
    BY <1>1, FixSays
  <2> QED
    BY <1>1, <2>1, <2>2
<1>3. CASE v \notin -FixNegative .. Base \div 2 - 1 /\ v < 0
  <2> DEFINE w == SignedWidth(v)
  <2>1. WriteLong(v) = Wide("int", v, w)
    BY <1>3 DEF WriteLong
  <2>2. w \in {1, 2, 4, 8} /\ v >= -SignedLimit(w)
    <3>1. /\ Limit(1) \in Nat /\ Limit(2) \in Nat /\ Limit(4) \in Nat /\ Limit(8) \in Nat
      BY LimitsAre
    <3>2. v >= -SignedLimit(8)
      BY <3>1 DEF IsBig, SignedLimit
    <3> QED
      BY <3>1, <3>2 DEF SignedWidth
  <2> HIDE DEF w
  <2>3. w \in 1 .. 8
    BY <2>2
  <2> QED
    BY <1>3, <2>1, <2>2, <2>3, WideSaysNegative
<1>4. CASE v \notin -FixNegative .. Base \div 2 - 1 /\ ~ (v < 0)
  <2> DEFINE w == UnsignedWidth(v)
  <2>1. WriteLong(v) = Wide("uint", v, w) /\ v \in Nat
    BY <1>4 DEF WriteLong
  <2>2. w \in {1, 2, 4, 8} /\ v < Limit(w)
    <3>1. Limit(8) \in Nat
      BY LimitsAre
    <3>2. v < Limit(8)
      BY <3>1 DEF IsBig
    <3> QED
      BY <3>2 DEF UnsignedWidth
  <2> HIDE DEF w
  <2>3. w \in 1 .. 8
    BY <2>2
  <2>4. Says(Wide("uint", v, w), Kind("uint"), v)
    BY <1>1, <2>1, <2>2, <2>3, WideSays
  <2> QED
    BY <1>1, <2>1, <2>4
<1> QED
  BY <1>2, <1>3, <1>4

\* The type of an extension, one signed byte.
LEMMA TypeRead ==
  ASSUME NEW t \in ExtTypes, NEW s, NEW p, Holds(s, p, Bytes(t, 1))
  PROVE  SignedAt(s, p + 1, 1) = t
<1> DEFINE u == t % Base
<1>1. Base \in Nat \ {0, 1, 2} /\ Limit(0) = 1 /\ Limit(1) = Base
  <2>1. Limit(0) = 1 /\ Limit(1) = Base * Limit(1 - 1) /\ Base \in Nat \ {0, 1, 2}
    BY LimitsAre
  <2> QED
    BY <2>1
<1>2. t \in Int /\ t >= -(Base \div 2) /\ t <= Base \div 2 - 1
  BY <1>1 DEF ExtTypes
<1>3. u \in Nat /\ u < Limit(1) /\ t % Limit(1) = u /\ u % Limit(1) = u
  BY <1>1, <1>2
<1>4. u = IF t < 0 THEN t + Base ELSE t
  BY <1>1, <1>2
<1> HIDE DEF u
<1>5. Bytes(t, 1) = Bytes(u, 1)
  BY <1>3 DEF Bytes
<1>6. UnsignedAt(s, p + 1, 1) = u
  <2>1. Holds(s, p, Bytes(u, 1)) /\ 1 \in 1 .. 8
    BY <1>5
  <2> QED
    BY <1>3, <2>1, BytesRead
<1>7. SignedAt(s, p + 1, 1) = IF u < Base \div 2 THEN u ELSE u - Base
  BY <1>1, <1>6 DEF SignedAt, SignedLimit
<1> QED
  BY <1>1, <1>2, <1>4, <1>7

LEMMA ExtHeaderSays ==
  ASSUME NEW n \in Nat, n < Limit(4), NEW t \in ExtTypes
  PROVE  /\ Says(ExtHeader(n, t), "ext", n)
         /\ \A s, p : Holds(s, p, ExtHeader(n, t)) => HeadAt(s, p + 1).type = t
<1> DEFINE w == IF n \in FixExt THEN 0 ELSE LengthWidth(n)
           m == IF n \in FixExt THEN n ELSE 0
           x == <<Lead("ext", w, m)>>
           b == Bytes(n, w)
           y == b \o Bytes(t, 1)
<1>0. t \in Int
  BY LimitsAre DEF ExtTypes
<1>1. w \in {0, 1, 2, 4} /\ (w # 0 => n < Limit(w)) /\ (w = 0 => m = n)
  BY LengthWidths
<1>2. /\ IsSeq(x) /\ Len(x) = 1 /\ Typed(x)
  <2>1. IsByte(Lead("ext", w, m))
    BY <1>1 DEF IsByte, Lead
  <2> QED
    BY <2>1, TypedOne DEF Typed
<1>3. /\ IsSeq(b) /\ Len(b) = w /\ Typed(b) /\ IsSeq(Bytes(t, 1)) /\ Len(Bytes(t, 1)) = 1
      /\ Typed(Bytes(t, 1))
      /\ \A j \in 1 .. w : b[j].h = "byte" /\ \A k \in 1 .. 1 : Bytes(t, 1)[k].h = "byte"
  <2>1. n \in Int /\ w \in 0 .. 8 /\ 1 \in 0 .. 8
    BY <1>1
  <2>2. Typed(b) /\ Len(b) = w /\ \A j \in 1 .. w : b[j].h = "byte"
    BY <2>1, BytesAre, TypedBytes
  <2>3. /\ Typed(Bytes(t, 1)) /\ Len(Bytes(t, 1)) = 1
        /\ \A k \in 1 .. 1 : Bytes(t, 1)[k].h = "byte"
    BY <1>0, <2>1, BytesAre, TypedBytes
  <2> QED
    BY <2>2, <2>3 DEF Typed
<1>4. ExtHeader(n, t) = x \o y
  <2>1. CASE n \in FixExt
    <3>1. b = <<>>
      BY <1>3, <2>1, EmptySeq DEF IsSeq
    <3>2. y = Bytes(t, 1)
      BY <1>3, <3>1, ConcatEmptySeq DEF IsSeq
    <3> QED
      BY <2>1, <3>2 DEF ExtHeader, Fix
  <2>2. CASE n \notin FixExt
    <3>1. ExtHeader(n, t) = (x \o b) \o Bytes(t, 1)
      BY <2>2 DEF ExtHeader, Wide
    <3> QED
      BY <1>2, <1>3, <3>1, ConcatTwice
  <2> QED
    BY <2>1, <2>2
<1> HIDE DEF w, m, x, b
<1>5. /\ IsSeq(y) /\ Len(y) = w + 1 /\ Typed(y)
      /\ \A i \in 1 .. w + 1 : y[i] = IF i <= w THEN b[i] ELSE Bytes(t, 1)[i - w]
  BY <1>3, ConcatIs, TypedConcat
<1>6. \A i \in 1 .. w + 1 : y[i].h = "byte"
  <2> TAKE i \in 1 .. w + 1
  <2>1. CASE i <= w
    BY <1>1, <1>3, <1>5, <2>1
  <2>2. CASE ~ (i <= w)
    <3>1. i - w = 1 /\ i = w + 1
      BY <1>1, <2>2
    <3>2. y[i] = Bytes(t, 1)[1]
      BY <1>5, <2>2, <3>1
    <3>3. Bytes(t, 1)[1].h = "byte"
      <4>1. t \in Int /\ 1 \in 0 .. 8 /\ 1 \in 1 .. 1
        BY <1>0
      <4> QED
        BY <4>1, BytesAre
    <3> QED
      BY <3>2, <3>3
  <2> QED
    BY <2>1, <2>2
<1> HIDE DEF y
<1>7. Belongs(y, "ext", w)
  BY <1>5, <1>6 DEF Belongs
<1>8. Typed(x \o y) /\ Len(x \o y) = w + 2
  <2>1. Typed(x \o y)
    BY <1>2, <1>5, TypedConcat
  <2>2. Len(x \o y) = Len(x) + Len(y)
    BY <1>2, <1>5, ConcatIs
  <2> QED
    BY <1>1, <1>2, <1>5, <2>1, <2>2
<1>9. ASSUME NEW s, NEW p, Holds(s, p, x \o y)
      PROVE  /\ HeadAt(s, p + 1).kind = "ext"
             /\ HeadAt(s, p + 1).end = p + Len(x \o y) + 1
             /\ HeadAt(s, p + 1).n = n
             /\ HeadAt(s, p + 1).type = t
  <2>1. Holds(s, p, <<Lead("ext", w, m)>> \o y) /\ "ext" \in Families /\ w \in 0 .. 8
    BY <1>1, <1>9 DEF x, Families
  <2>2. /\ HeadAt(s, p + 1).kind = Kind("ext") /\ HeadAt(s, p + 1).end = p + 2 + Len(y)
        /\ HeadAt(s, p + 1).n = IF w = 0 THEN m ELSE UnsignedAt(s, p + 2, w)
        /\ HeadAt(s, p + 1).type = SignedAt(s, p + 2 + w, 1)
    BY <1>7, <2>1, HeadIs
  <2>3. p \in Nat /\ (p + 1) + 1 = p + 2 /\ (p + 1 + w) + 1 = p + 2 + w
    BY <1>1, <1>9 DEF Holds
  <2>4. Holds(s, p + 1, y)
    BY <1>2, <1>5, <1>9, HoldsParts
  <2>5. Holds(s, p + 1, b) /\ Holds(s, p + 1 + w, Bytes(t, 1))
    BY <1>3, <2>4, HoldsParts DEF y
  <2>6. SignedAt(s, p + 2 + w, 1) = t
    <3>1. SignedAt(s, (p + 1 + w) + 1, 1) = t
      BY <2>5, TypeRead
    <3> QED
      BY <2>3, <3>1
  <2>7. w # 0 => UnsignedAt(s, p + 2, w) = n
    <3>1. ASSUME w # 0 PROVE UnsignedAt(s, p + 2, w) = n
      <4>1. w \in 1 .. 8 /\ n < Limit(w)
        BY <1>1, <3>1
      <4>2. Holds(s, p + 1, Bytes(n, w))
        BY <2>5 DEF b
      <4>3. UnsignedAt(s, (p + 1) + 1, w) = n
        BY <4>1, <4>2, BytesRead
      <4> QED
        BY <2>3, <4>3
    <3> QED
      BY <3>1
  <2>8. p + 2 + Len(y) = p + Len(x \o y) + 1
    BY <1>1, <1>5, <1>8, <2>3
  <2> QED
    BY <1>1, <2>2, <2>6, <2>7, <2>8 DEF Kind
<1>10. Says(x \o y, "ext", n)
  BY <1>1, <1>8, <1>9 DEF Says, Heads
<1> QED
  BY <1>4, <1>9, <1>10

-----------------------------------------------------------------------------
(* Objects, one behind the other. *)

LEMMA NumbersAre ==
  ASSUME NEW s, NEW i \in Nat, NEW w \in 0 .. 8, \A k \in 1 .. w : s[i + k - 1].n \in Nat
  PROVE  UnsignedAt(s, i, w) \in Nat
<1>1. PICK f : Reads(f, s, i, w) /\ UnsignedAt(s, i, w) = f[w]
  BY UnsignedEquation
<1> DEFINE Right(k) == k <= w => f[k] \in Nat
<1>2. Right(0)
  BY <1>1 DEF Reads
<1>3. ASSUME NEW k \in 1 .. 8, Right(k - 1) PROVE Right(k)
  <2>1. SUFFICES ASSUME k <= w PROVE f[k] \in Nat
    OBVIOUS
  <2>2. k \in 1 .. w /\ f[k - 1] \in Nat
    BY <1>3, <2>1
  <2>3. f[k] = Base * f[k - 1] + s[i + k - 1].n /\ s[i + k - 1].n \in Nat /\ Base \in Nat
    BY <1>1, <2>2, LimitsAre DEF Reads
  <2>4. Base * f[k - 1] \in Nat
    BY <2>2, <2>3
  <2> QED
    BY <2>3, <2>4
<1> HIDE DEF Right
<1>4. Right(1) /\ Right(2) /\ Right(3) /\ Right(4)
  <2>1. Right(1)
    BY <1>2, <1>3
  <2>2. Right(2)
    BY <1>3, <2>1
  <2>3. Right(3)
    BY <1>3, <2>2
  <2> QED
    BY <1>3, <2>1, <2>2, <2>3
<1>5. Right(5) /\ Right(6) /\ Right(7) /\ Right(8)
  <2>1. Right(5)
    BY <1>3, <1>4
  <2>2. Right(6)
    BY <1>3, <2>1
  <2>3. Right(7)
    BY <1>3, <2>2
  <2> QED
    BY <1>3, <2>1, <2>2, <2>3
<1>6. Right(w)
  <2>1. w \in {0, 1, 2, 3, 4, 5, 6, 7, 8}
    OBVIOUS
  <2> QED
    BY <1>2, <1>4, <1>5, <2>1
<1> QED
  BY <1>1, <1>6 DEF Right

\* A head that is no bad one.
LEMMA HeadBounds ==
  ASSUME NEW s, Typed(s), NEW i \in 1 .. Len(s), HeadAt(s, i).kind # "bad"
  PROVE  /\ HeadAt(s, i).end \in i + 1 .. Len(s) + 1
         /\ HeadAt(s, i).kind \in {"array", "map"} => HeadAt(s, i).n \in Nat
<1> DEFINE h   == s[i].h
           w   == s[i].w
           end == i + 1 + w + (IF h = "ext" THEN 1 ELSE 0)
           bad == \/ h \in {"byte", "body"}
                  \/ end > Len(s) + 1
                  \/ \E j \in i + 1 .. end - 1 : s[j].h # "byte"
           n   == IF w = 0 THEN s[i].n
                  ELSE IF h = "int" THEN SignedAt(s, i + 1, w)
                  ELSE UnsignedAt(s, i + 1, w)
           r   == [kind |-> IF h = "uint" THEN "int" ELSE h,
                   n    |-> n,
                   type |-> IF h = "ext" THEN SignedAt(s, end - 1, 1) ELSE 0,
                   end  |-> end]
<1>1. HeadAt(s, i) = IF bad THEN BadHead ELSE r
  BY DEF HeadAt
<1>2. ~ bad /\ HeadAt(s, i) = r
  <2> HIDE DEF bad, r
  <2>1. BadHead.kind = "bad"
    BY DEF BadHead
  <2> QED
    BY <1>1, <2>1
<1>3. r.kind = (IF h = "uint" THEN "int" ELSE h) /\ r.n = n /\ r.end = end
  OBVIOUS
<1> HIDE DEF r
<1>4. Len(s) \in Nat /\ IsByte(s[i])
  BY SeqFacts DEF Typed
<1>5. w \in 0 .. 8 /\ (h \in {"array", "map"} /\ w = 0 => s[i].n \in Nat)
  BY <1>2, <1>4 DEF IsByte
<1>9. /\ ~ (end > Len(s) + 1) /\ end = i + 1 + w + (IF h = "ext" THEN 1 ELSE 0)
      /\ \A j \in i + 1 .. end - 1 : s[j].h = "byte"
  BY <1>2
<1> HIDE DEF bad, end, h, w
<1>6. end \in i + 1 .. Len(s) + 1 /\ end >= i + 1 + w
  BY <1>4, <1>5, <1>9
<1>7. ASSUME h \in {"array", "map"}, w # 0 PROVE n \in Nat
  <2>1. ASSUME NEW k \in 1 .. w PROVE s[i + 1 + k - 1].n \in Nat
    <3>1. i + 1 + k - 1 = i + k /\ i + k \in i + 1 .. end - 1 /\ i + k \in 1 .. Len(s)
      <4>1. w \in Nat /\ k \in Nat /\ k >= 1 /\ k <= w
        BY <1>5
      <4>2. end \in Nat /\ end <= Len(s) + 1 /\ i + k < end
        BY <1>4, <1>6, <4>1
      <4> QED
        BY <1>4, <4>1, <4>2
    <3>2. s[i + k].h = "byte" /\ IsByte(s[i + k])
      BY <1>9, <3>1 DEF Typed
    <3> QED
      BY <3>1, <3>2 DEF IsByte
  <2>2. i + 1 \in Nat
    OBVIOUS
  <2>3. UnsignedAt(s, i + 1, w) \in Nat
    BY <1>5, <2>1, <2>2, NumbersAre
  <2> QED
    BY <1>7, <2>3
<1>8. h \in {"array", "map"} => n \in Nat
  BY <1>5, <1>7
<1> HIDE DEF n
<1>10. \/ h = "uint" /\ r.kind = "int"
       \/ h # "uint" /\ r.kind = h
  BY <1>3
<1> QED
  BY <1>2, <1>3, <1>6, <1>8, <1>10

LEMMA BehindIs ==
  ASSUME NEW s, Typed(s), NEW i \in 1 .. Len(s)
  PROVE  /\ Behind(s, i) = 0 \/ Behind(s, i) \in i + 1 .. Len(s) + 1
         /\ Elements(s, i) \in Nat
<1> DEFINE h == HeadAt(s, i)
<1>0. Len(s) \in Nat /\ DOMAIN s = 1 .. Len(s)
  BY SeqFacts DEF Typed
<1>1. h.kind # "bad" => /\ h.end \in i + 1 .. Len(s) + 1
                        /\ h.kind \in {"array", "map"} => h.n \in Nat
  BY HeadBounds
<1> HIDE DEF h
<1>2. Elements(s, i) = (CASE h.kind = "array" -> h.n
                          [] h.kind = "map" -> 2 * h.n
                          [] OTHER -> 0)
  BY DEF Elements, h
<1>3. Elements(s, i) \in Nat
  <2>1. CASE h.kind = "array"
    BY <1>1, <1>2, <2>1
  <2>2. CASE h.kind = "map"
    <3>1. Elements(s, i) = 2 * h.n /\ h.n \in Nat
      BY <1>1, <1>2, <2>2
    <3> QED
      BY <3>1
  <2>3. CASE h.kind \notin {"array", "map"}
    BY <1>2, <2>3
  <2> QED
    BY <2>1, <2>2, <2>3
<1>4. Behind(s, i) = (CASE h.kind = "bad" -> 0
                        [] h.kind \in {"str", "bin", "ext"} -> BodyEnd(s, h.end, h.n)
                        [] OTHER -> h.end)
  BY DEF Behind, h
<1>5. BodyEnd(s, h.end, h.n) \in {0, h.end} \/ (h.end \in DOMAIN s /\ BodyEnd(s, h.end, h.n) = h.end + 1)
  BY DEF BodyEnd
<1>6. Behind(s, i) = 0 \/ Behind(s, i) \in i + 1 .. Len(s) + 1
  <2>1. CASE h.kind = "bad"
    BY <1>4, <2>1
  <2>2. CASE h.kind \in {"str", "bin", "ext"}
    <3>1. Behind(s, i) = BodyEnd(s, h.end, h.n) /\ h.end \in i + 1 .. Len(s) + 1
      BY <1>1, <1>4, <2>2
    <3> QED
      BY <1>0, <1>5, <3>1
  <2>3. CASE h.kind \notin {"bad", "str", "bin", "ext"}
    BY <1>1, <1>4, <2>3
  <2> QED
    BY <2>1, <2>2, <2>3
<1> QED
  BY <1>3, <1>6

\* Induction from m down to 1, for the set B of what fails.
LEMMA Descend ==
  ASSUME NEW m \in Nat, NEW B, B \subseteq 1 .. m,
         \A i \in 1 .. m : (\A k \in i + 1 .. m : k \notin B) => i \notin B
  PROVE  B = {}
<1> SUFFICES ASSUME B # {} PROVE FALSE
  OBVIOUS
<1> DEFINE D == {d \in 0 .. m : m - d \in B}
<1>1. D \in SUBSET Nat /\ D # {}
  <2>1. PICK i \in B : i \in 1 .. m
    OBVIOUS
  <2>2. m - i \in 0 .. m /\ m - (m - i) = i
    BY <2>1
  <2>3. m - i \in D
    BY <2>1, <2>2
  <2>4. D \subseteq 0 .. m
    OBVIOUS
  <2> HIDE DEF D
  <2> QED
    BY <2>3, <2>4
<1>2. \A d \in D : d \in 0 .. m /\ m - d \in B
  OBVIOUS
<1>3. \A i \in B : m - i \in D
  <2> TAKE i \in B
  <2>1. m - i \in 0 .. m /\ m - (m - i) = i
    OBVIOUS
  <2> QED
    BY <2>1
<1> HIDE DEF D
<1>4. Min(D) \in D /\ \A y \in D : Min(D) <= y
  BY <1>1, FirstIs
<1> DEFINE i == m - Min(D)
<1>5. i \in B /\ i \in 1 .. m /\ Min(D) \in Nat
  BY <1>2, <1>4
<1>6. ASSUME NEW k \in i + 1 .. m, k \in B PROVE FALSE
  <2>1. Min(D) <= m - k
    BY <1>3, <1>4, <1>6
  <2> QED
    BY <1>5, <1>6, <2>1
<1> QED
  BY <1>5, <1>6

\* One step of ObjectsEnd.
Places(s) == (1 .. Len(s) + 1) \X Nat
Ahead(s, end, x) ==
    IF x[2] = 0 THEN x[1]
    ELSE IF x[1] > Len(s) \/ Behind(s, x[1]) = 0 THEN 0
    ELSE end[<<Behind(s, x[1]), x[2] - 1 + Elements(s, x[1])>>]

LEMMA AheadAgrees ==
  ASSUME NEW s, Typed(s), NEW f, NEW g, NEW x \in Places(s),
         \A y \in Places(s) : y[1] > x[1] => f[y] = g[y]
  PROVE  Ahead(s, f, x) = Ahead(s, g, x)
<1>1. x[1] \in 1 .. Len(s) + 1 /\ x[2] \in Nat /\ Len(s) \in Nat
  BY SeqFacts DEF Places, Typed
<1>2. CASE x[2] # 0 /\ x[1] <= Len(s) /\ Behind(s, x[1]) # 0
  <2> DEFINE y == <<Behind(s, x[1]), x[2] - 1 + Elements(s, x[1])>>
  <2>1. Behind(s, x[1]) \in x[1] + 1 .. Len(s) + 1 /\ Elements(s, x[1]) \in Nat
    BY <1>1, <1>2, BehindIs
  <2>2. y \in Places(s) /\ y[1] > x[1]
    BY <1>1, <1>2, <2>1 DEF Places
  <2>3. f[y] = g[y]
    BY <2>2
  <2> QED
    BY <1>2, <2>3 DEF Ahead
<1>3. CASE ~ (x[2] # 0 /\ x[1] <= Len(s) /\ Behind(s, x[1]) # 0)
  <2>1. x[2] = 0 \/ x[1] > Len(s) \/ Behind(s, x[1]) = 0
    BY <1>1, <1>3
  <2> QED
    BY <2>1 DEF Ahead
<1> QED
  BY <1>2, <1>3

LEMMA EndSolved ==
  ASSUME NEW s, Typed(s)
  PROVE  \E f : \A x \in Places(s) : /\ f[x] = Ahead(s, f, x)
                                     /\ ObjectsEnd(s, x[1], x[2]) = f[x]
<1> DEFINE m == Len(s) + 1
           end == CHOOSE f : f = [x \in Places(s) |-> Ahead(s, f, x)]
           Solves(f, d) == \A x \in Places(s) : x[1] >= d => f[x] = Ahead(s, f, x)
           B == {d \in 1 .. m : ~ \E f : Solves(f, d)}
<1>0. m \in Nat /\ m >= 1
  BY SeqFacts DEF Typed
<1>w. \A x \in Places(s) : x[1] \in 1 .. m
  BY DEF Places
<1> HIDE DEF m
<1>1. ASSUME NEW d \in 1 .. m, \A k \in d + 1 .. m : k \notin B
      PROVE  d \notin B
  <2>1. \E f : Solves(f, d + 1)
    <3>1. CASE d = m
      BY <1>0, <1>w, <3>1
    <3>2. CASE d # m
      <4>1. d + 1 \in d + 1 .. m /\ d + 1 \in 1 .. m
        BY <1>0, <3>2
      <4>2. d + 1 \notin B
        BY <1>1, <4>1
      <4> HIDE DEF Solves
      <4> QED
        BY <4>1, <4>2
    <3> QED
      BY <3>1, <3>2
  <2>2. PICK f : Solves(f, d + 1)
    BY <2>1
  <2> DEFINE g == [x \in Places(s) |-> Ahead(s, f, x)]
  <2>3. \A x \in Places(s) : g[x] = Ahead(s, f, x)
    OBVIOUS
  <2> HIDE DEF g
  <2>4. ASSUME NEW x \in Places(s), x[1] >= d
        PROVE  g[x] = Ahead(s, g, x)
    <3>1. ASSUME NEW y \in Places(s), y[1] > x[1] PROVE f[y] = g[y]
      <4>1. y[1] >= d + 1
        BY <1>w, <2>4, <3>1
      <4> QED
        BY <2>2, <2>3, <4>1
    <3>2. Ahead(s, f, x) = Ahead(s, g, x)
      BY <3>1, AheadAgrees
    <3> QED
      BY <2>3, <3>2
  <2>5. Solves(g, d)
    BY <2>4
  <2> HIDE DEF Solves
  <2> QED
    BY <2>5
<1>2. B = {}
  <2>1. B \subseteq 1 .. m
    OBVIOUS
  <2> HIDE DEF B
  <2> QED
    BY <1>0, <1>1, <2>1, Descend
<1>3. PICK f : Solves(f, 1)
  <2>1. 1 \notin B /\ 1 \in 1 .. m
    <3> HIDE DEF B
    <3> QED
      BY <1>0, <1>2
  <2> HIDE DEF Solves
  <2> QED
    BY <2>1
<1>4. \A x \in Places(s) : f[x] = Ahead(s, f, x)
  BY <1>3, <1>w
<1> DEFINE g == [x \in Places(s) |-> f[x]]
<1>5. \A x \in Places(s) : g[x] = Ahead(s, g, x)
  <2>1. \A x \in Places(s) : g[x] = f[x]
    OBVIOUS
  <2> HIDE DEF g
  <2>2. \A x \in Places(s) : Ahead(s, f, x) = Ahead(s, g, x)
    BY <2>1, AheadAgrees
  <2> QED
    BY <1>4, <2>1, <2>2
<1>6. g = [x \in Places(s) |-> g[x]]
  OBVIOUS
<1> HIDE DEF g
<1>7. g = [x \in Places(s) |-> Ahead(s, g, x)]
  BY <1>5, <1>6
<1>8. end = [x \in Places(s) |-> Ahead(s, end, x)]
  BY <1>7
<1>9. \A i, n : ObjectsEnd(s, i, n) = end[<<i, n>>]
  BY DEF ObjectsEnd, Ahead, Places
<1> HIDE DEF end
<1>10. \A x \in Places(s) : end[x] = Ahead(s, end, x)
  BY <1>8, Zenon
<1>11. \A x \in Places(s) : x = <<x[1], x[2]>>
  BY DEF Places
<1>12. \A x \in Places(s) : ObjectsEnd(s, x[1], x[2]) = end[x]
  BY <1>9, <1>11
<1> QED
  BY <1>10, <1>12

LEMMA EndEquation ==
  ASSUME NEW s, Typed(s), NEW i \in 1 .. Len(s) + 1, NEW n \in Nat
  PROVE  ObjectsEnd(s, i, n) =
           IF n = 0 THEN i
           ELSE IF i > Len(s) \/ Behind(s, i) = 0 THEN 0
           ELSE ObjectsEnd(s, Behind(s, i), n - 1 + Elements(s, i))
<1>1. PICK f : \A x \in Places(s) : /\ f[x] = Ahead(s, f, x)
                                    /\ ObjectsEnd(s, x[1], x[2]) = f[x]
  BY EndSolved
<1> DEFINE x == <<i, n>>
           y == <<Behind(s, i), n - 1 + Elements(s, i)>>
<1>2. x \in Places(s) /\ x[1] = i /\ x[2] = n
  BY DEF Places
<1>3. ObjectsEnd(s, i, n) = Ahead(s, f, x)
  BY <1>1, <1>2
<1>7. Len(s) \in Nat /\ i \in Nat
  BY SeqFacts DEF Typed
<1>4. ASSUME n # 0, i <= Len(s), Behind(s, i) # 0
      PROVE  ObjectsEnd(s, Behind(s, i), n - 1 + Elements(s, i)) = f[y]
  <2>1. Behind(s, i) \in i + 1 .. Len(s) + 1 /\ Elements(s, i) \in Nat
    BY <1>4, <1>7, BehindIs
  <2>2. y \in Places(s) /\ y[1] = Behind(s, i) /\ y[2] = n - 1 + Elements(s, i)
    BY <1>4, <1>7, <2>1 DEF Places
  <2> QED
    BY <1>1, <2>2
<1>5. Ahead(s, f, x) = IF n = 0 THEN i
                       ELSE IF i > Len(s) \/ Behind(s, i) = 0 THEN 0
                       ELSE f[y]
  BY <1>2 DEF Ahead
<1> HIDE DEF x, y
<1> QED
  BY <1>3, <1>4, <1>5, <1>7

-----------------------------------------------------------------------------
(* What the packer writes. *)

\* x is an object, wherever it is, apart from its e elements.
IsObject(x, e) ==
    /\ Typed(x) /\ Len(x) \in Nat \ {0} /\ e \in Nat
    /\ \A s, p : Holds(s, p, x) => /\ Behind(s, p + 1) = p + Len(x) + 1
                                  /\ Elements(s, p + 1) = e

LEMMA SimpleObject ==
  ASSUME NEW kind \in {"nil", "int", "float"}, NEW x, Heads(x, kind)
  PROVE  IsObject(x, 0)
<1>1. ASSUME NEW s, NEW p, Holds(s, p, x)
      PROVE  Behind(s, p + 1) = p + Len(x) + 1 /\ Elements(s, p + 1) = 0
  <2> DEFINE h == HeadAt(s, p + 1)
  <2>1. h.kind = kind /\ h.end = p + Len(x) + 1
    BY <1>1 DEF Heads
  <2>2. Behind(s, p + 1) = (CASE h.kind = "bad" -> 0
                              [] h.kind \in {"str", "bin", "ext"} -> BodyEnd(s, h.end, h.n)
                              [] OTHER -> h.end)
    BY DEF Behind
  <2>3. Elements(s, p + 1) = (CASE h.kind = "array" -> h.n
                                [] h.kind = "map" -> 2 * h.n
                                [] OTHER -> 0)
    BY DEF Elements
  <2> HIDE DEF h
  <2> QED
    BY <2>1, <2>2, <2>3
<1> QED
  BY <1>1 DEF IsObject, Heads

LEMMA CountObject ==
  ASSUME NEW kind \in {"array", "map"}, NEW n \in Nat, NEW x, Says(x, kind, n)
  PROVE  IsObject(x, IF kind = "map" THEN 2 * n ELSE n)
<1> DEFINE e == IF kind = "map" THEN 2 * n ELSE n
<1>0. e \in Nat
  OBVIOUS
<1>1. ASSUME NEW s, NEW p, Holds(s, p, x)
      PROVE  Behind(s, p + 1) = p + Len(x) + 1 /\ Elements(s, p + 1) = e
  <2> DEFINE h == HeadAt(s, p + 1)
  <2>1. h.kind = kind /\ h.end = p + Len(x) + 1 /\ h.n = n
    BY <1>1 DEF Says, Heads
  <2>2. Behind(s, p + 1) = (CASE h.kind = "bad" -> 0
                              [] h.kind \in {"str", "bin", "ext"} -> BodyEnd(s, h.end, h.n)
                              [] OTHER -> h.end)
    BY DEF Behind
  <2>3. Elements(s, p + 1) = (CASE h.kind = "array" -> h.n
                                [] h.kind = "map" -> 2 * h.n
                                [] OTHER -> 0)
    BY DEF Elements
  <2> HIDE DEF h
  <2> QED
    BY <2>1, <2>2, <2>3
<1> HIDE DEF e
<1>2. IsObject(x, e)
  BY <1>0, <1>1 DEF IsObject, Says, Heads
<1> QED
  BY <1>2 DEF e

\* A head that says n, and n bytes.
LEMMA RawObject ==
  ASSUME NEW kind \in {"str", "bin", "ext"}, NEW n \in Nat, NEW x, Says(x, kind, n),
         NEW of, NEW inner, NEW ref,
         NEW y, y = IF n = 0 THEN <<>> ELSE <<Body(of, inner, n, ref)>>
  PROVE  IsObject(x \o y, 0)
<1>1. /\ Typed(y) /\ Len(y) = IF n = 0 THEN 0 ELSE 1
      /\ n # 0 => y[1].h = "body" /\ y[1].n = n
  <2>1. CASE n = 0
    <3>1. y = <<>>
      BY <2>1
    <3>2. IsByte(Lead("nil", 0, 0))
      BY DEF IsByte, Lead
    <3> QED
      BY <2>1, <3>1, <3>2, TypedOne, OneIs
  <2>2. CASE n # 0
    <3> DEFINE b == Body(of, inner, n, ref)
    <3>1. b.h = "body" /\ b.n = n
      BY DEF Body
    <3>2. y = <<b>>
      BY <2>2
    <3> HIDE DEF b
    <3>3. IsByte(b)
      BY <3>1 DEF IsByte
    <3> QED
      BY <2>2, <3>1, <3>2, <3>3, TypedOne, OneIs
  <2> QED
    BY <2>1, <2>2
<1>2. Typed(x) /\ Len(x) \in Nat \ {0}
  BY DEF Says, Heads
<1>3. /\ Typed(x \o y) /\ IsSeq(x) /\ IsSeq(y) /\ Len(x \o y) = Len(x) + Len(y)
      /\ Len(x \o y) \in Nat \ {0}
  <2>1. IsSeq(x) /\ IsSeq(y)
    BY <1>1, <1>2 DEF Typed
  <2>2. Typed(x \o y)
    BY <1>1, <1>2, TypedConcat
  <2>3. Len(x \o y) = Len(x) + Len(y) /\ Len(y) \in Nat
    BY <2>1, ConcatIs, SeqFacts
  <2> QED
    BY <1>2, <2>1, <2>2, <2>3
<1>4. ASSUME NEW s, NEW p, Holds(s, p, x \o y)
      PROVE  Behind(s, p + 1) = p + Len(x \o y) + 1 /\ Elements(s, p + 1) = 0
  <2> DEFINE h == HeadAt(s, p + 1)
             i == p + Len(x) + 1
  <2>1. Holds(s, p, x) /\ Holds(s, p + Len(x), y)
    BY <1>3, <1>4, HoldsParts
  <2>2. h.kind = kind /\ h.end = i /\ h.n = n
    BY <2>1 DEF Says, Heads
  <2>3. Behind(s, p + 1) = (CASE h.kind = "bad" -> 0
                              [] h.kind \in {"str", "bin", "ext"} -> BodyEnd(s, h.end, h.n)
                              [] OTHER -> h.end)
    BY DEF Behind
  <2>4. Elements(s, p + 1) = (CASE h.kind = "array" -> h.n
                                [] h.kind = "map" -> 2 * h.n
                                [] OTHER -> 0)
    BY DEF Elements
  <2> HIDE DEF h
  <2>5. Behind(s, p + 1) = BodyEnd(s, i, n) /\ Elements(s, p + 1) = 0
    BY <2>2, <2>3, <2>4
  <2>6. p \in Nat /\ Len(s) \in Nat /\ DOMAIN s = 1 .. Len(s)
    BY <2>1, SeqFacts DEF Holds
  <2>7. CASE n = 0
    <3>1. BodyEnd(s, i, n) = i
      BY <2>7 DEF BodyEnd
    <3> QED
      BY <1>1, <1>2, <1>3, <2>5, <2>6, <2>7, <3>1
  <2>8. CASE n # 0
    <3>1. i \in DOMAIN s /\ s[i] = y[1]
      <4>1. /\ Len(y) = 1 /\ p + Len(x) + Len(y) <= Len(s)
            /\ \A j \in 1 .. Len(y) : s[p + Len(x) + j] = y[j]
        BY <1>1, <2>1, <2>8 DEF Holds
      <4>2. 1 \in 1 .. Len(y) /\ i = p + Len(x) + 1 /\ i \in 1 .. Len(s)
        BY <1>2, <2>6, <4>1
      <4> QED
        BY <2>6, <4>1, <4>2
    <3>2. BodyEnd(s, i, n) = i + 1
      BY <1>1, <2>8, <3>1 DEF BodyEnd
    <3> QED
      BY <1>1, <1>2, <1>3, <2>5, <2>6, <2>8, <3>2
  <2> QED
    BY <2>7, <2>8
<1> QED
  BY <1>3, <1>4 DEF IsObject
-----------------------------------------------------------------------------
(* Streams that are not at their end. *)

\* When k objects are read from s, and from what will follow it, m are missing
\* at the end of s.
Awaits(s, k, m) ==
    /\ Typed(s) /\ k \in Nat /\ m \in Nat
    /\ \A t, j : Typed(t) /\ j \in Nat =>
         ObjectsEnd(s \o t, 1, k + j) = ObjectsEnd(s \o t, Len(s) + 1, m + j)

LEMMA AwaitsNothing == Awaits(<<>>, 0, 0)
<1>1. Typed(<<>>) /\ Len(<<>>) = 0
  <2>1. IsByte(Lead("nil", 0, 0))
    BY DEF IsByte, Lead
  <2> QED
    BY <2>1, TypedOne, OneIs
<1> QED
  BY <1>1 DEF Awaits

\* One object more is read.
LEMMA AwaitsMore ==
  ASSUME NEW s, NEW k, NEW m, Awaits(s, k, m)
  PROVE  Awaits(s, k + 1, m + 1)
<1>1. Typed(s) /\ k \in Nat /\ m \in Nat
  BY DEF Awaits
<1>2. ASSUME NEW t, NEW j \in Nat, Typed(t)
      PROVE  ObjectsEnd(s \o t, 1, (k + 1) + j) = ObjectsEnd(s \o t, Len(s) + 1, (m + 1) + j)
  <2>1. j + 1 \in Nat /\ (k + 1) + j = k + (j + 1) /\ (m + 1) + j = m + (j + 1)
    BY <1>1
  <2>2. ObjectsEnd(s \o t, 1, k + (j + 1)) = ObjectsEnd(s \o t, Len(s) + 1, m + (j + 1))
    BY <1>2, <2>1 DEF Awaits
  <2> QED
    BY <2>1, <2>2
<1>3. k + 1 \in Nat /\ m + 1 \in Nat
  BY <1>1
<1> DEFINE l == k + 1
           o == m + 1
<1>4. ASSUME NEW t, NEW j \in Nat, Typed(t)
      PROVE  ObjectsEnd(s \o t, 1, l + j) = ObjectsEnd(s \o t, Len(s) + 1, o + j)
  BY <1>2, <1>4
<1>5. l \in Nat /\ o \in Nat
  BY <1>3
<1> HIDE DEF l, o
<1>6. Awaits(s, l, o)
  BY <1>1, <1>4, <1>5 DEF Awaits
<1> QED
  BY <1>6 DEF l, o

\* An object is written.
LEMMA AwaitsObject ==
  ASSUME NEW s, NEW k, NEW m \in Nat, Awaits(s, k, m + 1), NEW x, NEW e, IsObject(x, e)
  PROVE  Awaits(s \o x, k, m + e)
<1>1. /\ Typed(s) /\ Typed(x) /\ k \in Nat /\ e \in Nat /\ Len(x) \in Nat \ {0}
      /\ IsSeq(s) /\ IsSeq(x) /\ Len(s) \in Nat
  BY SeqFacts DEF Awaits, IsObject, Typed
<1>2. Typed(s \o x) /\ Len(s \o x) = Len(s) + Len(x)
  BY <1>1, TypedConcat, ConcatIs
<1>3. ASSUME NEW t, NEW j \in Nat, Typed(t)
      PROVE  ObjectsEnd((s \o x) \o t, 1, k + j)
               = ObjectsEnd((s \o x) \o t, Len(s \o x) + 1, (m + e) + j)
  <2> DEFINE y == x \o t
             u == s \o y
             i == Len(s) + 1
  <2>1. Typed(y) /\ IsSeq(t) /\ Len(t) \in Nat
    BY <1>1, <1>3, TypedConcat, SeqFacts DEF Typed
  <2>2. (s \o x) \o t = u
    <3>1. IsSeq(s) /\ IsSeq(x) /\ IsSeq(t)
      BY <1>1, <2>1
    <3> QED
      BY <3>1, ConcatTwice
  <2>3. Holds(u, Len(s), x)
    BY <1>1, <2>1, HoldsMiddle
  <2>4. Typed(u) /\ Len(u) \in Nat /\ Len(s) + Len(x) <= Len(u)
    <3>1. Typed(u)
      BY <1>1, <2>1, TypedConcat
    <3> QED
      BY <2>3, <3>1, SeqFacts DEF Holds, Typed
  <2>5. Behind(u, i) = Len(s) + Len(x) + 1 /\ Elements(u, i) = e
    BY <2>3 DEF IsObject
  <2>6. ObjectsEnd(u, 1, k + j) = ObjectsEnd(u, i, (m + 1) + j)
    BY <1>3, <2>1 DEF Awaits
  <2> HIDE DEF u, y
  <2>7. /\ i \in 1 .. Len(u) + 1 /\ ~ (i > Len(u)) /\ (m + 1) + j \in Nat
        /\ (m + 1) + j # 0 /\ Behind(u, i) # 0
        /\ (m + 1) + j - 1 + Elements(u, i) = (m + e) + j
    BY <1>1, <2>4, <2>5
  <2> HIDE DEF i
  <2>8. ObjectsEnd(u, i, (m + 1) + j)
          = ObjectsEnd(u, Behind(u, i), (m + 1) + j - 1 + Elements(u, i))
    BY <2>4, <2>7, EndEquation
  <2>9. ObjectsEnd(u, i, (m + 1) + j) = ObjectsEnd(u, Len(s) + Len(x) + 1, (m + e) + j)
    BY <2>5, <2>7, <2>8
  <2> QED
    BY <1>2, <2>2, <2>6, <2>9
<1>4. m + e \in Nat
  BY <1>1
<1> QED
  BY <1>1, <1>2, <1>3, <1>4 DEF Awaits

LEMMA AwaitsEnd ==
  ASSUME NEW s, NEW k, Awaits(s, k, 0)
  PROVE  IsObjects(s, k)
<1>1. Typed(s) /\ IsSeq(s) /\ Len(s) \in Nat /\ k \in Nat
  BY SeqFacts DEF Awaits, Typed
<1>2. Typed(<<>>) /\ s \o <<>> = s
  <2>1. Awaits(<<>>, 0, 0)
    BY AwaitsNothing
  <2> QED
    BY <1>1, <2>1, ConcatEmptySeq DEF Awaits, IsSeq
<1>3. ObjectsEnd(s, 1, k + 0) = ObjectsEnd(s, Len(s) + 1, 0 + 0)
  <2>1. 0 \in Nat
    OBVIOUS
  <2>2. ObjectsEnd(s \o <<>>, 1, k + 0) = ObjectsEnd(s \o <<>>, Len(s) + 1, 0 + 0)
    BY <1>2, <2>1 DEF Awaits
  <2> QED
    BY <1>2, <2>2
<1>4. ObjectsEnd(s, Len(s) + 1, 0) = Len(s) + 1
  <2>1. Len(s) + 1 \in 1 .. Len(s) + 1 /\ 0 \in Nat
    BY <1>1
  <2> QED
    BY <1>1, <2>1, EndEquation
<1>5. k + 0 = k /\ 0 + 0 = 0
  BY <1>1
<1> QED
  BY <1>3, <1>4, <1>5 DEF IsObjects

-----------------------------------------------------------------------------
(* What the stack still has to write into the buffer of the owner. *)

\* The frames of the owner's buffer are those up to e: a recursive one, or the
\* last one.
Reach(fs, e) == \/ NoRec(fs, 1, Len(fs)) /\ e = Len(fs)
                \/ FirstRec(fs, 1, e)

\* d[i] objects are left to the first i of e frames.
Sums(fs, e, d) ==
    /\ d \in [0 .. e -> Nat] /\ d[0] = 0
    /\ \A i \in 1 .. e : d[i] = d[i - 1] + Left(fs[i])

Owed(fs, m) == \E e, d : Reach(fs, e) /\ Sums(fs, e, d) /\ m = d[e]

\* One object is due if the packer is called for the owner's buffer.
Due(fs) == IF NoRec(fs, 1, Len(fs)) THEN 1 ELSE 0

LEMMA ReachIs ==
  ASSUME NEW fs, IsSeq(fs)
  PROVE  /\ \E e : Reach(fs, e)
         /\ \A e : Reach(fs, e) => e \in 0 .. Len(fs)
         /\ NoRec(fs, 1, Len(fs)) => \A e : Reach(fs, e) => e = Len(fs)
         /\ ~ NoRec(fs, 1, Len(fs)) => \A e : Reach(fs, e) => FirstRec(fs, 1, e)
<1>1. Len(fs) \in Nat
  BY SeqFacts
<1>2. \A i : FirstRec(fs, 1, i) => i \in 1 .. Len(fs) /\ ~ NoRec(fs, 1, Len(fs))
  BY DEF FirstRec, NoRec
<1>3. NoRec(fs, 1, Len(fs)) \/ \E i : FirstRec(fs, 1, i)
  BY RestoredIs
<1> QED
  BY <1>1, <1>2, <1>3 DEF Reach

LEMMA OwedNothing == \A m : Owed(<<>>, m) <=> m = 0
<1>1. IsSeq(<<>>) /\ Len(<<>>) = 0
  BY OneIs
<1>2. NoRec(<<>>, 1, Len(<<>>))
  <2>1. \A i \in 1 .. Len(<<>>) : FALSE
    BY <1>1
  <2> QED
    BY <2>1 DEF NoRec
<1>3. \A e : Reach(<<>>, e) <=> e = 0
  <2>1. \A e : Reach(<<>>, e) => e = 0
    BY <1>1, <1>2, ReachIs
  <2>2. Reach(<<>>, 0)
    BY <1>1, <1>2 DEF Reach
  <2> QED
    BY <2>1, <2>2
<1>4. Sums(<<>>, 0, [i \in 0 .. 0 |-> 0])
  BY DEF Sums
<1>5. \A d : Sums(<<>>, 0, d) => d[0] = 0
  BY DEF Sums
<1> QED
  BY <1>3, <1>4, <1>5 DEF Owed

\* What is left to the same frames is the same.
LEMMA SumsAgree ==
  ASSUME NEW fs, NEW gs, NEW e, NEW d, Sums(fs, e, d), \A i \in 1 .. e : gs[i] = fs[i]
  PROVE  Sums(gs, e, d)
BY DEF Sums

\* f is put on top of the stack.
LEMMA OwedPush ==
  ASSUME NEW fs, IsSeq(fs), NEW f, Left(f) \in Nat, NEW m, Owed(fs, m)
  PROVE  /\ NoRec(fs, 1, Len(fs)) => Owed(Append(fs, f), m + Left(f))
         /\ ~ NoRec(fs, 1, Len(fs)) => Owed(Append(fs, f), m)
         /\ m \in Nat
<1> DEFINE g == Append(fs, f)
           n == Len(fs)
<1>1. n \in Nat /\ IsSeq(g) /\ Len(g) = n + 1 /\ g[n + 1] = f
      /\ \A i \in 1 .. n : g[i] = fs[i]
  BY SeqFacts, AppendIs
<1>2. PICK e, d : Reach(fs, e) /\ Sums(fs, e, d) /\ m = d[e]
  BY DEF Owed
<1>3. e \in 0 .. n /\ (NoRec(fs, 1, n) => e = n) /\ (~ NoRec(fs, 1, n) => FirstRec(fs, 1, e))
  BY <1>2, ReachIs
<1>4. m \in Nat /\ d \in [0 .. e -> Nat]
  BY <1>2, <1>3 DEF Sums
<1> HIDE DEF g, n
<1>5. Sums(g, e, d)
  BY <1>1, <1>2, <1>3, SumsAgree
<1>6. ASSUME ~ NoRec(fs, 1, n) PROVE Owed(g, m)
  <2>1. FirstRec(g, 1, e)
    BY <1>1, <1>3, <1>6 DEF FirstRec, NoRec, n
  <2> QED
    BY <1>2, <1>5, <2>1 DEF Owed, Reach
<1>7. ASSUME NoRec(fs, 1, n) PROVE Owed(g, m + Left(f))
  <2> DEFINE c == [i \in 0 .. n + 1 |-> IF i = n + 1 THEN m + Left(f) ELSE d[i]]
  <2>1. e = n
    BY <1>3, <1>7
  <2>2. c \in [0 .. n + 1 -> Nat] /\ c[0] = 0 /\ c[n + 1] = m + Left(f)
        /\ \A i \in 0 .. n : c[i] = d[i]
    <3>1. m + Left(f) \in Nat /\ \A i \in 0 .. n : d[i] \in Nat
      BY <1>4, <2>1
    <3>2. d[0] = 0
      BY <1>2 DEF Sums
    <3> QED
      BY <1>1, <3>1, <3>2
  <2> HIDE DEF c
  <2>3. ASSUME NEW i \in 1 .. n + 1 PROVE c[i] = c[i - 1] + Left(g[i])
    <3>1. CASE i = n + 1
      <4>1. i - 1 = n /\ c[n] = d[n]
        BY <1>1, <2>2, <3>1
      <4> QED
        BY <1>1, <1>2, <2>1, <2>2, <3>1, <4>1
    <3>2. CASE i # n + 1
      <4>1. i \in 1 .. n /\ i \in 0 .. n /\ i - 1 \in 0 .. n
        BY <1>1, <2>3, <3>2
      <4>2. d[i] = d[i - 1] + Left(g[i])
        BY <1>5, <2>1, <4>1 DEF Sums
      <4> QED
        BY <2>2, <4>1, <4>2
    <3> QED
      BY <3>1, <3>2
  <2>4. Sums(g, n + 1, c)
    BY <2>2, <2>3 DEF Sums
  <2>5. Reach(g, n + 1)
    <3>1. \A i \in 1 .. n : g[i].k # "rec"
      BY <1>1, <1>7 DEF NoRec
    <3>2. (n + 1) - 1 = n /\ \A i \in 1 .. n + 1 : i \in 1 .. n \/ i = n + 1
      BY <1>1
    <3>3. CASE f.k = "rec"
      <4>1. FirstRec(g, 1, n + 1)
        BY <1>1, <3>1, <3>2, <3>3 DEF FirstRec, NoRec
      <4> QED
        BY <4>1 DEF Reach
    <3>4. CASE f.k # "rec"
      <4>1. NoRec(g, 1, n + 1)
        BY <1>1, <3>1, <3>2, <3>4 DEF NoRec
      <4> QED
        BY <1>1, <4>1 DEF Reach
    <3> QED
      BY <3>3, <3>4
  <2> QED
    BY <2>2, <2>4, <2>5 DEF Owed
<1> QED
  BY <1>4, <1>6, <1>7 DEF g, n

\* x of the m objects are not left to the frames g.
Without(g, m, x) == \E l \in Nat : Owed(g, l) /\ m = l + x

\* The frame on top, f, goes away.
LEMMA OwedPop ==
  ASSUME NEW fs, IsSeq(fs), NEW n \in Nat, Len(fs) = n + 1, NEW m, Owed(fs, m),
         NEW g, g = SubSeq(fs, 1, n), NEW f, f = fs[n + 1]
  PROVE  /\ ~ NoRec(g, 1, n) => Owed(g, m)
         /\ NoRec(g, 1, n) => Without(g, m, Left(f))
<1>1. IsSeq(g) /\ Len(g) = n /\ \A i \in 1 .. n : g[i] = fs[i]
  <2>1. n \in 0 .. Len(fs)
    OBVIOUS
  <2> QED
    BY <2>1, CutIs
<1>2. PICK e, d : Reach(fs, e) /\ Sums(fs, e, d) /\ m = d[e]
  BY DEF Owed
<1>3. e \in 0 .. n + 1 /\ (NoRec(fs, 1, n + 1) => e = n + 1)
      /\ (~ NoRec(fs, 1, n + 1) => FirstRec(fs, 1, e))
  BY <1>2, ReachIs
<1>4. ASSUME ~ NoRec(g, 1, n) PROVE Owed(g, m)
  <2>1. ~ NoRec(fs, 1, n + 1) /\ ~ NoRec(fs, 1, n)
    BY <1>1, <1>4 DEF NoRec
  <2>2. FirstRec(fs, 1, e)
    BY <1>3, <2>1
  <2>3. e \in 1 .. n
    <3>1. e # n + 1
      <4>1. (n + 1) - 1 = n
        OBVIOUS
      <4> QED
        BY <2>1, <2>2, <4>1 DEF FirstRec
    <3> QED
      BY <2>2, <3>1 DEF FirstRec
  <2>4. FirstRec(g, 1, e)
    BY <1>1, <2>2, <2>3 DEF FirstRec, NoRec
  <2>5. Sums(g, e, d)
    <3>1. \A i \in 1 .. e : g[i] = fs[i]
      BY <1>1, <2>3
    <3> QED
      BY <1>2, <3>1, SumsAgree
  <2> QED
    BY <1>2, <2>4, <2>5 DEF Owed, Reach
<1>5. ASSUME NoRec(g, 1, n) PROVE Without(g, m, Left(f))
  <2>1. e = n + 1
    <3>1. NoRec(fs, 1, n)
      BY <1>1, <1>5 DEF NoRec
    <3>2. FirstRec(fs, 1, e) => e = n + 1
      BY <1>3, <3>1 DEF FirstRec, NoRec
    <3> QED
      BY <1>3, <3>2
  <2> DEFINE c == [i \in 0 .. n |-> d[i]]
  <2>2. /\ d \in [0 .. n + 1 -> Nat] /\ d[0] = 0
        /\ \A i \in 1 .. n + 1 : d[i] = d[i - 1] + Left(fs[i])
    BY <1>2, <2>1 DEF Sums
  <2>3. c \in [0 .. n -> Nat] /\ c[0] = 0 /\ \A i \in 0 .. n : c[i] = d[i]
    BY <2>2
  <2> HIDE DEF c
  <2>4. \A i \in 1 .. n : i \in 1 .. n + 1 /\ i \in 0 .. n /\ i - 1 \in 0 .. n
    OBVIOUS
  <2>5. Sums(g, n, c)
    BY <1>1, <2>2, <2>3, <2>4 DEF Sums
  <2>6. Reach(g, n)
    BY <1>1, <1>5 DEF Reach
  <2>7. d[n] \in Nat /\ c[n] = d[n] /\ d[n + 1] = d[n] + Left(fs[n + 1])
    <3>1. n + 1 \in 1 .. n + 1 /\ (n + 1) - 1 = n /\ n \in 0 .. n
      OBVIOUS
    <3> QED
      BY <2>2, <2>3, <3>1
  <2> QED
    BY <1>2, <2>1, <2>5, <2>6, <2>7 DEF Owed, Without
<1> QED
  BY <1>4, <1>5

\* The frames above a recursive one go away.
LEMMA OwedCut ==
  ASSUME NEW fs, IsSeq(fs), NEW j \in 0 .. Len(fs), NEW m, Owed(fs, m),
         NEW g, g = SubSeq(fs, 1, j), ~ NoRec(g, 1, j)
  PROVE  Owed(g, m)
<1>1. IsSeq(g) /\ Len(g) = j /\ j \in Nat /\ Len(fs) \in Nat /\ \A i \in 1 .. j : g[i] = fs[i]
  <2>1. Len(fs) \in Nat
    BY SeqFacts
  <2>2. IsSeq(g) /\ Len(g) = j /\ \A i \in 1 .. j : g[i] = fs[i]
    BY CutIs
  <2> QED
    BY <2>1, <2>2
<1>2. PICK e, d : Reach(fs, e) /\ Sums(fs, e, d) /\ m = d[e]
  BY DEF Owed
<1>3. ~ NoRec(fs, 1, Len(fs)) /\ ~ NoRec(fs, 1, j)
  BY <1>1 DEF NoRec
<1>4. FirstRec(fs, 1, e)
  BY <1>2, <1>3, ReachIs
<1>5. e \in 1 .. j
  <2>1. e \in 1 .. Len(fs) /\ NoRec(fs, 1, e - 1)
    BY <1>4 DEF FirstRec
  <2>2. e <= j
    BY <1>1, <1>3, <2>1 DEF NoRec
  <2> QED
    BY <1>1, <2>1, <2>2
<1>6. FirstRec(g, 1, e)
  BY <1>1, <1>4, <1>5 DEF FirstRec, NoRec
<1>7. Sums(g, e, d)
  <2>1. \A i \in 1 .. e : g[i] = fs[i]
    BY <1>1, <1>5
  <2> QED
    BY <1>2, <2>1, SumsAgree
<1> QED
  BY <1>2, <1>6, <1>7 DEF Owed, Reach

-----------------------------------------------------------------------------
(* The objects that the owner's stream misses are those that the stack owes. *)

\* s is what the owner got already; x objects are missing that the stack does
\* not owe.
Awaited(s, fs, b, k, x) ==
    Restored(fs, 1, b).clean =>
        \E m \in Nat : Owed(fs, m) /\ Awaits(s \o Restored(fs, 1, b).bytes, k, m + x)

\* The head of an object with e elements is going to be written, that the stack
\* owes already, if the owner's buffer is the one it is written to.
Prepared(s, fs, b, k, e) ==
    /\ NoRec(fs, 1, Len(fs)) =>
         (b.clean => \E m \in Nat : Owed(fs, m + e) /\ Awaits(s \o b.bytes, k, m + 1))
    /\ ~ NoRec(fs, 1, Len(fs)) => Awaited(s, fs, b, k, 0)

LEMMA PreparedSimple ==
  ASSUME NEW s, NEW fs, IsSeq(fs), NEW b, NEW k, Awaited(s, fs, b, k, Due(fs))
  PROVE  Prepared(s, fs, b, k, 0)
<1>1. CASE NoRec(fs, 1, Len(fs))
  <2>1. Restored(fs, 1, b) = b /\ Due(fs) = 1
    BY <1>1, RestoredIs DEF Due
  <2>2. ASSUME b.clean
        PROVE  \E m \in Nat : Owed(fs, m + 0) /\ Awaits(s \o b.bytes, k, m + 1)
    <3>1. PICK m \in Nat : Owed(fs, m) /\ Awaits(s \o b.bytes, k, m + 1)
      BY <2>1, <2>2 DEF Awaited
    <3>2. m + 0 = m
      OBVIOUS
    <3> QED
      BY <3>1, <3>2
  <2> QED
    BY <1>1, <2>2 DEF Prepared
<1>2. CASE ~ NoRec(fs, 1, Len(fs))
  <2>1. Due(fs) = 0
    BY <1>2 DEF Due
  <2> QED
    BY <1>2, <2>1 DEF Prepared
<1> QED
  BY <1>1, <1>2

\* An exception: what it leaves of the owner's buffer is as before, or is known
\* to be cut off.
LEMMA RaisePromises ==
  ASSUME NEW fs, NEW b, Sound(fs, b, inside, issued, dead), Raise(fs, b), NEW k,
         ~ NoRec(fs, 1, Len(fs)) => sent' = sent /\ Awaited(sent, fs, b, k, 0)
  PROVE  Awaited(sent', frames', buffer', k, 0)
<1>1. PICK j \in {0} \cup {i \in DOMAIN fs : fs[i].k \in Writing} :
        /\ frames' = SubSeq(fs, 1, j)
        /\ buffer' = [Restored(fs, j + 1, b) EXCEPT !.clean = FALSE]
  BY DEF Raise
<1> DEFINE c == Restored(fs, j + 1, b)
           g == SubSeq(fs, 1, j)
<1>2. IsSeq(fs) /\ Len(fs) \in Nat /\ j \in 0 .. Len(fs)
  BY SeqFacts DEF Sound
<1>3. Sound(g, c, inside, issued, dead)
  BY <1>2, Unwound
<1>4. IsSeq(g) /\ Len(g) = j /\ \A i \in 1 .. j : g[i] = fs[i]
  BY <1>2, CutIs
<1>5. frames' = g /\ buffer' = [c EXCEPT !.clean = FALSE]
  BY <1>1
<1>7. ASSUME NEW m, Owed(fs, m), ~ NoRec(g, 1, j) PROVE Owed(g, m)
  BY <1>2, <1>7, OwedCut
<1> HIDE DEF c, g
<1>8. buffer'.clean = FALSE
  <2>1. c = [bytes |-> c.bytes, io |-> c.io, clean |-> c.clean]
    BY <1>3 DEF Sound, IsBuffer
  <2>2. buffer' = [bytes |-> c.bytes, io |-> c.io, clean |-> FALSE]
    BY <1>5, <2>1
  <2> QED
    BY <2>2
<1>9. CASE NoRec(g, 1, j)
  <2>1. Restored(g, 1, buffer') = buffer'
    BY <1>4, <1>9, RestoredIs
  <2> QED
    BY <1>5, <1>8, <2>1 DEF Awaited
<1>10. CASE ~ NoRec(g, 1, j)
  <2>1. PICK i : FirstRec(g, 1, i)
    BY <1>4, <1>10, RestoredIs
  <2>2. FirstRec(fs, 1, i) /\ g[i] = fs[i] /\ ~ NoRec(fs, 1, Len(fs))
    BY <1>2, <1>4, <2>1 DEF FirstRec, NoRec
  <2>3. Restored(g, 1, buffer') = Restored(fs, 1, b)
    BY <1>2, <1>4, <2>1, <2>2, RestoredIs
  <2>4. sent' = sent /\ Awaited(sent, fs, b, k, 0)
    BY <2>2
  <2> QED
    BY <1>5, <1>7, <1>10, <2>3, <2>4 DEF Awaited
<1> QED
  BY <1>9, <1>10

LEMMA RaiseUnclean ==
  ASSUME NEW fs, IsSeq(fs), NoRec(fs, 1, Len(fs)), NEW b, NEW k,
         b = [bytes |-> b.bytes, io |-> b.io, clean |-> b.clean], Raise(fs, b)
  PROVE  Awaited(sent', frames', buffer', k, 0)
<1>1. PICK j \in {0} \cup {i \in DOMAIN fs : fs[i].k \in Writing} :
        /\ frames' = SubSeq(fs, 1, j)
        /\ buffer' = [Restored(fs, j + 1, b) EXCEPT !.clean = FALSE]
  BY DEF Raise
<1> DEFINE g == SubSeq(fs, 1, j)
<1>2. Len(fs) \in Nat /\ j \in 0 .. Len(fs)
  BY SeqFacts
<1>3. IsSeq(g) /\ Len(g) = j /\ \A i \in 1 .. j : g[i] = fs[i]
  BY <1>2, CutIs
<1>4. Restored(fs, j + 1, b) = b
  <2>1. NoRec(fs, j + 1, Len(fs))
    BY <1>2 DEF NoRec
  <2> QED
    BY <1>2, <2>1, RestoredIs
<1>5. frames' = g /\ buffer' = [b EXCEPT !.clean = FALSE]
  BY <1>1, <1>4
<1> HIDE DEF g
<1>6. buffer'.clean = FALSE
  <2>1. buffer' = [bytes |-> b.bytes, io |-> b.io, clean |-> FALSE]
    BY <1>5, OtherClean
  <2> QED
    BY <2>1
<1>7. NoRec(g, 1, Len(g))
  BY <1>2, <1>3 DEF NoRec
<1>8. Restored(g, 1, buffer') = buffer'
  BY <1>3, <1>7, RestoredIs
<1> QED
  BY <1>5, <1>6, <1>8 DEF Awaited

\* What is written of the bytes s, all of which the owner gets in the end.
LEMMA SplitIs ==
  ASSUME IsSeq(sent), NEW s, IsSeq(s), NEW cut \in 0 .. Len(s), NEW b,
         b = [bytes |-> b.bytes, io |-> b.io, clean |-> b.clean], Split(b, s, cut)
  PROVE  /\ sent' \o buffer'.bytes = sent \o s
         /\ cut = 0 => sent' = sent
         /\ buffer'.clean = b.clean
<1> DEFINE x == SubSeq(s, 1, cut)
           y == SubSeq(s, cut + 1, Len(s))
<1>1. IsSeq(x) /\ IsSeq(y) /\ x \o y = s /\ Len(x) = cut
  BY CutIs
<1>2. sent' = sent \o x /\ buffer' = [b EXCEPT !.bytes = y]
  BY DEF Split
<1> HIDE DEF x, y
<1>3. buffer'.bytes = y /\ buffer'.clean = b.clean
  BY <1>2, OtherBytes
<1>4. (sent \o x) \o y = sent \o (x \o y)
  <2> DEFINE z == sent
  <2>1. IsSeq(x) /\ IsSeq(y) /\ IsSeq(z)
    BY <1>1
  <2> HIDE DEF z
  <2>2. (z \o x) \o y = z \o (x \o y)
    BY ONLY <2>1, ConcatTwice
  <2> QED
    BY <2>2 DEF z
<1>5. cut = 0 => sent' = sent
  <2>1. ASSUME cut = 0 PROVE sent' = sent
    <3>1. x = <<>>
      BY <1>1, <2>1, EmptySeq DEF IsSeq
    <3> QED
      BY <1>2, <3>1, ConcatEmptySeq DEF IsSeq
  <2> QED
    BY <2>1
<1> QED
  BY <1>1, <1>2, <1>3, <1>4, <1>5

\* An object is written, apart from its e elements.
LEMMA PutPromises ==
  ASSUME NEW fs, NEW b, NEW head, NEW of, NEW inner, NEW n, NEW k, NEW e,
         Ready(fs, b), IsSeq(head), Put(b, fs, head, of, inner, n),
         \A ref : IsObject(head \o (IF n = 0 THEN <<>> ELSE <<Body(of, inner, n, ref)>>), e),
         Prepared(sent, fs, b, k, e)
  PROVE  Awaited(sent', frames', buffer', k, 0)
<1> DEFINE long   == n > ReferenceThreshold
           ref    == IF long /\ ~ b.io THEN issued + 1 ELSE 0
           body   == IF n = 0 THEN <<>> ELSE <<Body(of, inner, n, ref)>>
           headed == b.bytes \o head
           all    == headed \o body
           Cuts   == IF ~ b.io THEN {0}
                     ELSE IF long /\ head[1].h = "str" /\ Data[of].k # "bin"
                          THEN {Len(headed)}
                     ELSE IF long THEN {Len(headed), Len(all)}
                     ELSE {0, Len(b.bytes), Len(headed)}
<1>1. \/ frames' = fs /\ \E cut \in Cuts : Split(b, all, cut)
      \/ /\ b.io
         /\ \E s \in {b.bytes, headed} : \E cut \in 0 .. Len(s) :
              Raise(fs, [b EXCEPT !.bytes = SubSeq(s, cut + 1, Len(s))])
  BY DEF Put
<1>2. /\ IsSeq(fs) /\ IsSeq(b.bytes) /\ IsSeq(sent) /\ b.io \in BOOLEAN
      /\ b = [bytes |-> b.bytes, io |-> b.io, clean |-> b.clean]
      /\ b.io => NoRec(fs, 1, Len(fs))
  BY DEF Ready, Sound, IsBuffer
<1>3. IsObject(head \o body, e)
  OBVIOUS
<1>4. IsSeq(body)
  <2>1. CASE n = 0
    <3>1. body = <<>>
      BY <2>1
    <3> QED
      BY <3>1, OneIs
  <2>2. CASE n # 0
    <3>1. body = <<Body(of, inner, n, ref)>>
      BY <2>2
    <3> HIDE DEF ref
    <3> QED
      BY <3>1, OneIs
  <2> QED
    BY <2>1, <2>2
<1> HIDE DEF body, ref, long
<1>5. /\ IsSeq(headed) /\ Len(headed) = Len(b.bytes) + Len(head)
      /\ Len(b.bytes) \in Nat /\ Len(head) \in Nat /\ Len(body) \in Nat
  BY <1>2, <1>4, ConcatIs, SeqFacts
<1>6. IsSeq(all) /\ Len(all) = Len(headed) + Len(body)
  <2> HIDE DEF headed
  <2>1. IsSeq(headed) /\ IsSeq(body)
    BY <1>4, <1>5
  <2> QED
    BY <2>1, ConcatIs
<1>7. sent \o all = (sent \o b.bytes) \o (head \o body)
  <2>1. all = b.bytes \o (head \o body)
    <3> DEFINE c == b.bytes
    <3>1. IsSeq(c) /\ IsSeq(head) /\ IsSeq(body)
      BY <1>2, <1>4
    <3> HIDE DEF c
    <3>2. (c \o head) \o body = c \o (head \o body)
      BY ONLY <3>1, ConcatTwice
    <3> QED
      BY <3>2 DEF c
  <2>2. IsSeq(head \o body)
    BY <1>4, ConcatIs
  <2> DEFINE x == head \o body
             y == b.bytes
  <2>3. (sent \o b.bytes) \o x = sent \o (b.bytes \o x)
    <3>1. IsSeq(x) /\ IsSeq(sent) /\ IsSeq(b.bytes)
      BY <1>2, <2>2
    <3>2. (sent \o y) \o x = sent \o (y \o x)
      <4>1. IsSeq(x) /\ IsSeq(sent) /\ IsSeq(y)
        BY <3>1
      <4> HIDE DEF x, y
      <4> QED
        BY ONLY <4>1, ConcatTwice
    <3> QED
      BY <3>2
  <2> QED
    BY <2>1, <2>3
<1>8. \A cut \in Cuts : cut \in 0 .. Len(all) /\ (~ b.io => cut = 0)
  <2> HIDE DEF all, headed
  <2> QED
    BY <1>2, <1>5, <1>6
<1> HIDE DEF Cuts, all, headed
<1>9. CASE frames' = fs /\ \E cut \in Cuts : Split(b, all, cut)
  <2>1. PICK cut \in Cuts : Split(b, all, cut)
    BY <1>9
  <2>2. /\ sent' \o buffer'.bytes = sent \o all
        /\ cut = 0 => sent' = sent
        /\ buffer'.clean = b.clean
    BY <1>2, <1>6, <1>8, <2>1, SplitIs
  <2>3. CASE NoRec(fs, 1, Len(fs))
    <3>1. Restored(fs, 1, buffer') = buffer'
      BY <1>2, <2>3, RestoredIs
    <3>2. ASSUME b.clean
          PROVE  \E m \in Nat : Owed(fs, m) /\ Awaits(sent \o all, k, m + 0)
      <4>1. PICK m \in Nat : Owed(fs, m + e) /\ Awaits(sent \o b.bytes, k, m + 1)
        BY <2>3, <3>2 DEF Prepared
      <4>2. Awaits((sent \o b.bytes) \o (head \o body), k, m + e)
        BY ONLY <1>3, <4>1, m \in Nat, AwaitsObject
      <4>3. e \in Nat
        BY <1>3 DEF IsObject
      <4> DEFINE l == m + e
      <4>4. l \in Nat /\ l + 0 = l
        BY <4>3
      <4>5. Owed(fs, l) /\ Awaits(sent \o all, k, l)
        BY <1>7, <4>1, <4>2
      <4> HIDE DEF l
      <4> QED
        BY <4>4, <4>5
    <3> QED
      BY <1>9, <2>2, <3>1, <3>2 DEF Awaited
  <2>4. CASE ~ NoRec(fs, 1, Len(fs))
    <3>1. sent' = sent
      BY <1>2, <1>8, <2>1, <2>2, <2>4
    <3>2. PICK i : FirstRec(fs, 1, i)
      BY <1>2, <2>4, RestoredIs
    <3>3. Restored(fs, 1, buffer') = Restored(fs, 1, b)
      BY <1>2, <3>2, RestoredIs
    <3>4. Awaited(sent, fs, b, k, 0)
      BY <2>4 DEF Prepared
    <3> QED
      BY <1>9, <3>1, <3>3, <3>4 DEF Awaited
  <2> QED
    BY <2>3, <2>4
<1>10. CASE /\ b.io
            /\ \E s \in {b.bytes, headed} : \E cut \in 0 .. Len(s) :
                 Raise(fs, [b EXCEPT !.bytes = SubSeq(s, cut + 1, Len(s))])
  <2>1. PICK rest : Raise(fs, [b EXCEPT !.bytes = rest])
    BY <1>10
  <2> DEFINE c == [b EXCEPT !.bytes = rest]
  <2>2. c = [bytes |-> rest, io |-> b.io, clean |-> b.clean]
    BY <1>2, OtherBytes
  <2>3. Raise(fs, c)
    BY <2>1
  <2> HIDE DEF c
  <2>4. c = [bytes |-> c.bytes, io |-> c.io, clean |-> c.clean]
    BY <2>2
  <2> QED
    BY <1>2, <1>10, <2>3, <2>4, RaiseUnclean
<1> QED
  BY <1>1, <1>9, <1>10

-----------------------------------------------------------------------------
(* msgpack_packer_write_value writes one object, or leaves it to the stack. *)

\* A frame is put on top that owes the object that is due.
LEMMA PushPromises ==
  ASSUME NEW fs, IsSeq(fs), NEW f, NEW b, NEW c, NEW s, NEW k,
         Left(f) = 1, f.k = "rec" => f.parent = b, f.k # "rec" => c = b,
         Awaited(s, fs, b, k, Due(fs))
  PROVE  Awaited(s, Append(fs, f), c, k, 0)
<1> DEFINE g == Append(fs, f)
           o == Restored(fs, 1, b)
<1>1. Restored(g, 1, c) = o
  BY RestoredPush
<1>2. ASSUME NEW m \in Nat, Owed(fs, m), Awaits(s \o o.bytes, k, m + Due(fs))
      PROVE  \E l \in Nat : Owed(g, l) /\ Awaits(s \o o.bytes, k, l + 0)
  <2>1. /\ NoRec(fs, 1, Len(fs)) => Owed(g, m + 1)
        /\ ~ NoRec(fs, 1, Len(fs)) => Owed(g, m)
    BY <1>2, OwedPush
  <2> HIDE DEF g, o
  <2>2. CASE NoRec(fs, 1, Len(fs))
    <3> DEFINE l == m + 1
    <3>1. l \in Nat /\ l + 0 = l /\ Due(fs) = 1
      BY <2>2 DEF Due
    <3>2. Owed(g, l) /\ Awaits(s \o o.bytes, k, l)
      BY <1>2, <2>1, <2>2, <3>1
    <3> HIDE DEF l
    <3> QED
      BY <3>1, <3>2
  <2>3. CASE ~ NoRec(fs, 1, Len(fs))
    <3>1. m + 0 = m /\ Due(fs) = 0
      BY <2>3 DEF Due
    <3> QED
      BY <1>2, <2>1, <2>3, <3>1
  <2> QED
    BY <2>2, <2>3
<1>3. o.clean => \E m \in Nat : Owed(fs, m) /\ Awaits(s \o o.bytes, k, m + Due(fs))
  BY DEF Awaited
<1> HIDE DEF g, o
<1>4. Awaited(s, g, c, k, 0)
  BY <1>1, <1>2, <1>3 DEF Awaited
<1> QED
  BY <1>4 DEF g

LEMMA CallPromises ==
  ASSUME NEW fs, Ready(fs, buffer), NEW k \in Ruby, NEW v, NEW n,
         k = "user" => Len(inside[v]) = 1,
         Call(k, v, fs), Awaited(sent, fs, buffer, n, Due(fs))
  PROVE  Awaited(sent', frames', buffer', n, 0)
<1>1. IsSeq(fs) /\ sent' = sent
  BY DEF Ready, Sound, Call
<1> DEFINE e == Frame(k, v)
           f == [e EXCEPT !.parent = buffer, !.held = Hold(buffer)]
<1>2. /\ e = [k |-> k, v |-> v, at |-> 0, len |-> Len(inside[v]), todo |-> <<>>,
              parent |-> Fresh, held |-> {}]
      /\ e.k = k /\ e.at = 0 /\ e.len = Len(inside[v])
  BY DEF Frame
<1>3. k = "rec" => frames' = Append(fs, f)
  BY DEF Call
<1>4. k # "rec" => frames' = Append(fs, e) /\ buffer' = buffer
  BY DEF Call
<1> HIDE DEF e
<1>5. CASE k = "rec"
  <2>1. e = AsFrame(e)
    <3>1. e.v = v /\ e.todo = <<>> /\ e.parent = Fresh /\ e.held = {}
      BY <1>2
    <3> QED
      BY <1>2, <3>1 DEF AsFrame
  <2>2. f = [k |-> e.k, v |-> e.v, at |-> e.at, len |-> e.len, todo |-> e.todo,
             parent |-> buffer, held |-> Hold(buffer)]
    BY <2>1, PutAsideIs
  <2> HIDE DEF f
  <2>3. f.k = "rec" /\ f.parent = buffer
    BY <1>2, <1>5, <2>2
  <2>4. Left(f) = 1
    BY <2>3 DEF Left
  <2> QED
    BY <1>1, <1>3, <1>5, <2>3, <2>4, PushPromises
<1>6. CASE k # "rec"
  <2>1. Left(e) = 1
    <3>1. k = "user" => e.len - e.at = 1
      BY <1>2
    <3> QED
      BY <1>2, <1>6, <3>1 DEF Left, Ruby
  <2> QED
    BY <1>1, <1>2, <1>4, <1>6, <2>1, PushPromises
<1> QED
  BY <1>5, <1>6

LEMMA RefusePromises ==
  ASSUME NEW fs, Ready(fs, buffer), Refuse(fs), NEW n,
         Awaited(sent, fs, buffer, n, Due(fs))
  PROVE  Awaited(sent', frames', buffer', n, 0)
<1>1. Sound(fs, buffer, inside, issued, dead) /\ Raise(fs, buffer) /\ sent' = sent
  BY DEF Ready, Refuse
<1>2. ~ NoRec(fs, 1, Len(fs)) => Due(fs) = 0
  BY DEF Due
<1> QED
  BY <1>1, <1>2, RaisePromises

\* An object without elements.
LEMMA PutSimple ==
  ASSUME NEW fs, NEW b, NEW head, NEW of, NEW inner, NEW n, NEW k,
         Ready(fs, b), IsSeq(head), Put(b, fs, head, of, inner, n),
         \A ref : IsObject(head \o (IF n = 0 THEN <<>> ELSE <<Body(of, inner, n, ref)>>), 0),
         Awaited(sent, fs, b, k, Due(fs))
  PROVE  Awaited(sent', frames', buffer', k, 0)
<1>1. IsSeq(fs)
  BY DEF Ready, Sound
<1>2. Prepared(sent, fs, b, k, 0)
  BY <1>1, PreparedSimple
<1> QED
  BY <1>2, PutPromises

\* A head that says n, and a body of n bytes.
LEMMA PutRaw ==
  ASSUME NEW fs, NEW b, NEW head, NEW of, NEW inner, NEW n \in Nat, NEW k,
         Ready(fs, b), Put(b, fs, head, of, inner, n),
         NEW kind \in {"str", "bin", "ext"}, Says(head, kind, n),
         Awaited(sent, fs, b, k, Due(fs))
  PROVE  Awaited(sent', frames', buffer', k, 0)
<1>1. IsSeq(head)
  BY DEF Says, Heads, Typed
<1>2. ASSUME NEW ref
      PROVE  IsObject(head \o (IF n = 0 THEN <<>> ELSE <<Body(of, inner, n, ref)>>), 0)
  <2> DEFINE y == IF n = 0 THEN <<>> ELSE <<Body(of, inner, n, ref)>>
  <2>1. y = IF n = 0 THEN <<>> ELSE <<Body(of, inner, n, ref)>>
    OBVIOUS
  <2> HIDE DEF y
  <2>2. IsObject(head \o y, 0)
    BY <2>1, RawObject
  <2> QED
    BY <2>2 DEF y
<1> QED
  BY <1>1, <1>2, PutSimple

\* A head alone.
LEMMA PutHead ==
  ASSUME NEW fs, NEW b, NEW head, NEW of, NEW k, Ready(fs, b),
         Put(b, fs, head, of, <<>>, 0), NEW kind \in {"nil", "int", "float"},
         Heads(head, kind), Awaited(sent, fs, b, k, Due(fs))
  PROVE  Awaited(sent', frames', buffer', k, 0)
<1>1. IsSeq(head)
  BY DEF Heads, Typed
<1>2. IsObject(head, 0)
  BY SimpleObject
<1>3. head \o <<>> = head
  BY <1>1, ConcatEmptySeq DEF IsSeq
<1>4. ASSUME NEW ref
      PROVE  IsObject(head \o (IF 0 = 0 THEN <<>> ELSE <<Body(of, <<>>, 0, ref)>>), 0)
  BY <1>2, <1>3
<1> QED
  BY <1>1, <1>4, PutSimple

LEMMA BeginPromises ==
  ASSUME NEW fs, Ready(fs, buffer), InsideInv(inside),
         NEW k \in {"array", "hash", "user"}, NEW v, Suits(k, v),
         NEW h \in {"array", "map"}, NEW n \in Nat,
         Len(inside[v]) = IF h = "map" THEN 2 * n ELSE n,
         Begin(k, v, h, n, fs), NEW c, Awaited(sent, fs, buffer, c, Due(fs))
  PROVE  Awaited(sent', frames', buffer', c, 0)
<1> DEFINE f  == Frame(k, v)
           gs == Append(fs, f)
           e  == IF h = "map" THEN 2 * n ELSE n
<1>0. CASE n >= Limit(4)
  BY <1>0, RefusePromises DEF Begin
<1>1. /\ Sound(fs, buffer, inside, issued, dead) /\ issued \in Nat /\ IsSeq(fs)
      /\ use \in Uses /\ raises \in 0 .. use.raises /\ exact \in BOOLEAN
      /\ dead \subseteq 1 .. issued /\ IsSeq(sent) /\ Len(fs) \in Nat
  BY SeqFacts DEF Ready, Sound
<1>2. /\ IsFrame(f, inside, issued) /\ f.k = k /\ f.k # "rec"
      /\ References(f.parent.bytes) \cap dead = {}
  BY <1>1, FrameIs
<1>3. e \in Nat /\ Left(f) = e
  <2>1. f.k = k /\ f.at = 0 /\ f.len = e /\ f.todo = <<>>
    BY DEF Frame
  <2>2. e \in Nat /\ Len(<<>>) = 0
    OBVIOUS
  <2> HIDE DEF f, e
  <2> QED
    BY <2>1, <2>2 DEF Left
<1> HIDE DEF f
<1>4. /\ Sound(gs, buffer, inside, issued, dead)
      /\ Restored(gs, 1, buffer) = Restored(fs, 1, buffer)
  <2>1. /\ Sound(fs, buffer, inside, issued, dead) /\ issued \in Nat
        /\ IsFrame(f, inside, issued) /\ f.k # "rec"
        /\ References(f.parent.bytes) \cap dead = {}
    BY <1>1, <1>2
  <2>2. Sound(gs, buffer, inside, issued, dead)
    BY ONLY <2>1, PushPlain
  <2>3. Restored(gs, 1, buffer) = Restored(fs, 1, buffer)
    BY <1>1, <2>1, RestoredPush
  <2> QED
    BY <2>2, <2>3
<1>5. NoRec(gs, 1, Len(gs)) <=> NoRec(fs, 1, Len(fs))
  <2>1. Len(gs) = Len(fs) + 1 /\ gs[Len(fs) + 1] = f /\ \A i \in 1 .. Len(fs) : gs[i] = fs[i]
    BY <1>1, AppendIs
  <2> HIDE DEF gs
  <2> QED
    BY <1>1, <1>2, <2>1 DEF NoRec
<1>6. CASE ~ (n >= Limit(4))
  <2>1. Put(buffer, gs, CountHeader(h, n), v, <<>>, 0)
    BY <1>6 DEF Begin, f
  <2>2. n < Limit(4)
    <3>1. Limit(4) \in Nat /\ n \in Nat
      BY LimitsAre
    <3> QED
      BY ONLY <1>6, <3>1
  <2>3. Says(CountHeader(h, n), h, n)
    BY <2>2, CountHeaderSays
  <2>4. IsObject(CountHeader(h, n), e) /\ IsSeq(CountHeader(h, n))
    BY <2>3, CountObject DEF Says, Heads, Typed
  <2>5. CountHeader(h, n) \o <<>> = CountHeader(h, n)
    BY <2>4, ConcatEmptySeq DEF IsSeq
  <2>6. Ready(gs, buffer)
    BY <1>1, <1>4 DEF Ready
  <2>7. ASSUME NEW m, Owed(fs, m)
        PROVE  /\ NoRec(fs, 1, Len(fs)) => Owed(gs, m + e)
               /\ ~ NoRec(fs, 1, Len(fs)) => Owed(gs, m)
    <3>1. Left(f) \in Nat
      BY <1>3
    <3> HIDE DEF e
    <3> QED
      BY <1>1, <1>3, <2>7, <3>1, OwedPush
  <2> HIDE DEF gs, e
  <2>8. Prepared(sent, gs, buffer, c, e)
    <3>1. CASE NoRec(fs, 1, Len(fs))
      <4>1. Restored(fs, 1, buffer) = buffer /\ Due(fs) = 1
        BY <1>1, <3>1, RestoredIs DEF Due
      <4> QED
        BY <1>5, <2>7, <3>1, <4>1 DEF Prepared, Awaited
    <3>2. CASE ~ NoRec(fs, 1, Len(fs))
      <4>1. Due(fs) = 0
        BY <3>2 DEF Due
      <4>2. Awaited(sent, gs, buffer, c, 0)
        BY <1>4, <2>7, <3>2, <4>1 DEF Awaited
      <4> QED
        BY <1>5, <3>2, <4>2 DEF Prepared
    <3> QED
      BY <3>1, <3>2
  <2>9. ASSUME NEW ref
        PROVE  IsObject(CountHeader(h, n)
                          \o (IF 0 = 0 THEN <<>> ELSE <<Body(v, <<>>, 0, ref)>>), e)
    BY <2>4, <2>5
  <2> QED
    BY <2>1, <2>4, <2>6, <2>8, <2>9, PutPromises
<1> QED
  BY <1>0, <1>6

LEMMA TextPromises ==
  ASSUME NEW v, NEW n \in Nat, NEW fs, Ready(fs, buffer), Text(v, n, fs), NEW c,
         Awaited(sent, fs, buffer, c, Due(fs))
  PROVE  Awaited(sent', frames', buffer', c, 0)
<1>1. CASE n >= Limit(4)
  BY <1>1, RefusePromises DEF Text
<1>2. CASE ~ (n >= Limit(4))
  <2> DEFINE binary == Data[v].k = "binhead" \/ (Data[v].k = "bin" /\ ~ use.compat)
  <2>1. Put(buffer, fs, IF binary THEN BinHeader(n) ELSE RawHeader(n, use.compat), v, <<>>, n)
    BY <1>2 DEF Text
  <2> HIDE DEF binary
  <2>2. n < Limit(4)
    BY <1>2, LimitsAre
  <2>3. Says(BinHeader(n), "bin", n) /\ Says(RawHeader(n, use.compat), "str", n)
    BY <2>2, BinHeaderSays, RawHeaderSays
  <2>4. CASE binary
    <3>1. Put(buffer, fs, BinHeader(n), v, <<>>, n) /\ "bin" \in {"str", "bin", "ext"}
      BY <2>1, <2>4
    <3> QED
      BY <2>3, <3>1, PutRaw
  <2>5. CASE ~ binary
    <3>1. Put(buffer, fs, RawHeader(n, use.compat), v, <<>>, n)
          /\ "str" \in {"str", "bin", "ext"}
      BY <2>1, <2>5
    <3> QED
      BY <2>3, <3>1, PutRaw
  <2> QED
    BY <2>4, <2>5
<1> QED
  BY <1>1, <1>2

\* An extension whose payload has a length that fits into its head.
LEMMA PutExtension ==
  ASSUME NEW fs, NEW b, NEW n \in 0 .. Limit(4) - 1, NEW type \in ExtTypes, NEW of,
         NEW inner, NEW c, Ready(fs, b), Put(b, fs, ExtHeader(n, type), of, inner, n),
         Awaited(sent, fs, b, c, Due(fs))
  PROVE  Awaited(sent', frames', buffer', c, 0)
<1>1. n \in Nat /\ n < Limit(4)
  BY LimitsAre
<1>2. Says(ExtHeader(n, type), "ext", n) /\ "ext" \in {"str", "bin", "ext"}
  BY <1>1, ExtHeaderSays
<1> QED
  BY <1>1, <1>2, PutRaw

\* The lengths of the payloads of the extensions that are written as they are.
SizesFit == \A v \in Object : Data[v].k = "ext" => Data[v].size < Limit(4)

LEMMA ExtensionPromises ==
  ASSUME NEW v \in Object, Data[v].k = "ext", SizesFit, NEW fs, Ready(fs, buffer),
         WriteExtension(v, fs), NEW c, Awaited(sent, fs, buffer, c, Due(fs))
  PROVE  Awaited(sent', frames', buffer', c, 0)
<1> DEFINE n == Data[v].size
           type == Data[v].type
<1>1. n \in Nat /\ n < Limit(4)
  BY PackerAssumption DEF SizesFit
<1>2. n \in 0 .. Limit(4) - 1
  BY <1>1, LimitsAre
<1>3. CASE type \notin ExtTypes
  BY <1>3, RefusePromises DEF WriteExtension
<1>4. CASE type \in ExtTypes
  <2>1. Put(buffer, fs, ExtHeader(n, type), v, <<>>, n)
    BY <1>4 DEF WriteExtension
  <2> HIDE DEF n, type
  <2> QED
    BY <1>2, <1>4, <2>1, PutExtension
<1> QED
  BY <1>3, <1>4

LEMMA WriteValuePromises ==
  ASSUME NEW v \in Object, SizesFit, NEW fs, Ready(fs, buffer), InsideInv(inside),
         WriteValue(v, fs), NEW c, Awaited(sent, fs, buffer, c, Due(fs))
  PROVE  Awaited(sent', frames', buffer', c, 0)
<1> DEFINE d == Data[v]
<1>1. /\ d.k \in ObjectKinds /\ d.n \in Int
      /\ d.k \in {"str", "bin", "binhead", "sym"} => d.n \in Nat
  BY PackerAssumption
<1>2. /\ d.k \in {"array", "hash"} => Suits(d.k, v)
      /\ d.k \notin {"array", "hash", "ext"} => Suits("user", v)
  BY DEF Suits, Ruby, Writing
<1>3. CASE d.k = "nil"
  <2>1. Put(buffer, fs, Fix("nil", 0), v, <<>>, 0)
    BY <1>3, WriteValueIs
  <2>2. "nil" \in Families \ {"ext"} /\ Kind("nil") = "nil" /\ "nil" \notin {"array", "map"}
    BY DEF Families, Kind
  <2>3. Says(Fix("nil", 0), "nil", 0)
    BY <2>2, FixSays
  <2>4. Heads(Fix("nil", 0), "nil") /\ "nil" \in {"nil", "int", "float"}
    BY <2>3 DEF Says
  <2> QED
    BY <2>1, <2>4, PutHead
<1>4. CASE d.k \in {"float", "float32"}
  <2>1. \/ Put(buffer, fs, WriteDouble(d.n), v, <<>>, 0)
        \/ Put(buffer, fs, WriteFloat(d.n), v, <<>>, 0)
    BY <1>4, WriteValueIs
  <2>2. /\ Heads(WriteDouble(d.n), "float") /\ Heads(WriteFloat(d.n), "float")
        /\ "float" \in {"nil", "int", "float"}
    BY <1>1, FloatHeads
  <2> QED
    BY <2>1, <2>2, PutHead
<1>5. CASE d.k = "int"
  <2>1. \/ ~ IsBig(d.n) /\ Put(buffer, fs, WriteLong(d.n), v, <<>>, 0)
        \/ Call("plain", v, fs) \/ Refuse(fs)
    BY <1>5, WriteValueIs
  <2>2. CASE ~ IsBig(d.n) /\ Put(buffer, fs, WriteLong(d.n), v, <<>>, 0)
    <3>1. Says(WriteLong(d.n), "int", d.n)
      BY <1>1, <2>2, WriteLongSays
    <3>2. Heads(WriteLong(d.n), "int") /\ "int" \in {"nil", "int", "float"}
      BY <3>1 DEF Says
    <3> QED
      BY <2>2, <3>2, PutHead
  <2>3. "plain" \in Ruby /\ "plain" # "user"
    BY DEF Ruby
  <2> QED
    BY <2>1, <2>2, <2>3, CallPromises, RefusePromises
<1>6. CASE d.k \in {"time", "sym", "str", "bin", "binhead"}
  <2>1. Call("plain", v, fs) \/ (d.k # "time" /\ Text(v, d.n, fs))
    BY <1>6, WriteValueIs
  <2>2. "plain" \in Ruby /\ "plain" # "user"
    BY DEF Ruby
  <2>3. d.k # "time" => d.n \in Nat
    BY <1>1, <1>6
  <2> QED
    BY <2>1, <2>2, <2>3, CallPromises, TextPromises
<1>7. CASE d.k = "ext"
  BY <1>7, WriteValueIs, ExtensionPromises
<1>8. CASE d.k \in {"array", "hash", "rows", "pairs"}
  <2> DEFINE s == inside[v]
             n == Len(s)
  <2>1. \/ d.k = "array" /\ Begin("array", v, "array", n, fs)
        \/ d.k = "hash" /\ Begin("hash", v, "map", n \div 2, fs)
        \/ d.k = "rows" /\ Begin("user", v, "array", n, fs)
        \/ d.k = "pairs" /\ Begin("user", v, "map", n \div 2, fs)
    BY <1>8, WriteValueIs
  <2>2. s \in Seq(Object) /\ (d.k \in {"hash", "pairs"} => n % 2 = 0)
    BY PackerAssumption DEF InsideInv
  <2>3. n \in Nat
    <3> HIDE DEF s
    <3> QED
      BY <2>2
  <2>4. n = Len(inside[v])
    OBVIOUS
  <2> HIDE DEF n
  <2>5. n \div 2 \in Nat /\ (d.k \in {"hash", "pairs"} => n = 2 * (n \div 2))
    <3>1. n \div 2 \in Nat /\ (n % 2 = 0 => n = 2 * (n \div 2))
      BY ONLY <2>3
    <3> QED
      BY <2>2, <3>1
  <2>6. CASE d.k = "array" /\ Begin("array", v, "array", n, fs)
    BY <1>2, <2>3, <2>4, <2>6, BeginPromises
  <2>7. CASE d.k = "hash" /\ Begin("hash", v, "map", n \div 2, fs)
    BY <1>2, <2>4, <2>5, <2>7, BeginPromises
  <2>8. CASE d.k = "rows" /\ Begin("user", v, "array", n, fs)
    BY <1>2, <2>3, <2>4, <2>8, BeginPromises
  <2>9. CASE d.k = "pairs" /\ Begin("user", v, "map", n \div 2, fs)
    BY <1>2, <2>4, <2>5, <2>9, BeginPromises
  <2> QED
    BY <2>1, <2>6, <2>7, <2>8, <2>9
<1>9. CASE d.k \in Ruby
  <2>1. Call(d.k, v, fs)
    BY <1>9, WriteValueIs
  <2>2. d.k = "user" => Len(inside[v]) = 1
    BY PackerAssumption DEF InsideInv
  <2> QED
    BY <1>9, <2>1, <2>2, CallPromises
<1>10. CASE d.k = "unknown"
  BY <1>10, WriteValueIs, RefusePromises
<1> QED
  BY <1>1, <1>3, <1>4, <1>5, <1>6, <1>7, <1>8, <1>9, <1>10 DEF ObjectKinds, Ruby

-----------------------------------------------------------------------------
(* The steps keep the promise. *)

\* Without a recursive type on the stack the owner's buffer is the one on top;
\* with one it is the same whatever is on top.
LEMMA RestoredTop ==
  ASSUME NEW fs, IsSeq(fs)
  PROVE  /\ NoRec(fs, 1, Len(fs)) => \A b : Restored(fs, 1, b) = b
         /\ ~ NoRec(fs, 1, Len(fs)) => \A b, c : Restored(fs, 1, b) = Restored(fs, 1, c)
<1>1. NoRec(fs, 1, Len(fs)) => \A b : Restored(fs, 1, b) = b
  BY RestoredIs
<1>2. ASSUME ~ NoRec(fs, 1, Len(fs)), NEW b, NEW c
      PROVE  Restored(fs, 1, b) = Restored(fs, 1, c)
  <2>1. PICK i : FirstRec(fs, 1, i)
    BY <1>2, RestoredIs
  <2>2. Restored(fs, 1, b) = fs[i].parent /\ Restored(fs, 1, c) = fs[i].parent
    BY <2>1, RestoredIs
  <2> QED
    BY <2>2
<1> QED
  BY <1>1, <1>2

\* The frame on top has gone on: one object is due, if the buffer is the owner's.
LEMMA CallerPromises ==
  ASSUME Ready(frames, buffer), frames # <<>>,
         NEW g, IsFrame(g, inside, issued), g.k = Top.k, g.parent = Top.parent,
         Top.k # "rec" => Left(Top) = Left(g) + 1,
         NEW c, Awaited(sent, frames, buffer, c, 0)
  PROVE  Awaited(sent, Caller(g), buffer, c, Due(Caller(g)))
<1> DEFINE h  == Front(frames)
           gs == Append(h, g)
           n  == Len(frames) - 1
           s  == sent \o Owners.bytes
<1>1. /\ IsSeq(frames) /\ n \in Nat /\ Len(frames) = n + 1 /\ Top = frames[n + 1]
      /\ h = SubSeq(frames, 1, n) /\ n \in 0 .. Len(frames)
  BY TopIs
<1>2. IsSeq(h) /\ Len(h) = n /\ \A i \in 1 .. n : h[i] = frames[i]
  BY <1>1, CutIs
<1>3. Restored(gs, 1, buffer) = Owners
  BY CallerReady DEF Caller
<1>4. Left(g) \in Nat
  BY LeftIs
<1>5. IsSeq(gs) /\ Len(gs) = n + 1 /\ gs[n + 1] = g /\ \A i \in 1 .. n : gs[i] = h[i]
  BY <1>2, AppendIs
<1> HIDE DEF gs, h, n
<1>6. NoRec(gs, 1, n + 1) <=> NoRec(h, 1, n) /\ g.k # "rec"
  BY <1>1, <1>5 DEF NoRec
<1>7. ASSUME NEW m \in Nat, Owed(frames, m), Awaits(s, c, m + 0)
      PROVE  \E l \in Nat : Owed(gs, l) /\ Awaits(s, c, l + Due(gs))
  <2>1. /\ ~ NoRec(h, 1, n) => Owed(h, m)
        /\ NoRec(h, 1, n) => Without(h, m, Left(Top))
    <3>1. /\ IsSeq(frames) /\ n \in Nat /\ Len(frames) = n + 1 /\ h = SubSeq(frames, 1, n)
          /\ Owed(frames, m) /\ Top = frames[n + 1]
      BY <1>1, <1>7
    <3> QED
      BY ONLY <3>1, OwedPop
  <2>2. CASE ~ NoRec(h, 1, n)
    <3>1. Owed(gs, m)
      BY <1>2, <1>4, <2>1, <2>2, OwedPush DEF gs
    <3>2. Due(gs) = 0
      BY <1>5, <1>6, <2>2 DEF Due
    <3> QED
      BY <1>7, <3>1, <3>2
  <2>3. CASE NoRec(h, 1, n)
    <3>1. PICK l \in Nat : Owed(h, l) /\ m = l + Left(Top)
      BY <2>1, <2>3 DEF Without
    <3> DEFINE o == l + Left(g)
    <3>2. Owed(gs, o) /\ o \in Nat
      BY <1>2, <1>4, <2>3, <3>1, OwedPush DEF gs
    <3>3. o + Due(gs) = m + 0
      <4>1. CASE g.k = "rec"
        <5>1. Due(gs) = 0 /\ Left(g) = 1 /\ Left(Top) = 1
          BY <1>5, <1>6, <4>1 DEF Due, Left
        <5> QED
          BY <3>1, <5>1
      <4>2. CASE g.k # "rec"
        <5>1. Due(gs) = 1 /\ Left(Top) = Left(g) + 1
          BY <1>5, <1>6, <2>3, <4>2 DEF Due
        <5> QED
          BY <1>4, <3>1, <5>1
      <4> QED
        BY <4>1, <4>2
    <3> HIDE DEF o
    <3> QED
      BY <1>7, <3>2, <3>3
  <2> QED
    BY <2>2, <2>3
<1>8. Owners.clean => \E m \in Nat : Owed(frames, m) /\ Awaits(s, c, m + 0)
  BY DEF Awaited, Owners
<1> HIDE DEF s
<1>9. Owners.clean => \E l \in Nat : Owed(gs, l) /\ Awaits(s, c, l + Due(gs))
  BY <1>7, <1>8
<1>10. Awaited(sent, gs, buffer, c, Due(gs))
  BY <1>3, <1>9 DEF Awaited, s
<1> QED
  BY <1>10 DEF gs, h, Caller

LEMMA ContinuePromises ==
  ASSUME Ready(frames, buffer), InsideInv(inside), SizesFit, Continue,
         NEW c, Awaited(sent, frames, buffer, c, 0)
  PROVE  Awaited(sent', frames', buffer', c, 0)
<1>1. frames # <<>> /\ Advances
  BY ContinueIs
<1>2. PICK g, v : /\ IsFrame(g, inside, issued) /\ g.k = Top.k /\ g.parent = Top.parent
                  /\ v \in Object /\ WriteValue(v, Caller(g))
                  /\ Top.k # "rec" => Left(Top) = Left(g) + 1
  BY <1>1 DEF Advances
<1>3. Ready(Caller(g), buffer)
  BY <1>1, <1>2, CallerReady
<1>4. Awaited(sent, Caller(g), buffer, c, Due(Caller(g)))
  BY <1>1, <1>2, CallerPromises
<1> DEFINE gs == Caller(g)
<1>5. Ready(gs, buffer) /\ WriteValue(v, gs) /\ Awaited(sent, gs, buffer, c, Due(gs))
  BY <1>2, <1>3, <1>4
<1> HIDE DEF gs
<1> QED
  BY <1>2, <1>5, WriteValuePromises

\* The frame on top is gone, and x objects that it owed.
LEMMA PopPromises ==
  ASSUME Ready(frames, buffer), frames # <<>>, NEW x \in Nat,
         NEW b, b = Restored(frames, Len(frames), buffer),
         NEW c, Awaited(sent, frames, buffer, c, 0),
         NoRec(Front(frames), 1, Len(Front(frames))) => Left(Top) = x
  PROVE  Awaited(sent, Front(frames), b, c,
                 IF NoRec(Front(frames), 1, Len(Front(frames))) THEN x ELSE 0)
<1> DEFINE h  == Front(frames)
           n  == Len(frames) - 1
           s  == sent \o Owners.bytes
           y  == IF NoRec(h, 1, Len(h)) THEN x ELSE 0
<1>1. /\ IsSeq(frames) /\ n \in Nat /\ Len(frames) = n + 1 /\ Top = frames[n + 1]
      /\ h = SubSeq(frames, 1, n) /\ n \in 0 .. Len(frames)
  BY TopIs
<1>2. Len(h) = n
  BY <1>1, CutIs
<1>3. Restored(h, 1, b) = Owners
  BY PopReady
<1> HIDE DEF h, n
<1>4. ASSUME NEW m \in Nat, Owed(frames, m), Awaits(s, c, m + 0)
      PROVE  \E l \in Nat : Owed(h, l) /\ Awaits(s, c, l + y)
  <2>1. /\ ~ NoRec(h, 1, n) => Owed(h, m)
        /\ NoRec(h, 1, n) => Without(h, m, Left(Top))
    <3>1. /\ IsSeq(frames) /\ n \in Nat /\ Len(frames) = n + 1 /\ h = SubSeq(frames, 1, n)
          /\ Owed(frames, m) /\ Top = frames[n + 1]
      BY <1>1, <1>4
    <3> QED
      BY ONLY <3>1, OwedPop
  <2>2. CASE ~ NoRec(h, 1, n)
    BY <1>2, <1>4, <2>1, <2>2
  <2>3. CASE NoRec(h, 1, n)
    <3>1. PICK l \in Nat : Owed(h, l) /\ m = l + Left(Top)
      BY <2>1, <2>3 DEF Without
    <3>2. y = x /\ Left(Top) = x
      BY <1>2, <2>3 DEF h
    <3>3. l + y = m + 0
      BY <3>1, <3>2
    <3> QED
      BY <1>4, <3>1, <3>3
  <2> QED
    BY <2>2, <2>3
<1>5. Owners.clean => \E m \in Nat : Owed(frames, m) /\ Awaits(s, c, m + 0)
  BY DEF Awaited, Owners
<1> HIDE DEF s, y
<1>6. Awaited(sent, h, b, c, y)
  BY <1>3, <1>4, <1>5 DEF Awaited, s
<1> QED
  BY <1>6 DEF h, y

\* A container is done: a hash has written what its head said, if the buffer is
\* still good.
LEMMA ReturnPlainlyPromises ==
  ASSUME Ready(frames, buffer), frames # <<>>, Done(Top), ReturnPlainly(Top),
         NEW c, Awaited(sent, frames, buffer, c, 0)
  PROVE  Awaited(sent', frames', buffer', c, 0)
<1> DEFINE h == Front(frames)
           done == Top.k = "hash" => Top.at = Top.len
<1>1. /\ Top.k \in {"array", "hash", "user"} /\ frames' = h /\ sent' = sent
      /\ buffer' = [buffer EXCEPT !.clean = buffer.clean /\ done]
  BY DEF ReturnPlainly
<1>2. /\ Ready(h, Restored(frames, Len(frames), buffer))
      /\ Restored(frames, Len(frames), buffer) = buffer
  BY <1>1, PopReady
<1> HIDE DEF h, done
<1>3. /\ IsSeq(h)
      /\ buffer = [bytes |-> buffer.bytes, io |-> buffer.io, clean |-> buffer.clean]
  BY <1>2 DEF Ready, Sound, IsBuffer
<1>4. buffer'.bytes = buffer.bytes /\ buffer'.clean = (buffer.clean /\ done)
  <2>1. buffer' = [bytes |-> buffer.bytes, io |-> buffer.io, clean |-> buffer.clean /\ done]
    BY <1>1, <1>3
  <2> QED
    BY <2>1
<1>5. IsFrame(Top, inside, issued)
  BY TopIs
<1>6. done => Left(Top) = 0
  <2>1. Top.len \in Nat /\ Top.at \in 0 .. Top.len
    BY <1>5 DEF IsFrame
  <2>2. CASE Top.k \in {"array", "user"}
    <3>1. Top.at >= Top.len
      BY <2>2 DEF Done, Writing
    <3> QED
      BY <2>1, <2>2, <3>1 DEF Left
  <2>3. CASE Top.k = "hash"
    <3>1. Top.todo = <<>>
      BY <2>3 DEF Done, Writing
    <3> QED
      BY <2>1, <2>3, <3>1 DEF Left, done
  <2> QED
    BY <1>1, <2>2, <2>3
<1>7. CASE done
  <2>1. Awaited(sent, h, buffer, c, IF NoRec(h, 1, Len(h)) THEN 0 ELSE 0)
    <3>1. NoRec(h, 1, Len(h)) => Left(Top) = 0
      BY <1>6, <1>7
    <3>2. 0 \in Nat
      OBVIOUS
    <3> QED
      BY <1>2, <3>1, <3>2, PopPromises DEF h
  <2>2. Awaited(sent, h, buffer, c, 0)
    BY <2>1
  <2>3. buffer'.clean => buffer.clean
    BY <1>4
  <2>4. /\ Restored(h, 1, buffer').bytes = Restored(h, 1, buffer).bytes
        /\ Restored(h, 1, buffer').clean => Restored(h, 1, buffer).clean
    <3>1. CASE NoRec(h, 1, Len(h))
      <4>1. Restored(h, 1, buffer') = buffer' /\ Restored(h, 1, buffer) = buffer
        BY <1>3, <3>1, RestoredTop
      <4> QED
        BY <1>4, <2>3, <4>1
    <3>2. CASE ~ NoRec(h, 1, Len(h))
      <4>1. Restored(h, 1, buffer') = Restored(h, 1, buffer)
        BY <1>3, <3>2, RestoredTop
      <4> QED
        BY <4>1
    <3> QED
      BY <3>1, <3>2
  <2> QED
    BY <1>1, <2>2, <2>4 DEF Awaited
<1>8. CASE ~ done
  <2>1. CASE NoRec(h, 1, Len(h))
    <3>1. Restored(h, 1, buffer') = buffer'
      BY <1>3, <2>1, RestoredIs
    <3>2. ~ buffer'.clean
      BY <1>4, <1>8
    <3> QED
      BY <1>1, <3>1, <3>2 DEF Awaited
  <2>2. CASE ~ NoRec(h, 1, Len(h))
    <3>1. Awaited(sent, h, buffer, c, IF NoRec(h, 1, Len(h)) THEN 0 ELSE 0)
      <4>1. 0 \in Nat
        OBVIOUS
      <4> QED
        BY <1>2, <2>2, <4>1, PopPromises DEF h
    <3>2. Restored(h, 1, buffer') = Restored(h, 1, buffer)
      BY <1>3, <2>2, RestoredTop
    <3> QED
      BY <1>1, <3>1, <3>2 DEF Awaited
  <2> QED
    BY <2>1, <2>2
<1> QED
  BY <1>7, <1>8

\* What a proc returns has a length that fits into the head of an extension:
\* packer.h:359 casts it to 32 bits, and loses what is more.
PayloadsFit ==
    /\ SizesFit
    /\ frames # <<>> /\ Done(Top) =>
         /\ Top.k = "plain" => PayloadSize(Data[Top.v]) \in 0 .. Limit(4) - 1
         /\ Top.k = "rec" => Size(buffer.bytes) \in 0 .. Limit(4) - 1

LEMMA ReturnPromises ==
  ASSUME Ready(frames, buffer), PayloadsFit, Return,
         NEW c, Awaited(sent, frames, buffer, c, 0)
  PROVE  Awaited(sent', frames', buffer', c, 0)
<1> DEFINE b == Restored(frames, Len(frames), buffer)
           h == Front(frames)
           type == Data[Top.v].type
<1>1. frames # <<>> /\ Done(Top)
  BY DEF Return
<1>2. Ready(h, b) /\ (Top.k # "rec" => b = buffer)
  BY <1>1, PopReady
<1>3. IsFrame(Top, inside, issued)
  BY <1>1, TopIs
<1>4. Top.k \in Ruby => type \in ExtTypes
  BY <1>3, PackerAssumption DEF IsFrame, Suits
<1>5. Top.k \in {"plain", "rec"} => Awaited(sent, h, b, c, Due(h))
  <2>1. Top.k \in {"plain", "rec"} => Left(Top) = 1
    BY DEF Left
  <2>2. 1 \in Nat
    OBVIOUS
  <2>3. Top.k \in {"plain", "rec"} =>
          Awaited(sent, h, b, c, IF NoRec(h, 1, Len(h)) THEN 1 ELSE 0)
    BY <1>1, <2>1, <2>2, PopPromises
  <2> HIDE DEF b, h
  <2> QED
    BY <2>3 DEF Due
<1> HIDE DEF b, h, type
<1>6. CASE ReturnPlainly(Top)
  BY <1>1, <1>6, ReturnPlainlyPromises
<1>7. CASE ReturnPayload(Top)
  <2> DEFINE n == PayloadSize(Data[Top.v])
  <2>1. Top.k = "plain" /\ Put(buffer, h, ExtHeader(n, type), Top.v, Payload(Data[Top.v]), n)
    BY <1>7 DEF ReturnPayload, h, type
  <2>2. n \in 0 .. Limit(4) - 1
    BY <1>1, <2>1 DEF PayloadsFit
  <2> HIDE DEF n
  <2>3. /\ Ready(h, buffer) /\ Awaited(sent, h, buffer, c, Due(h))
        /\ type \in ExtTypes
    BY <1>2, <1>4, <1>5, <2>1 DEF Ruby
  <2> QED
    BY <2>1, <2>2, <2>3, PutExtension
<1>8. CASE ReturnRecursive(Top)
  <2> DEFINE n == Size(buffer.bytes)
  <2>1. Top.k = "rec" /\ Put(b, h, ExtHeader(n, type), Top.v, Copied(buffer.bytes), n)
    BY <1>8 DEF ReturnRecursive, b, h, type
  <2>2. n \in 0 .. Limit(4) - 1
    BY <1>1, <2>1 DEF PayloadsFit
  <2> HIDE DEF n
  <2>3. Awaited(sent, h, b, c, Due(h)) /\ type \in ExtTypes
    BY <1>4, <1>5, <2>1 DEF Ruby
  <2> QED
    BY <1>2, <2>1, <2>2, <2>3, PutExtension
<1> QED
  BY <1>6, <1>7, <1>8 DEF Return

LEMMA ProcRaisesPromises ==
  ASSUME Ready(frames, buffer), ProcRaises, NEW c, Awaited(sent, frames, buffer, c, 0)
  PROVE  Awaited(sent', frames', buffer', c, 0)
<1> DEFINE b == Restored(frames, Len(frames), buffer)
           h == Front(frames)
<1>1. frames # <<>> /\ Raise(h, b) /\ sent' = sent
  BY DEF ProcRaises, InRuby
<1>2. Sound(h, b, inside, issued, dead)
  BY <1>1, PopReady DEF Ready
<1>3. ~ NoRec(h, 1, Len(h)) => Awaited(sent, h, b, c, 0)
  <2>1. ASSUME ~ NoRec(h, 1, Len(h)) PROVE Awaited(sent, h, b, c, 0)
    <3>1. Awaited(sent, h, b, c, IF NoRec(h, 1, Len(h)) THEN 0 ELSE 0)
      <4>1. 0 \in Nat
        OBVIOUS
      <4> QED
        BY <1>1, <2>1, <4>1, PopPromises
    <3> QED
      BY <3>1
  <2> QED
    BY <2>1
<1> HIDE DEF b, h
<1> QED
  BY <1>1, <1>2, <1>3, RaisePromises

LEMMA OwnerPromises ==
  ASSUME Ready(frames, buffer), HandOver \/ HandOverRaises,
         NEW c, Awaited(sent, frames, buffer, c, 0)
  PROVE  Awaited(sent', frames', buffer', c, 0)
<1>1. frames = <<>> /\ frames' = frames
  BY DEF HandOver, HandOverRaises
<1>2. /\ IsSeq(buffer.bytes) /\ IsSeq(sent)
      /\ buffer = [bytes |-> buffer.bytes, io |-> buffer.io, clean |-> buffer.clean]
  BY DEF Ready, Sound, IsBuffer
<1>3. PICK cut \in 0 .. Len(buffer.bytes) : Split(buffer, buffer.bytes, cut)
  <2>1. Len(buffer.bytes) \in 0 .. Len(buffer.bytes)
    BY <1>2, SeqFacts
  <2> QED
    BY <2>1 DEF HandOver, HandOverRaises
<1>4. sent' \o buffer'.bytes = sent \o buffer.bytes /\ buffer'.clean = buffer.clean
  BY <1>2, <1>3, SplitIs
<1>5. Restored(frames, 1, buffer) = buffer /\ Restored(frames', 1, buffer') = buffer'
  BY <1>1, EmptyStack
<1> QED
  BY <1>1, <1>4, <1>5 DEF Awaited

\* One more object is written.
LEMMA WritePromises ==
  ASSUME Ready(frames, buffer), InsideInv(inside), SizesFit, NEW v \in Object,
         frames = <<>>, WriteValue(v, <<>>), NEW c, Awaited(sent, frames, buffer, c, 0)
  PROVE  Awaited(sent', frames', buffer', c + 1, 0)
<1> DEFINE s == sent \o buffer.bytes
<1>1. Restored(<<>>, 1, buffer) = buffer
  BY EmptyStack
<1>2. Due(<<>>) = 1
  <2>1. NoRec(<<>>, 1, Len(<<>>))
    <3>1. \A i \in 1 .. Len(<<>>) : FALSE
      BY OneIs
    <3> QED
      BY <3>1 DEF NoRec
  <2> QED
    BY <2>1 DEF Due
<1>3. ASSUME buffer.clean
      PROVE  \E m \in Nat : Owed(<<>>, m) /\ Awaits(s, c + 1, m + 1)
  <2>1. PICK m \in Nat : Owed(<<>>, m) /\ Awaits(s, c, m + 0)
    BY <1>1, <1>3 DEF Awaited
  <2>2. m + 0 = m
    OBVIOUS
  <2>3. Awaits(s, c, m)
    BY <2>1, <2>2
  <2> HIDE DEF s
  <2>4. Awaits(s, c + 1, m + 1)
    BY <2>3, AwaitsMore
  <2> QED
    BY <2>1, <2>4
<1>4. Awaited(sent, <<>>, buffer, c + 1, Due(<<>>))
  BY <1>1, <1>2, <1>3 DEF Awaited
<1>5. Ready(<<>>, buffer)
  OBVIOUS
<1> QED
  BY <1>4, <1>5, WriteValuePromises
-----------------------------------------------------------------------------
\* The owner's stream misses as many objects as the stack owes.
Promised == Awaited(sent, frames, buffer, Len(wrote), 0)

LEMMA PromisedAtFirst ==
  ASSUME NEW s, s = <<>>, NEW b, b.bytes = <<>>, NEW w, w = <<>>
  PROVE  Awaited(s, <<>>, b, Len(w), 0)
<1>1. Restored(<<>>, 1, b) = b
  BY EmptyStack
<1>2. <<>> \o <<>> = <<>> /\ 0 + 0 = 0 /\ Len(<<>>) = 0 /\ 0 \in Nat
  OBVIOUS
<1>3. Owed(<<>>, 0) /\ Awaits(<<>>, 0, 0)
  BY OwedNothing, AwaitsNothing
<1>4. Owed(<<>>, 0) /\ Awaits(s \o b.bytes, Len(w), 0 + 0)
  BY <1>2, <1>3
<1> QED
  BY <1>1, <1>2, <1>4 DEF Awaited

LEMMA PromisedStep ==
  ASSUME IInv, PayloadsFit, Promised, [Next]_vars
  PROVE  Promised'
<1>1. /\ Ready(frames, buffer) /\ InsideInv(inside) /\ SizesFit /\ use \in Uses
      /\ wrote \in Seq(use.values) /\ Awaited(sent, frames, buffer, Len(wrote), 0)
  BY DEF IInv, Ready, PayloadsFit, Promised
<1>2. ASSUME NEW v \in use.values, Write(v) PROVE Promised'
  <2>1. /\ frames = <<>> /\ wrote' = Append(wrote, v) /\ WriteValue(v, <<>>)
        /\ v \in Object
    BY <1>1, <1>2, PackerAssumption DEF Write
  <2>2. Len(wrote') = Len(wrote) + 1
    BY <1>1, <2>1
  <2>3. Awaited(sent', frames', buffer', Len(wrote) + 1, 0)
    BY <1>1, <2>1, WritePromises
  <2> QED
    BY <2>2, <2>3 DEF Promised
<1>3. CASE Continue
  BY <1>1, <1>3, ContinuePromises DEF Continue, Promised
<1>4. CASE Return
  BY <1>1, <1>4, ReturnPromises DEF Return, Promised
<1>5. CASE ProcRaises
  BY <1>1, <1>5, ProcRaisesPromises DEF ProcRaises, Promised
<1>6. CASE Change \/ Collect
  <2>1. UNCHANGED <<sent, frames, buffer, wrote>>
    BY <1>6 DEF Change, Collect
  <2> QED
    BY <2>1 DEF Promised
<1>7. CASE Clear
  <2>1. frames' = frames /\ sent' = sent /\ wrote' = wrote
    BY <1>7 DEF Clear
  <2>2. Restored(frames', 1, buffer') = Restored(frames, 1, buffer)
    BY <1>1, <1>7, ClearKeeps DEF Owners
  <2> QED
    BY <2>1, <2>2 DEF Promised, Awaited
<1>8. CASE HandOver \/ HandOverRaises
  BY <1>1, <1>8, OwnerPromises DEF HandOver, HandOverRaises, Promised
<1>9. CASE Reset
  <2>1. /\ frames = <<>> /\ frames' = frames /\ sent' = <<>> /\ wrote' = <<>>
        /\ buffer' = Emptied(buffer)
    BY <1>9 DEF Reset
  <2>2. buffer'.bytes = <<>>
    BY <1>1, <2>1, EmptiedIs DEF Ready, Sound
  <2> QED
    BY <2>1, <2>2, PromisedAtFirst DEF Promised
<1>10. CASE UNCHANGED vars
  BY <1>10 DEF vars, Promised
<1> QED
  BY <1>2, <1>3, <1>4, <1>5, <1>6, <1>7, <1>8, <1>9, <1>10 DEF Next

\* Between calls, the stream is as many whole objects as were written, if
\* nothing raised and no hash lost pairs, whatever Ruby code did meanwhile to
\* the arrays, however deep types are recursive, and where the buffer was
\* flushed (packer.c:60-64, 118-141), as long as no payload is longer than the
\* head of an extension can say.
THEOREM StreamIsObjects == Spec /\ []PayloadsFit => []WholeObjects
<1>1. Init => Promised
  <2> SUFFICES ASSUME Init PROVE Promised
    OBVIOUS
  <2>1. sent = <<>> /\ frames = <<>> /\ buffer.bytes = <<>> /\ wrote = <<>>
    BY DEF Init
  <2> QED
    BY <2>1, PromisedAtFirst DEF Promised
<1>2. IInv /\ Promised => WholeObjects
  <2> SUFFICES ASSUME IInv, Promised, frames = <<>>, buffer.clean
               PROVE  IsObjects(Stream, Len(wrote))
    BY DEF WholeObjects
  <2>1. IsSeq(frames)
    BY DEF IInv, Ready, Sound
  <2>2. Owners = buffer /\ Stream = sent \o buffer.bytes
    BY <2>1, OutermostIs, EmptyStack DEF Owners, Written
  <2>3. PICK m \in Nat : Owed(<<>>, m) /\ Awaits(Stream, Len(wrote), m + 0)
    BY <2>2 DEF Promised, Awaited, Owners
  <2>4. m + 0 = 0
    BY <2>3, OwedNothing
  <2>5. Awaits(Stream, Len(wrote), 0)
    BY <2>3, <2>4
  <2> QED
    BY <2>5, AwaitsEnd
<1>3. IInv /\ PayloadsFit /\ Promised /\ [Next]_vars => Promised'
  BY PromisedStep
<1> QED
  BY <1>1, <1>2, <1>3, Inductive, PTL DEF Spec

-----------------------------------------------------------------------------
(* Everything that is written is read back. *)

\* A number of eight bytes and its sign.
LEMMA SignedRead ==
  ASSUME NEW v \in -SignedLimit(8) .. SignedLimit(8) - 1, NEW s, NEW p,
         Holds(s, p, Bytes(v, 8))
  PROVE  SignedAt(s, p + 1, 8) = v
<1> DEFINE l == Limit(8)
           u == v % l
<1>1. l \in Nat \ {0} /\ SignedLimit(8) = l \div 2
  BY LimitsAre DEF SignedLimit
<1> HIDE DEF l
<1>2. v \in Int /\ v >= -(l \div 2) /\ v < l \div 2
  BY <1>1
<1>3. u \in Nat /\ u < l /\ u % l = u
  BY <1>1, <1>2
<1>4. u = IF v < 0 THEN v + l ELSE v
  BY <1>1, <1>2
<1> HIDE DEF u
<1>5. Bytes(v, 8) = Bytes(u, 8)
  BY <1>3 DEF Bytes, l, u
<1>6. UnsignedAt(s, p + 1, 8) = u
  <2>1. Holds(s, p, Bytes(u, 8)) /\ 8 \in 1 .. 8 /\ u < Limit(8)
    BY <1>3, <1>5 DEF l
  <2> QED
    BY <1>3, <2>1, BytesRead
<1>7. SignedAt(s, p + 1, 8) = IF u < l \div 2 THEN u ELSE u - l
  BY <1>1, <1>6 DEF SignedAt, l
<1> QED
  BY <1>1, <1>2, <1>4, <1>7

LEMMA WordRead ==
  ASSUME NEW n \in Nat, n < Word, NEW s, NEW p, Holds(s, p, Bytes(n, 4))
  PROVE  WordAt(s, p + 1) = n
<1>1. 4 \in 1 .. 8 /\ n < Limit(4)
  BY DEF Word
<1> QED
  BY <1>1, BytesRead DEF WordAt

\* Two numbers, one behind the other.
LEMMA TwoNumbers ==
  ASSUME NEW m \in Int, NEW n \in Int, NEW w \in {4, 8}
  PROVE  /\ Len(Bytes(m, 4) \o Bytes(n, w)) = 4 + w
         /\ Holds(Bytes(m, 4) \o Bytes(n, w), 0, Bytes(m, 4))
         /\ Holds(Bytes(m, 4) \o Bytes(n, w), 4, Bytes(n, w))
<1> DEFINE x == Bytes(m, 4)
           y == Bytes(n, w)
<1>1. IsSeq(x) /\ Len(x) = 4 /\ IsSeq(y) /\ Len(y) = w
  <2>1. 4 \in 0 .. 8 /\ w \in 0 .. 8
    OBVIOUS
  <2> QED
    BY <2>1, BytesAre
<1> HIDE DEF x, y
<1>2. IsSeq(x \o y) /\ Len(x \o y) = 4 + w
  <2>1. IsSeq(x \o y) /\ Len(x \o y) = Len(x) + Len(y)
    BY <1>1, ConcatIs
  <2> QED
    BY <1>1, <2>1
<1>3. Holds(x \o y, 0, x \o y)
  <2>1. /\ 0 \in Nat /\ 0 + Len(x \o y) <= Len(x \o y)
        /\ \A j \in 1 .. Len(x \o y) : 0 + j = j
    BY <1>2
  <2> QED
    BY <1>2, <2>1 DEF Holds
<1>4. Holds(x \o y, 0, x) /\ Holds(x \o y, 0 + Len(x), y)
  BY <1>1, <1>3, HoldsParts
<1>5. 0 + Len(x) = 4
  BY <1>1
<1> QED
  BY <1>2, <1>4, <1>5 DEF x, y

\* A time is read back as it was, whichever of the three formats its seconds
\* and nanoseconds need (timestamp.rb:29-70), if the seconds fit into 64 bits
\* with a sign, and the nanoseconds into 30.
THEOREM TimestampsReadBack ==
  \A sec \in -SignedLimit(8) .. SignedLimit(8) - 1, nsec \in Nat :
      nsec < Word \div 4 =>
          TimestampFrom(TimestampPayload(sec, nsec)) = [sec |-> sec, nsec |-> nsec]
<1> SUFFICES ASSUME NEW sec \in -SignedLimit(8) .. SignedLimit(8) - 1,
                    NEW nsec \in Nat, nsec < Word \div 4
             PROVE  TimestampFrom(TimestampPayload(sec, nsec))
                      = [sec |-> sec, nsec |-> nsec]
  OBVIOUS
<1> DEFINE p == TimestampPayload(sec, nsec)
<1>1. /\ Word \in Nat \ {0} /\ SignedLimit(8) \in Int /\ sec \in Int
      /\ nsec < Word /\ 4 * nsec + 4 <= Word
  <2>1. Word \in Nat \ {0} /\ Limit(8) \in Nat \ {0}
    BY LimitsAre DEF Word
  <2> HIDE DEF Word
  <2> QED
    BY <2>1 DEF SignedLimit
<1>2. 1 = 0 + 1 /\ 5 = 4 + 1 /\ 4 \in {4, 8} /\ 8 \in {4, 8}
  OBVIOUS
<1>3. CASE sec >= 0 /\ sec < Word /\ nsec = 0
  <2>1. p = Bytes(sec, 4)
    BY <1>1, <1>3 DEF TimestampPayload
  <2>2. sec \in Nat
    BY <1>1, <1>3
  <2>3. IsSeq(p) /\ Len(p) = 4
    <3>1. 4 \in 0 .. 8
      OBVIOUS
    <3> QED
      BY <1>1, <2>1, <3>1, BytesAre
  <2> HIDE DEF p
  <2>4. Holds(p, 0, p)
    <3>1. 0 \in Nat /\ 0 + Len(p) <= Len(p) /\ \A j \in 1 .. Len(p) : 0 + j = j
      BY <2>3
    <3> QED
      BY <2>3, <3>1 DEF Holds
  <2>5. WordAt(p, 1) = sec
    <3>1. Holds(p, 0, Bytes(sec, 4))
      BY <2>1, <2>4
    <3> QED
      BY <1>2, <1>3, <2>2, <3>1, WordRead
  <2>6. TimestampFrom(p) = [sec |-> sec, nsec |-> 0]
    BY <2>3, <2>5 DEF TimestampFrom
  <2> QED
    BY <1>3, <2>6 DEF p
<1>4. CASE sec >= 0 /\ sec < 4 * Word /\ ~ (nsec = 0 /\ sec < Word)
  <2> DEFINE high == 4 * nsec + sec \div Word
  <2>1. /\ high \in Nat /\ high < Word /\ high % 4 = sec \div Word /\ high \div 4 = nsec
        /\ sec \div Word \in 0 .. 3 /\ sec % Word \in Nat /\ sec % Word < Word
        /\ (sec \div Word) * Word + (sec % Word) = sec
    <3>1. sec \div Word \in 0 .. 3 /\ sec % Word \in 0 .. Word - 1
      BY <1>1, <1>4
    <3>2. (sec \div Word) * Word + (sec % Word) = sec
      BY <1>1, <1>4
    <3> DEFINE q == sec \div Word
    <3> HIDE DEF q
    <3>3. q \in 0 .. 3
      BY <3>1 DEF q
    <3>4. /\ 4 * nsec + q \in Nat /\ 4 * nsec + q < Word
          /\ (4 * nsec + q) % 4 = q /\ (4 * nsec + q) \div 4 = nsec
      BY <1>1, <3>3
    <3> QED
      BY <1>1, <3>1, <3>2, <3>4 DEF q
  <2>2. p = Bytes(high, 4) \o Bytes(sec, 4)
    BY <1>1, <1>4 DEF TimestampPayload
  <2> HIDE DEF p, high
  <2>3. Bytes(sec, 4) = Bytes(sec % Word, 4)
    <3>1. (sec % Word) % Word = sec % Word
      BY <1>1, <2>1
    <3> QED
      BY <3>1 DEF Bytes, Word
  <2>4. /\ Len(p) = 8 /\ Holds(p, 0, Bytes(high, 4)) /\ Holds(p, 4, Bytes(sec % Word, 4))
    <3>1. 4 + 4 = 8 /\ high \in Int /\ sec % Word \in Int
      BY <2>1
    <3>2. p = Bytes(high, 4) \o Bytes(sec % Word, 4)
      BY <2>2, <2>3
    <3> QED
      BY <1>2, <3>1, <3>2, TwoNumbers
  <2>5. WordAt(p, 1) = high /\ WordAt(p, 5) = sec % Word
    <3>1. WordAt(p, 0 + 1) = high
      BY <2>1, <2>4, WordRead
    <3>2. WordAt(p, 4 + 1) = sec % Word
      BY <2>1, <2>4, WordRead
    <3> QED
      BY <1>2, <3>1, <3>2
  <2>6. TimestampFrom(p) = [sec |-> (WordAt(p, 1) % 4) * Word + WordAt(p, 5),
                            nsec |-> WordAt(p, 1) \div 4]
    BY <2>4 DEF TimestampFrom
  <2> QED
    BY <2>1, <2>5, <2>6 DEF p
<1>5. CASE ~ (sec >= 0 /\ sec < 4 * Word)
  <2>1. p = Bytes(nsec, 4) \o Bytes(sec, 8)
    BY <1>5 DEF TimestampPayload
  <2> HIDE DEF p
  <2>2. Len(p) = 12 /\ Holds(p, 0, Bytes(nsec, 4)) /\ Holds(p, 4, Bytes(sec, 8))
    <3>1. 4 + 8 = 12 /\ nsec \in Int
      OBVIOUS
    <3> QED
      BY <1>1, <1>2, <2>1, <3>1, TwoNumbers
  <2>3. WordAt(p, 1) = nsec
    <3>1. WordAt(p, 0 + 1) = nsec
      BY <1>1, <2>2, WordRead
    <3> QED
      BY <1>2, <3>1
  <2>4. SignedAt(p, 5, 8) = sec
    <3>1. SignedAt(p, 4 + 1, 8) = sec
      BY <2>2, SignedRead
    <3> QED
      BY <1>2, <3>1
  <2>5. TimestampFrom(p) = [sec |-> SignedAt(p, 5, 8), nsec |-> WordAt(p, 1)]
    BY <2>2 DEF TimestampFrom
  <2> QED
    BY <2>3, <2>4, <2>5 DEF p
<1> QED
  BY <1>1, <1>3, <1>4, <1>5

\* Every integer that is no big one reads back with its value and its sign, and
\* ends where its bytes end, wherever in a stream it stands (packer.h:155-261,
\* unpacker.c:440-740).
THEOREM NumbersReadBack ==
  \A v \in Int : ~ IsBig(v) => Says(WriteLong(v), "int", v)
<1> QED
  BY WriteLongSays

\* The heads of strings, binaries, arrays, maps and extensions read back as the
\* length that they were written for, on both sides of the limit of each width
\* (packer.h:287-400, unpacker.c:440-740), and those of extensions as their
\* type.
THEOREM HeadsReadBack ==
  \A n \in 0 .. Limit(4) - 1 :
      /\ \A c \in BOOLEAN : Says(RawHeader(n, c), "str", n)
      /\ Says(BinHeader(n), "bin", n)
      /\ \A h \in {"array", "map"} : Says(CountHeader(h, n), h, n)
      /\ \A t \in ExtTypes :
           /\ Says(ExtHeader(n, t), "ext", n)
           /\ \A s, p : Holds(s, p, ExtHeader(n, t)) => HeadAt(s, p + 1).type = t
<1> SUFFICES ASSUME NEW n \in 0 .. Limit(4) - 1
             PROVE  /\ \A c \in BOOLEAN : Says(RawHeader(n, c), "str", n)
                    /\ Says(BinHeader(n), "bin", n)
                    /\ \A h \in {"array", "map"} : Says(CountHeader(h, n), h, n)
                    /\ \A t \in ExtTypes :
                         /\ Says(ExtHeader(n, t), "ext", n)
                         /\ \A s, p : Holds(s, p, ExtHeader(n, t)) =>
                                        HeadAt(s, p + 1).type = t
  OBVIOUS
<1>1. n \in Nat /\ n < Limit(4)
  BY LimitsAre
<1> QED
  BY <1>1, RawHeaderSays, BinHeaderSays, CountHeaderSays, ExtHeaderSays

-----------------------------------------------------------------------------
(* Big integers, of any length. *)

\* One step of the words of BigintPayload.
NextWord(f, n) == IF n = 0 THEN <<>> ELSE Bytes(n % Word, 4) \o f[n \div Word]

\* f has the words of the numbers up to m.
HasWords(f, m) == \A n \in Nat : n <= m => f[n] = NextWord(f, n)

LEMMA WordIs == Word \in Nat \ {0, 1}
<1> DEFINE a == Limit(1)
           b == Limit(2)
<1>1. /\ a \in Nat /\ b \in Nat /\ Limit(4) \in Nat /\ Base \in Nat \ {0, 1}
      /\ Base <= a /\ a <= b /\ b <= Limit(4)
  BY LimitsAre, LimitsGrow
<1> QED
  BY <1>1 DEF Word

LEMMA FewerWords ==
  ASSUME NEW n \in Nat, n # 0
  PROVE  n \div Word \in Nat /\ n \div Word < n
BY WordIs

\* The words of a number do not depend on those of larger ones.
LEMMA WordsAgree ==
  ASSUME NEW f, NEW g, NEW m \in Nat, HasWords(f, m), HasWords(g, m)
  PROVE  f[m] = g[m]
<1> DEFINE D == {n \in 0 .. m : f[n] # g[n]}
<1> SUFFICES ASSUME D # {} PROVE FALSE
  OBVIOUS
<1>1. D \in SUBSET Nat
  OBVIOUS
<1>2. \A n \in D : n \in 0 .. m /\ f[n] # g[n]
  OBVIOUS
<1>3. \A n \in 0 .. m : n \notin D => f[n] = g[n]
  OBVIOUS
<1> HIDE DEF D
<1>4. PICK n \in D : \A k \in D : n <= k
  BY <1>1, FirstIs
<1>5. n \in Nat /\ n <= m /\ f[n] # g[n]
  BY <1>2
<1>6. f[n] = NextWord(f, n) /\ g[n] = NextWord(g, n)
  BY <1>5 DEF HasWords
<1>7. CASE n = 0
  BY <1>5, <1>6, <1>7 DEF NextWord
<1>8. CASE n # 0
  <2> DEFINE k == n \div Word
  <2>1. k \in Nat /\ k < n
    BY <1>5, <1>8, FewerWords
  <2>2. f[n] = Bytes(n % Word, 4) \o f[k] /\ g[n] = Bytes(n % Word, 4) \o g[k]
    BY <1>6, <1>8 DEF NextWord
  <2> HIDE DEF k
  <2>3. k \in 0 .. m /\ k \notin D
    BY <1>4, <1>5, <2>1
  <2> QED
    BY <1>3, <1>5, <2>2, <2>3
<1> QED
  BY <1>7, <1>8

LEMMA WordsUpTo ==
  ASSUME NEW m \in Nat
  PROVE  \E f : HasWords(f, m)
<1> DEFINE D == {n \in Nat : ~ \E f : HasWords(f, n)}
<1> SUFFICES ASSUME D # {} PROVE FALSE
  OBVIOUS
<1>1. D \in SUBSET Nat /\ \A n \in D : ~ \E f : HasWords(f, n)
  OBVIOUS
<1>2. \A n \in Nat : n \notin D => \E f : HasWords(f, n)
  OBVIOUS
<1> HIDE DEF D
<1>3. PICK d \in D : \A k \in D : d <= k
  BY <1>1, FirstIs
<1>4. d \in Nat
  BY <1>1
<1>5. PICK f : \A n \in Nat : n < d => f[n] = NextWord(f, n)
  <2>1. CASE d = 0
    BY <2>1
  <2>2. CASE d # 0
    <3>1. d - 1 \in Nat /\ d - 1 \notin D
      BY <1>3, <1>4, <2>2
    <3>2. PICK f : HasWords(f, d - 1)
      BY <1>2, <3>1
    <3>3. \A n \in Nat : n < d => n <= d - 1
      BY <1>4
    <3> QED
      BY <3>2, <3>3 DEF HasWords
  <2> QED
    BY <2>1, <2>2
<1> DEFINE g == [n \in Nat |-> NextWord(f, n)]
<1>6. \A n \in Nat : g[n] = NextWord(f, n)
  OBVIOUS
<1> HIDE DEF g
<1>7. ASSUME NEW n \in Nat, n <= d PROVE g[n] = NextWord(g, n)
  <2>1. CASE n = 0
    BY <1>6, <2>1 DEF NextWord
  <2>2. CASE n # 0
    <3> DEFINE k == n \div Word
    <3>1. k \in Nat /\ k < d
      BY <1>4, <1>7, <2>2, FewerWords
    <3>2. g[n] = Bytes(n % Word, 4) \o f[k] /\ NextWord(g, n) = Bytes(n % Word, 4) \o g[k]
      BY <1>6, <2>2 DEF NextWord
    <3> HIDE DEF k
    <3> QED
      BY <1>5, <1>6, <3>1, <3>2
  <2> QED
    BY <2>1, <2>2
<1>8. HasWords(g, d)
  BY <1>7 DEF HasWords
<1> QED
  BY <1>1, <1>3, <1>8

LEMMA WordsSolved ==
  \E f : \A n \in Nat : f[n] = NextWord(f, n)
<1> DEFINE upTo(m) == CHOOSE f : HasWords(f, m)
           g == [m \in Nat |-> upTo(m)[m]]
<1>1. \A m \in Nat : HasWords(upTo(m), m)
  BY WordsUpTo
<1> HIDE DEF upTo
<1>2. \A m \in Nat : g[m] = upTo(m)[m]
  OBVIOUS
<1> HIDE DEF g
<1>3. ASSUME NEW n \in Nat PROVE g[n] = NextWord(g, n)
  <2>1. upTo(n)[n] = NextWord(upTo(n), n)
    BY <1>1 DEF HasWords
  <2>2. CASE n = 0
    BY <1>2, <2>1, <2>2 DEF NextWord
  <2>3. CASE n # 0
    <3> DEFINE k == n \div Word
    <3>1. k \in Nat /\ k < n
      BY <2>3, FewerWords
    <3>2. /\ NextWord(upTo(n), n) = Bytes(n % Word, 4) \o upTo(n)[k]
          /\ NextWord(g, n) = Bytes(n % Word, 4) \o g[k]
      BY <2>3 DEF NextWord
    <3> HIDE DEF k
    <3>3. HasWords(upTo(n), k) /\ HasWords(upTo(k), k)
      BY <1>1, <3>1 DEF HasWords
    <3>4. upTo(n)[k] = upTo(k)[k]
      BY <3>1, <3>3, WordsAgree
    <3> QED
      BY <1>2, <2>1, <3>1, <3>2, <3>4
  <2> QED
    BY <2>2, <2>3
<1> QED
  BY <1>3

\* The equation that the words of BigintPayload are the solution of.
LEMMA PayloadEquation ==
  ASSUME NEW v \in Int
  PROVE  \E f : /\ \A n \in Nat : f[n] = NextWord(f, n)
                /\ BigintPayload(v) = Bytes(IF v < 0 THEN 1 ELSE 0, 1) \o f[Abs(v)]
<1> DEFINE words == CHOOSE f : f = [n \in Nat |-> NextWord(f, n)]
<1>1. BigintPayload(v) = Bytes(IF v < 0 THEN 1 ELSE 0, 1) \o words[Abs(v)]
  BY DEF BigintPayload, NextWord
<1>2. \E f : f = [n \in Nat |-> NextWord(f, n)]
  <2>1. PICK f : \A n \in Nat : f[n] = NextWord(f, n)
    BY WordsSolved
  <2> DEFINE g == [n \in Nat |-> f[n]]
  <2>2. \A n \in Nat : g[n] = f[n]
    OBVIOUS
  <2>3. g = [n \in Nat |-> g[n]]
    OBVIOUS
  <2> HIDE DEF g
  <2>4. ASSUME NEW n \in Nat PROVE g[n] = NextWord(g, n)
    <3>1. n # 0 => n \div Word \in Nat
      BY FewerWords
    <3>2. n # 0 => g[n \div Word] = f[n \div Word]
      BY <2>2, <3>1
    <3>3. NextWord(g, n) = NextWord(f, n)
      BY <3>2 DEF NextWord
    <3> QED
      BY <2>1, <2>2, <3>3
  <2>5. g = [n \in Nat |-> NextWord(g, n)]
    BY <2>3, <2>4
  <2> QED
    BY <2>5
<1>3. words = [n \in Nat |-> NextWord(words, n)]
  BY <1>2
<1> HIDE DEF words
<1>4. \A n \in Nat : words[n] = NextWord(words, n)
  BY <1>3
<1> QED
  BY <1>1, <1>4

\* One step of the value that BigintFrom gives to the words from i on.
NextValueOf(s, f, i) == IF i > Len(s) THEN 0 ELSE f[i + 4] * Word + WordAt(s, i)

\* The equation that the value is the solution of.
LEMMA ValueEquation ==
  ASSUME NEW s, IsSeq(s)
  PROVE  \E f : /\ \A i \in Nat : f[i] = NextValueOf(s, f, i)
                /\ BigintFrom(s) = IF s[1].n = 0 THEN f[2] ELSE -f[2]
<1> DEFINE m == Len(s)
           value == CHOOSE f : f = [i \in Nat |-> NextValueOf(s, f, i)]
           Solves(f, d) == \A i \in Nat : i >= d => f[i] = NextValueOf(s, f, i)
           B == {d \in 1 .. m : ~ \E f : Solves(f, d)}
<1>0. m \in Nat
  BY SeqFacts
<1>1. \E f : Solves(f, m + 1)
  <2> DEFINE f == [i \in Nat |-> 0]
  <2>1. Solves(f, m + 1)
    <3> SUFFICES ASSUME NEW i \in Nat, i >= m + 1 PROVE f[i] = NextValueOf(s, f, i)
      OBVIOUS
    <3>1. i > Len(s)
      BY <1>0
    <3> QED
      BY <3>1 DEF NextValueOf
  <2> HIDE DEF f, Solves
  <2> QED
    BY <2>1
<1>2. ASSUME NEW d \in Nat, NEW f, Solves(f, d + 1)
      PROVE  \E g : Solves(g, d)
  <2> DEFINE g == [i \in Nat |-> NextValueOf(s, f, i)]
  <2>1. \A i \in Nat : g[i] = NextValueOf(s, f, i)
    OBVIOUS
  <2> HIDE DEF g
  <2>2. ASSUME NEW i \in Nat, i >= d PROVE g[i] = NextValueOf(s, g, i)
    <3>1. i + 4 \in Nat /\ i + 4 >= d + 1
      BY <2>2
    <3>2. g[i + 4] = f[i + 4]
      BY <1>2, <2>1, <3>1
    <3> QED
      BY <2>1, <3>2 DEF NextValueOf
  <2>3. Solves(g, d)
    BY <2>2
  <2> HIDE DEF Solves
  <2> QED
    BY <2>3
<1> HIDE DEF m
<1>3. ASSUME NEW d \in 1 .. m, \A k \in d + 1 .. m : k \notin B
      PROVE  d \notin B
  <2> HIDE DEF Solves
  <2>1. \E f : Solves(f, d + 1)
    <3>1. CASE d = m
      BY <1>1, <3>1
    <3>2. CASE d # m
      <4>1. d + 1 \in d + 1 .. m /\ d + 1 \in 1 .. m
        BY <1>0, <3>2
      <4> QED
        BY <1>3, <4>1
    <3> QED
      BY <3>1, <3>2
  <2>2. d \in Nat
    BY <1>0
  <2>3. \E g : Solves(g, d)
    BY <1>2, <2>1, <2>2
  <2> QED
    BY <2>3
<1>4. B = {}
  <2>1. B \subseteq 1 .. m
    OBVIOUS
  <2> HIDE DEF B
  <2> QED
    BY <1>0, <1>3, <2>1, Descend
<1>5. \E f : Solves(f, 1)
  <2> HIDE DEF Solves
  <2>1. CASE m = 0
    <3>1. m + 1 = 1
      BY <2>1
    <3> QED
      BY <1>1, <3>1
  <2>2. CASE m # 0
    <3>1. 1 \in 1 .. m
      BY <1>0, <2>2
    <3> QED
      BY <1>4, <3>1
  <2> QED
    BY <2>1, <2>2
<1>6. PICK f : Solves(f, 0)
  <2>1. 0 + 1 = 1 /\ 0 \in Nat
    OBVIOUS
  <2> HIDE DEF Solves
  <2> QED
    BY <1>2, <1>5, <2>1
<1>7. \A i \in Nat : f[i] = NextValueOf(s, f, i)
  BY <1>6
<1>8. \E g : g = [i \in Nat |-> NextValueOf(s, g, i)]
  <2> DEFINE g == [i \in Nat |-> f[i]]
  <2>1. \A i \in Nat : g[i] = f[i]
    OBVIOUS
  <2>2. g = [i \in Nat |-> g[i]]
    OBVIOUS
  <2> HIDE DEF g
  <2>3. ASSUME NEW i \in Nat PROVE g[i] = NextValueOf(s, g, i)
    <3>1. i + 4 \in Nat
      OBVIOUS
    <3>2. g[i + 4] = f[i + 4]
      BY <2>1, <3>1
    <3> QED
      BY <1>7, <2>1, <3>2 DEF NextValueOf
  <2>4. g = [i \in Nat |-> NextValueOf(s, g, i)]
    BY <2>2, <2>3
  <2> QED
    BY <2>4
<1>9. value = [i \in Nat |-> NextValueOf(s, value, i)]
  BY <1>8
<1>10. BigintFrom(s) = IF s[1].n = 0 THEN value[2] ELSE -value[2]
  BY DEF BigintFrom, NextValueOf
<1> HIDE DEF value
<1>11. \A i \in Nat : value[i] = NextValueOf(s, value, i)
  BY <1>9
<1> QED
  BY <1>10, <1>11

-----------------------------------------------------------------------------
AreWords(f) == \A n \in Nat : f[n] = NextWord(f, n)
AreValues(s, f) == \A i \in Nat : f[i] = NextValueOf(s, f, i)

\* s is x behind the first p, to its end.
Ends(s, p, x) == Holds(s, p, x) /\ Len(s) = p + Len(x)

LEMMA WordsAreSeqs ==
  ASSUME NEW f, AreWords(f)
  PROVE  \A n \in Nat : IsSeq(f[n])
<1> DEFINE D == {n \in Nat : ~ IsSeq(f[n])}
<1> SUFFICES ASSUME D # {} PROVE FALSE
  OBVIOUS
<1>1. D \in SUBSET Nat /\ \A n \in D : ~ IsSeq(f[n])
  OBVIOUS
<1>2. \A n \in Nat : n \notin D => IsSeq(f[n])
  OBVIOUS
<1> HIDE DEF D
<1>3. PICK n \in D : \A k \in D : n <= k
  BY <1>1, FirstIs
<1>4. n \in Nat /\ ~ IsSeq(f[n])
  BY <1>1
<1>5. CASE n = 0
  <2>1. f[n] = <<>> /\ IsSeq(<<>>)
    BY <1>4, <1>5 DEF NextWord, IsSeq, AreWords
  <2> QED
    BY <1>4, <2>1
<1>6. CASE n # 0
  <2> DEFINE k == n \div Word
             b == Bytes(n % Word, 4)
  <2>1. k \in Nat /\ k < n /\ f[n] = b \o f[k]
    BY <1>4, <1>6, FewerWords DEF NextWord, AreWords
  <2>2. IsSeq(b)
    <3>1. n % Word \in Int /\ 4 \in 0 .. 8
      BY <1>4, WordIs
    <3> QED
      BY <3>1, BytesAre
  <2> HIDE DEF k, b
  <2>3. IsSeq(f[k])
    BY <1>2, <1>3, <1>4, <2>1
  <2> QED
    BY <1>4, <2>1, <2>2, <2>3, ConcatIs
<1> QED
  BY <1>5, <1>6

\* The words of a number at the end of s give the number.
LEMMA WordsRead ==
  ASSUME NEW f, AreWords(f), NEW s, NEW g, AreValues(s, g)
  PROVE  \A n, p \in Nat : Ends(s, p, f[n]) => g[p + 1] = n
<1> DEFINE Right(n) == \A p \in Nat : Ends(s, p, f[n]) => g[p + 1] = n
           D == {n \in Nat : ~ Right(n)}
<1> SUFFICES ASSUME D # {} PROVE FALSE
  OBVIOUS
<1> HIDE DEF Right
<1>1. D \in SUBSET Nat /\ \A n \in D : ~ Right(n)
  OBVIOUS
<1>2. \A n \in Nat : n \notin D => Right(n)
  OBVIOUS
<1> HIDE DEF D
<1>3. PICK n \in D : \A k \in D : n <= k
  BY <1>1, FirstIs
<1>4. n \in Nat /\ ~ Right(n)
  BY <1>1
<1>5. PICK p \in Nat : Holds(s, p, f[n]) /\ Len(s) = p + Len(f[n]) /\ g[p + 1] # n
  BY <1>4 DEF Right, Ends
<1>6. /\ p + 1 \in Nat /\ g[p + 1] = NextValueOf(s, g, p + 1)
      /\ IsSeq(f[n]) /\ Len(f[n]) \in Nat
  <2>1. p + 1 \in Nat
    BY <1>5
  <2>2. IsSeq(f[n])
    BY <1>4, WordsAreSeqs
  <2> QED
    BY <2>1, <2>2, SeqFacts DEF AreValues
<1>7. CASE n = 0
  <2>1. f[n] = <<>> /\ Len(<<>>) = 0
    BY <1>4, <1>7 DEF NextWord, AreWords
  <2>2. p + 1 > Len(s)
    BY <1>5, <2>1
  <2> QED
    BY <1>5, <1>6, <1>7, <2>2 DEF NextValueOf
<1>8. CASE n # 0
  <2> DEFINE k == n \div Word
             r == n % Word
             b == Bytes(r, 4)
  <2>1. /\ k \in Nat /\ k < n /\ f[n] = b \o f[k]
        /\ r \in Nat /\ r < Word /\ k * Word + r = n
    <3>1. k \in Nat /\ k < n /\ f[n] = b \o f[k]
      BY <1>4, <1>8, FewerWords DEF NextWord, AreWords
    <3>2. r \in Nat /\ r < Word /\ k * Word + r = n
      BY <1>4, WordIs
    <3> QED
      BY <3>1, <3>2
  <2>2. IsSeq(b) /\ Len(b) = 4
    <3>1. r \in Int /\ 4 \in 0 .. 8
      BY <2>1
    <3> HIDE DEF r
    <3> QED
      BY <3>1, BytesAre
  <2>3. IsSeq(f[k]) /\ Len(f[k]) \in Nat
    BY <2>1, WordsAreSeqs, SeqFacts
  <2> HIDE DEF k, r
  <2>4. Holds(s, p, b) /\ Holds(s, p + 4, f[k]) /\ Len(s) = p + (4 + Len(f[k]))
    <3> HIDE DEF b
    <3>1. Len(f[n]) = 4 + Len(f[k])
      <4>1. Len(b \o f[k]) = Len(b) + Len(f[k])
        BY <2>2, <2>3, ConcatIs
      <4> QED
        BY <2>1, <2>2, <4>1
    <3>2. Holds(s, p, b \o f[k])
      BY <1>5, <2>1
    <3>3. Holds(s, p, b) /\ Holds(s, p + Len(b), f[k])
      BY <2>2, <2>3, <3>2, HoldsParts
    <3> QED
      BY <1>5, <2>2, <3>1, <3>3
  <2>5. WordAt(s, p + 1) = r
    BY <2>1, <2>4, WordRead
  <2>6. g[(p + 4) + 1] = k
    <3>1. Right(k)
      BY <1>2, <1>3, <1>4, <2>1
    <3>2. p + 4 \in Nat /\ Len(s) = (p + 4) + Len(f[k])
      <4> DEFINE a == Len(f[k])
                 z == Len(s)
      <4>1. a \in Nat /\ p \in Nat /\ z = p + (4 + a)
        BY <1>5, <2>3, <2>4
      <4> HIDE DEF a, z
      <4>2. p + 4 \in Nat /\ z = (p + 4) + a
        BY <4>1
      <4> QED
        BY <4>2 DEF a, z
    <3>3. Ends(s, p + 4, f[k])
      BY <2>4, <3>2 DEF Ends
    <3> DEFINE q == p + 4
    <3>4. \A o \in Nat : Ends(s, o, f[k]) => g[o + 1] = k
      BY <3>1 DEF Right
    <3>5. q \in Nat /\ Ends(s, q, f[k])
      BY <3>2, <3>3
    <3> HIDE DEF q
    <3>6. g[q + 1] = k
      BY <3>4, <3>5
    <3> QED
      BY <3>6 DEF q
  <2>7. ~ (p + 1 > Len(s)) /\ (p + 1) + 4 = (p + 4) + 1
    BY <1>5, <2>3, <2>4
  <2>8. g[p + 1] = k * Word + r
    BY <1>6, <2>5, <2>6, <2>7 DEF NextValueOf
  <2> QED
    BY <1>5, <2>1, <2>8
<1> QED
  BY <1>7, <1>8

\* An integer of any length comes back from its sign and its words of 32 bits,
\* which are written low one first and read backwards (bigint.rb:8-67).
THEOREM BigintsReadBack ==
  \A v \in Int : BigintFrom(BigintPayload(v)) = v
<1> SUFFICES ASSUME NEW v \in Int PROVE BigintFrom(BigintPayload(v)) = v
  OBVIOUS
<1> DEFINE sign == IF v < 0 THEN 1 ELSE 0
           s == BigintPayload(v)
           b == Bytes(sign, 1)
           n == Abs(v)
<1>1. n \in Nat /\ v = IF sign = 0 THEN n ELSE -n
  BY DEF Abs
<1>2. sign \in {0, 1}
  OBVIOUS
<1> HIDE DEF n, sign
<1>3. PICK f : AreWords(f) /\ s = b \o f[n]
  BY PayloadEquation DEF n, sign, AreWords
<1>4. IsSeq(f[n])
  BY <1>1, <1>3, WordsAreSeqs
<1>5. IsSeq(b) /\ Len(b) = 1 /\ b[1].n = sign
  <2>1. sign \in Int /\ 1 \in 0 .. 8 /\ 1 \in 1 .. 1 /\ 1 - 1 = 0
    BY <1>2
  <2>2. /\ IsSeq(b) /\ Len(b) = 1
        /\ b[1].n = ((sign % Limit(1)) \div Limit(0)) % Base
    BY <2>1, BytesAre
  <2>3. Limit(0) = 1 /\ Limit(1) \in Nat /\ Base <= Limit(1) /\ Base \in Nat \ {0, 1, 2}
    BY LimitsAre, LimitsGrow
  <2>4. ((sign % Limit(1)) \div Limit(0)) % Base = sign
    BY <1>2, <2>3
  <2> QED
    BY <2>2, <2>4
<1> HIDE DEF b, s
<1>6. /\ IsSeq(s) /\ Len(s) = 1 + Len(f[n]) /\ s[1] = b[1]
  <2>1. Len(f[n]) \in Nat /\ 1 <= 1
    BY <1>4, SeqFacts
  <2>2. 1 \in 1 .. Len(b) + Len(f[n]) /\ 1 <= Len(b)
    BY <1>5, <2>1
  <2> QED
    BY <1>3, <1>4, <1>5, <2>2, ConcatIs
<1>7. Holds(s, 1, f[n])
  <2>1. Holds(s, 0, b \o f[n])
    <3>1. Len(s) \in Nat /\ \A j \in 1 .. Len(s) : 0 + j = j
      BY <1>6, SeqFacts
    <3> QED
      BY <1>3, <1>6, <3>1 DEF Holds
  <2>2. Holds(s, 0 + Len(b), f[n])
    BY <1>4, <1>5, <2>1, HoldsParts
  <2> QED
    BY <1>5, <2>2
<1>8. PICK g : /\ AreValues(s, g)
               /\ BigintFrom(s) = IF s[1].n = 0 THEN g[2] ELSE -g[2]
  BY <1>6, ValueEquation DEF AreValues
<1>9. g[1 + 1] = n
  <2>1. \A i, p \in Nat : Ends(s, p, f[i]) => g[p + 1] = i
    BY <1>3, <1>8, WordsRead
  <2>2. Ends(s, 1, f[n]) /\ 1 \in Nat
    BY <1>6, <1>7 DEF Ends
  <2> QED
    BY <1>1, <2>1, <2>2
<1>10. g[2] = n /\ 1 + 1 = 2
  BY <1>9
<1>11. BigintFrom(s) = v
  BY <1>1, <1>5, <1>6, <1>8, <1>10
<1> QED
  BY <1>11 DEF s
=============================================================================
