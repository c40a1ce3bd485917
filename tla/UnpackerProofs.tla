--------------------------- MODULE UnpackerProofs ---------------------------
(***************************************************************************)
(* The decoder of module Unpacker: its types, its calls and its stack, and *)
(* that what it completes and delivers are the objects of the stream.      *)
(***************************************************************************)
EXTENDS Unpacker, FiniteSetTheorems, SequenceTheorems, WellFoundedInduction, TLAPS

-----------------------------------------------------------------------------
(* The uses the proofs are about. *)

\* Heads and the bytes that belong to them; the last object may be cut off.
WellFormed(s) ==
    /\ s # <<>> => s[1].k # "data"
    /\ \A i \in DOMAIN s :
         s[i].k # "data" /\ Behind(s, i) \in DOMAIN s => s[Behind(s, i)].k # "data"
    /\ \A i \in DOMAIN s : s[i].k = "bad" => s[i].cast = 0

\* May a call end with entries on the stack for the next one?
KeepsStack(u) == u.io \/ "each" \in u.ops

\* Procs that call skip lose entries, skip_nil and the header calls drop the
\* byte 0xc1, and after an extension type that is unknown or whose proc raised
\* the head byte is decoded again, behind its body.
SoundUse(u) ==
    /\ \A s \in u.streams : WellFormed(s)
    /\ u.proc_ops \subseteq {"read"}
    /\ u.go_on \subseteq Errors \ {"unknown", "raised"}
    /\ "header" \in u.ops /\ "each" \in u.ops => u.io
    /\ KeepsStack(u) /\ {"header", "skip_nil"} \cap u.ops # {}
         => \A s \in u.streams : \A i \in DOMAIN s : s[i].k # "bad"

SoundUses == \A u \in Uses : SoundUse(u)

\* No recursive extension type on the last level: the push is refused there
\* and the proc is called all the same.
RoomForProcs ==
    Running({"read", "skip"}) /\ raw = 0 /\ CastReady /\ H.k = "rec" => ~ StackFull
-----------------------------------------------------------------------------
(* The invariant. *)

\* Which calls run, and how they lie one in the other.
CallsInv ==
    /\ frames # <<>> => /\ outcome = "none"
                        /\ frames[1].op # "proc"
                        /\ frames[1].op = "read" => mode \in {"read", "each", "full"}
                        /\ frames[1].op \in {"skip", "skip_nil"} => mode = frames[1].op
                        /\ frames[1].op \in Containers => mode = "header"
                        /\ frames[1].op \in {"read", "skip"} => allocated
    /\ \A i \in DOMAIN frames : i > 1 =>
         /\ frames[i - 1].op \in {"read", "skip"} <=> frames[i].op = "proc"
         /\ frames[i].op # "proc" =>
              /\ frames[i].op \in use.proc_ops /\ ~ frames[i].own
              /\ frames[i - 1].op = "proc" /\ frames[i - 1].left > 0
    /\ phase = "yield" => mode = "each" /\ outcome \in {"none", "ok"}
    /\ phase = "completed" => Top.op \in {"read", "skip"}

\* The head byte that is kept, and where the next head is.
HeadInv ==
    outcome \notin {"unknown", "raised"} =>
      IF HeadKept
      THEN /\ head_at \in 1 .. pos /\ head = input[head_at]
           /\ head.k \notin {"data", "bad"}
           /\ IF raw = 0 THEN pos = head_at
              ELSE head.k \in RawKinds /\ head_at + head.cast + head.n = pos + raw
      ELSE /\ raw = 0
           /\ pos < Len(input) => input[pos + 1].k # "data"

\* Where the object begins that is being read, or was completed last.
Frontier == IF phase = "completed" THEN last.at ELSE HAt

\* Where the element begins that the entry j waits for.
ElementStart(j) == IF j < Len(stack) THEN stack[j + 1].at ELSE Frontier

First(i) == i + input[i].cast + 1

\* The entries nest, and their elements are there.
Nested(j) ==
    /\ stack[j].at \in 1 .. pos /\ First(stack[j].at) <= pos + 1
    /\ stack[j].at < ElementStart(j)
    /\ stack[j].type = "rec" <=> input[stack[j].at].k = "rec"
    /\ stack[j].type # "rec" => input[stack[j].at].k \in Containers
    /\ Elements(input[stack[j].at]) > 0

\* The entries of the procs are those of the procs that run, in their order;
\* that of the innermost is on top.
ProcsMatch ==
    /\ \A j \in RecEntries : \E i \in ProcFrames : stack[j].at = frames[i].at
    /\ \A i \in ProcFrames : \E j \in RecEntries : stack[j].at = frames[i].at
    /\ \A i, j \in ProcFrames : i < j => frames[i].at < frames[j].at
TopMatches ==
    frames # <<>> /\ Top.op = "proc" =>
      /\ phase = "run" /\ ~ HeadKept
      /\ stack # <<>> /\ Last(stack).type = "rec" /\ Last(stack).at = Top.at

NestInv == (\A j \in DOMAIN stack : Nested(j)) /\ ProcsMatch /\ TopMatches

\* An entry has counted the elements in front of the one it waits for.
Counts(j) ==
    stack[j].type # "rec" =>
      LET n == Elements(input[stack[j].at])
      IN  /\ stack[j].count <= n
          /\ ElementStart(j) = ElementAt(input, stack[j].at, n - stack[j].count + 1)

\* A proc has got them.
Got(f, j) ==
    stack[j].at = f.at =>
      /\ Len(f.got) + f.left = Elements(input[stack[j].at])
      /\ ElementStart(j) = ElementAt(input, stack[j].at, Len(f.got) + 1)
      /\ \A k \in DOMAIN f.got : f.got[k] = ElementAt(input, stack[j].at, k)

PathInv ==
    /\ \A j \in DOMAIN stack : Counts(j)
    /\ \A i \in ProcFrames, j \in DOMAIN stack : Got(frames[i], j)

\* The elements that are stored in the container of an entry.
Holds(e) ==
    LET n == Elements(input[e.at])
    IN  /\ \A k \in DOMAIN e.kids : e.kids[k] = ElementAt(input, e.at, k)
        /\ e.type \in {"arr", "key"} => Len(e.kids) = n - e.count
        /\ e.type = "key" => \E h \in 0 .. e.count : e.count = 2 * h
        /\ e.type = "value" => /\ Len(e.kids) + 1 = n - e.count
                               /\ e.key = ElementAt(input, e.at, n - e.count)
                               /\ \E h \in 0 .. e.count : e.count = 2 * h + 1

\* All but the containers that a skip goes through.
KidsInv ==
    ~ SkipsMixIn => \A j \in DOMAIN stack \ RecEntries :
      \/ Holds(stack[j])
      \/ frames # <<>> /\ frames[1].op = "skip" /\ \A i \in RecEntries : j < i

\* The object that was completed.
CompletedInv ==
    phase = "completed" =>
      /\ ~ HeadKept /\ raw = 0
      /\ last.at \in 1 .. pos /\ last.to = pos
      /\ ObjectsGenuine

\* When the stack is empty.
EmptyInv ==
    /\ StackEmptyAfterCall
    /\ ~ KeepsStack(use) /\ (frames = <<>> \/ Top.op \in {"skip_nil"} \cup Containers)
         => stack = <<>>
    /\ frames # <<>> /\ Top.op \in Containers => stack = <<>>

\* Where the object begins that the owner gets next, or got last.
Begun == IF stack = <<>> THEN Frontier ELSE stack[1].at

\* What was delivered, and what comes next.
OrderInv ==
    Streaming =>
      /\ EachInOrder
      /\ outcome \notin Errors => Delivered + 1 = Begun

StreamInv == /\ HeadInv /\ NestInv /\ PathInv /\ KidsInv
             /\ CompletedInv /\ EmptyInv /\ OrderInv /\ EachDrains

Inv == TypeOK /\ CallsInv /\ StreamInv
-----------------------------------------------------------------------------
(* Sequences and numbers. *)

LEMMA PrefixIs ==
  ASSUME NEW S, NEW s \in Seq(S), NEW n \in Int, 0 <= n, n <= Len(s)
  PROVE  /\ SubSeq(s, 1, n) \in Seq(S) /\ Len(SubSeq(s, 1, n)) = n
         /\ \A i \in 1 .. n : SubSeq(s, 1, n)[i] = s[i]
<1>1. \A i \in 1 .. n : s[i] \in S
  OBVIOUS
<1>2. /\ SubSeq(s, 1, n) \in Seq(S)
      /\ Len(SubSeq(s, 1, n)) = IF 1 <= n THEN n - 1 + 1 ELSE 0
      /\ \A i \in 1 .. n - 1 + 1 : SubSeq(s, 1, n)[i] = s[1 + i - 1]
  BY <1>1, SubSeqProperties
<1>3. n - 1 + 1 = n /\ \A i \in 1 .. n : 1 + i - 1 = i
  OBVIOUS
<1> QED
  BY <1>2, <1>3

LEMMA FrontIs ==
  ASSUME NEW S, NEW s \in Seq(S), s # <<>>
  PROVE  /\ Len(s) \in Nat /\ Len(s) >= 1
         /\ Last(s) = s[Len(s)] /\ Last(s) \in S
         /\ Front(s) \in Seq(S) /\ Len(Front(s)) = Len(s) - 1
         /\ \A i \in 1 .. Len(s) - 1 : Front(s)[i] = s[i]
<1>1. Len(s) \in Nat /\ Len(s) >= 1
  BY EmptySeq
<1>2. s[Len(s)] \in S
  BY <1>1
<1>3. Len(s) - 1 \in Int /\ 0 <= Len(s) - 1 /\ Len(s) - 1 <= Len(s)
  BY <1>1
<1>4. /\ SubSeq(s, 1, Len(s) - 1) \in Seq(S)
      /\ Len(SubSeq(s, 1, Len(s) - 1)) = Len(s) - 1
      /\ \A i \in 1 .. Len(s) - 1 : SubSeq(s, 1, Len(s) - 1)[i] = s[i]
  BY <1>3, PrefixIs
<1> QED
  BY <1>1, <1>2, <1>4 DEF Last, Front

LEMMA AppendIs ==
  ASSUME NEW S, NEW s \in Seq(S), NEW e \in S
  PROVE  /\ Append(s, e) \in Seq(S) /\ Append(s, e) # <<>>
         /\ Len(Append(s, e)) = Len(s) + 1 /\ Len(s) \in Nat
         /\ \A i \in 1 .. Len(s) : Append(s, e)[i] = s[i]
         /\ Append(s, e)[Len(s) + 1] = e
         /\ Last(Append(s, e)) = e
<1>1. /\ Append(s, e) \in Seq(S) /\ Append(s, e) # <<>>
      /\ Len(Append(s, e)) = Len(s) + 1 /\ Len(s) \in Nat
      /\ \A i \in 1 .. Len(s) : Append(s, e)[i] = s[i]
      /\ Append(s, e)[Len(s) + 1] = e
  BY AppendProperties
<1> QED
  BY <1>1 DEF Last

\* The last element is another one.
LEMMA PushIs ==
  ASSUME NEW S, NEW s \in Seq(S), s # <<>>, NEW e \in S
  PROVE  /\ Push(s, e) \in Seq(S) /\ Push(s, e) # <<>> /\ Len(Push(s, e)) = Len(s)
         /\ \A i \in 1 .. Len(s) - 1 : Push(s, e)[i] = s[i]
         /\ Push(s, e)[Len(s)] = e
<1> DEFINE f == Front(s)
<1>1. /\ f \in Seq(S) /\ Len(f) = Len(s) - 1 /\ Len(s) \in Nat /\ Len(s) >= 1
      /\ \A i \in 1 .. Len(s) - 1 : f[i] = s[i]
  BY FrontIs
<1>2. Push(s, e) = Append(f, e)
  BY DEF Push
<1> HIDE DEF f
<1>3. /\ Append(f, e) \in Seq(S) /\ Append(f, e) # <<>>
      /\ Len(Append(f, e)) = Len(f) + 1
      /\ \A i \in 1 .. Len(f) : Append(f, e)[i] = f[i]
      /\ Append(f, e)[Len(f) + 1] = e
  BY <1>1, AppendIs
<1>4. Len(f) + 1 = Len(s)
  BY <1>1
<1> QED
  BY <1>1, <1>2, <1>3, <1>4

\* The two last elements make way for another one.
LEMMA PopPushIs ==
  ASSUME NEW S, NEW s \in Seq(S), Len(s) >= 2, NEW e \in S
  PROVE  LET t == Append(SubSeq(s, 1, Len(s) - 2), e)
         IN  /\ t \in Seq(S) /\ t # <<>> /\ Len(t) = Len(s) - 1
             /\ \A i \in 1 .. Len(s) - 2 : t[i] = s[i]
             /\ t[Len(s) - 1] = e /\ Last(t) = e
<1> DEFINE f == SubSeq(s, 1, Len(s) - 2)
<1>0. Len(s) \in Nat
  OBVIOUS
<1>1. Len(s) - 2 \in Int /\ 0 <= Len(s) - 2 /\ Len(s) - 2 <= Len(s)
  BY <1>0
<1>2. f \in Seq(S) /\ Len(f) = Len(s) - 2 /\ \A i \in 1 .. Len(s) - 2 : f[i] = s[i]
  BY <1>1, PrefixIs
<1> HIDE DEF f
<1>3. /\ Append(f, e) \in Seq(S) /\ Append(f, e) # <<>>
      /\ Len(Append(f, e)) = Len(f) + 1
      /\ \A i \in 1 .. Len(f) : Append(f, e)[i] = f[i]
      /\ Append(f, e)[Len(f) + 1] = e /\ Last(Append(f, e)) = e
  BY <1>2, AppendIs
<1>4. Len(f) + 1 = Len(s) - 1
  BY <1>0, <1>2
<1> QED
  BY <1>2, <1>3, <1>4 DEF f
-----------------------------------------------------------------------------
(* Where objects end. *)

\* A nonempty set of natural numbers has a least element.
LEMMA Least ==
  ASSUME NEW S \in SUBSET Nat, S # {}
  PROVE  \E x \in S : \A y \in S : x <= y
<1>1. PICK x \in S : \A y \in S : <<y, x>> \notin OpToRel(<, Nat)
  BY NatLessThanWellFounded, WFMin
<1>2. \A y \in S : ~(y < x)
  BY <1>1, Zenon DEF OpToRel
<1> QED
  BY <1>2

\* Induction from m down to 1, for the set B of what fails.
LEMMA Descend ==
  ASSUME NEW m \in Nat, NEW B, B \subseteq 1 .. m,
         \A i \in 1 .. m : (\A k \in i + 1 .. m : k \notin B) => i \notin B
  PROVE  B = {}
<1> SUFFICES ASSUME B # {} PROVE FALSE
  OBVIOUS
<1> DEFINE D == {d \in 0 .. m : m - d \in B}
<1>1. D \in SUBSET Nat /\ D # {}
  <2>1. PICK i \in B : i \in 1 .. m
    OBVIOUS
  <2>2. m - i \in 0 .. m /\ m - (m - i) = i
    BY <2>1
  <2>3. m - i \in D
    BY <2>1, <2>2
  <2>4. D \subseteq 0 .. m
    OBVIOUS
  <2> HIDE DEF D
  <2> QED
    BY <2>3, <2>4
<1> HIDE DEF D
<1>2. PICK d \in D : \A e \in D : d <= e
  BY <1>1, Least
<1>3. PICK i \in B : d = m - i
  <2>1. d \in 0 .. m /\ m - d \in B /\ d = m - (m - d)
    BY DEF D
  <2> QED
    BY <2>1
<1>4. ASSUME NEW k \in i + 1 .. m, k \in B PROVE FALSE
  <2>1. m - k \in D
    <3>1. m - k \in 0 .. m /\ m - (m - k) = k
      BY <1>4
    <3> QED
      BY <1>4, <3>1 DEF D
  <2>2. d <= m - k
    BY <1>2, <2>1
  <2> QED
    BY <1>3, <1>4, <2>2
<1> QED
  BY <1>3, <1>4

\* The steps of ObjectsEnd.
Places(s) == (1 .. Len(s) + 1) \X Nat
Ahead(s, end, x) ==
    IF x[2] = 0 THEN x[1] - 1
    ELSE IF x[1] > Len(s) \/ Behind(s, x[1]) > Len(s) + 1 THEN Len(s) + 1
    ELSE end[<<Behind(s, x[1]), x[2] - 1 + Elements(s[x[1]])>>]

LEMMA ByteFields ==
  ASSUME NEW b \in Byte
  PROVE  b.k \in Kinds /\ b.cast \in Nat /\ b.n \in Nat /\ Elements(b) \in Nat
BY DEF Byte, Elements

LEMMA BehindIs ==
  ASSUME NEW s \in Seq(Byte), NEW i \in 1 .. Len(s)
  PROVE  Behind(s, i) \in Nat /\ Behind(s, i) > i
<1>1. s[i].cast \in Nat /\ s[i].n \in Nat
  BY ByteFields
<1> QED
  BY <1>1, SMTT(30) DEF Behind

LEMMA AheadAgrees ==
  ASSUME NEW s \in Seq(Byte), NEW f, NEW g, NEW x \in Places(s),
         \A y \in Places(s) : y[1] > x[1] => f[y] = g[y]
  PROVE  Ahead(s, f, x) = Ahead(s, g, x)
<1>1. x[1] \in 1 .. Len(s) + 1 /\ x[2] \in Nat /\ Len(s) \in Nat
  BY DEF Places
<1>2. CASE x[2] # 0 /\ x[1] <= Len(s) /\ Behind(s, x[1]) <= Len(s) + 1
  <2> DEFINE y == <<Behind(s, x[1]), x[2] - 1 + Elements(s[x[1]])>>
  <2>1. Behind(s, x[1]) \in Nat /\ Behind(s, x[1]) > x[1] /\ Elements(s[x[1]]) \in Nat
    BY <1>1, <1>2, BehindIs, ByteFields
  <2>2. y \in Places(s) /\ y[1] > x[1]
    BY <1>1, <1>2, <2>1 DEF Places
  <2>3. f[y] = g[y]
    BY <2>2
  <2> QED
    BY <1>2, <2>3 DEF Ahead
<1>3. CASE ~(x[2] # 0 /\ x[1] <= Len(s) /\ Behind(s, x[1]) <= Len(s) + 1)
  <2>1. \/ x[2] = 0
        \/ x[1] > Len(s)
        \/ x[1] <= Len(s) /\ Behind(s, x[1]) > Len(s) + 1
    <3>1. x[1] <= Len(s) => Behind(s, x[1]) \in Nat
      BY <1>1, BehindIs
    <3> QED
      BY <1>1, <1>3, <3>1
  <2> QED
    BY <2>1 DEF Ahead
<1> QED
  BY <1>2, <1>3

LEMMA EndSolved ==
  ASSUME NEW s \in Seq(Byte)
  PROVE  \E f : \A x \in Places(s) : /\ f[x] = Ahead(s, f, x)
                                     /\ ObjectsEnd(s, x[1], x[2]) = f[x]
<1> DEFINE m == Len(s) + 1
           end == CHOOSE f : f = [x \in Places(s) |-> Ahead(s, f, x)]
           Solves(f, d) == \A x \in Places(s) : x[1] >= d => f[x] = Ahead(s, f, x)
           B == {d \in 1 .. m : ~ \E f : Solves(f, d)}
<1>0. m \in Nat /\ m >= 1
  OBVIOUS
<1>w. \A x \in Places(s) : x[1] \in 1 .. m
  BY DEF Places
<1> HIDE DEF m
<1>1. ASSUME NEW d \in 1 .. m, \A k \in d + 1 .. m : k \notin B
      PROVE  d \notin B
  <2>1. \E f : Solves(f, d + 1)
    <3>1. CASE d = m
      BY <1>0, <1>w, <3>1
    <3>2. CASE d # m
      <4>1. d + 1 \in d + 1 .. m /\ d + 1 \in 1 .. m
        BY <1>0, <3>2
      <4>2. d + 1 \notin B
        BY <1>1, <4>1
      <4> HIDE DEF Solves
      <4> QED
        BY <4>1, <4>2
    <3> QED
      BY <3>1, <3>2
  <2>2. PICK f : Solves(f, d + 1)
    BY <2>1
  <2> DEFINE g == [x \in Places(s) |-> Ahead(s, f, x)]
  <2>3. \A x \in Places(s) : g[x] = Ahead(s, f, x)
    OBVIOUS
  <2> HIDE DEF g
  <2>4. ASSUME NEW x \in Places(s), x[1] >= d
        PROVE  g[x] = Ahead(s, g, x)
    <3>1. ASSUME NEW y \in Places(s), y[1] > x[1] PROVE f[y] = g[y]
      <4>1. y[1] >= d + 1
        BY <1>w, <2>4, <3>1
      <4> QED
        BY <2>2, <2>3, <4>1
    <3>2. Ahead(s, f, x) = Ahead(s, g, x)
      BY <3>1, AheadAgrees
    <3> QED
      BY <2>3, <3>2
  <2>5. Solves(g, d)
    BY <2>4
  <2> HIDE DEF Solves
  <2> QED
    BY <2>5
<1>2. B = {}
  <2>1. B \subseteq 1 .. m
    OBVIOUS
  <2> HIDE DEF B
  <2> QED
    BY <1>0, <1>1, <2>1, Descend
<1>3. PICK f : Solves(f, 1)
  <2>1. 1 \notin B /\ 1 \in 1 .. m
    <3> HIDE DEF B
    <3> QED
      BY <1>0, <1>2
  <2> HIDE DEF Solves
  <2> QED
    BY <2>1
<1>4. \A x \in Places(s) : f[x] = Ahead(s, f, x)
  BY <1>3, <1>w
<1> DEFINE g == [x \in Places(s) |-> f[x]]
<1>5. \A x \in Places(s) : g[x] = Ahead(s, g, x)
  <2>1. \A x \in Places(s) : g[x] = f[x]
    OBVIOUS
  <2> HIDE DEF g
  <2>2. \A x \in Places(s) : Ahead(s, f, x) = Ahead(s, g, x)
    BY <2>1, AheadAgrees
  <2> QED
    BY <1>4, <2>1, <2>2
<1>6. g = [x \in Places(s) |-> g[x]]
  OBVIOUS
<1> HIDE DEF g
<1>7. g = [x \in Places(s) |-> Ahead(s, g, x)]
  BY <1>5, <1>6
<1>8. end = [x \in Places(s) |-> Ahead(s, end, x)]
  BY <1>7
<1>9. \A i, n : ObjectsEnd(s, i, n) = end[<<i, n>>]
  BY DEF ObjectsEnd, Ahead, Places
<1> HIDE DEF end
<1>10. \A x \in Places(s) : end[x] = Ahead(s, end, x)
  BY <1>8, Zenon
<1>11. \A x \in Places(s) : x = <<x[1], x[2]>>
  BY DEF Places
<1>12. \A x \in Places(s) : ObjectsEnd(s, x[1], x[2]) = end[x]
  BY <1>9, <1>11
<1> QED
  BY <1>10, <1>12

LEMMA EndEquation ==
  ASSUME NEW s \in Seq(Byte), NEW i \in 1 .. Len(s) + 1, NEW n \in Nat
  PROVE  ObjectsEnd(s, i, n) =
           IF n = 0 THEN i - 1
           ELSE IF i > Len(s) \/ Behind(s, i) > Len(s) + 1 THEN Len(s) + 1
           ELSE ObjectsEnd(s, Behind(s, i), n - 1 + Elements(s[i]))
<1>1. PICK f : \A x \in Places(s) : /\ f[x] = Ahead(s, f, x)
                                    /\ ObjectsEnd(s, x[1], x[2]) = f[x]
  BY EndSolved
<1> DEFINE x == <<i, n>>
           y == <<Behind(s, i), n - 1 + Elements(s[i])>>
<1>2. x \in Places(s) /\ x[1] = i /\ x[2] = n
  BY DEF Places
<1>3. ObjectsEnd(s, i, n) = Ahead(s, f, x)
  BY <1>1, <1>2
<1>4. ASSUME n # 0, i <= Len(s), Behind(s, i) <= Len(s) + 1
      PROVE  ObjectsEnd(s, Behind(s, i), n - 1 + Elements(s[i])) = f[y]
  <2>1. Behind(s, i) \in Nat /\ Behind(s, i) > i /\ Elements(s[i]) \in Nat
    BY <1>4, BehindIs, ByteFields
  <2>2. y \in Places(s) /\ y[1] = Behind(s, i) /\ y[2] = n - 1 + Elements(s[i])
    BY <1>4, <2>1 DEF Places
  <2> QED
    BY <1>1, <2>2
<1>5. Ahead(s, f, x) = IF n = 0 THEN i - 1
                       ELSE IF i > Len(s) \/ Behind(s, i) > Len(s) + 1 THEN Len(s) + 1
                       ELSE f[y]
  BY <1>2 DEF Ahead
<1>6. i <= Len(s) => Behind(s, i) \in Nat
  BY BehindIs
<1> HIDE DEF x, y
<1>7. Len(s) \in Nat /\ i \in Nat
  OBVIOUS
<1> QED
  BY <1>3, <1>4, <1>5, <1>6, <1>7

\* An object takes its place.
LEMMA EndRange ==
  ASSUME NEW s \in Seq(Byte), NEW i \in 1 .. Len(s) + 1, NEW n \in Nat, n # 0
  PROVE  ObjectsEnd(s, i, n) \in i .. Len(s) + 1
<1> DEFINE m == Len(s) + 1
           B == {j \in 1 .. m : \E k \in Nat \ {0} : ObjectsEnd(s, j, k) \notin j .. m}
<1>0. m \in Nat /\ Len(s) \in Nat /\ m = Len(s) + 1
  OBVIOUS
<1>m. m \in Nat
  BY <1>0
<1> HIDE DEF m
<1>1. ASSUME NEW j \in 1 .. m, \A k \in j + 1 .. m : k \notin B
      PROVE  j \notin B
  <2> SUFFICES ASSUME NEW k \in Nat \ {0} PROVE ObjectsEnd(s, j, k) \in j .. m
    OBVIOUS
  <2>1. ObjectsEnd(s, j, k) =
          IF j > Len(s) \/ Behind(s, j) > Len(s) + 1 THEN Len(s) + 1
          ELSE ObjectsEnd(s, Behind(s, j), k - 1 + Elements(s[j]))
    BY <1>0, EndEquation
  <2>2. CASE j > Len(s) \/ Behind(s, j) > Len(s) + 1
    BY <1>0, <2>1, <2>2
  <2>3. CASE ~(j > Len(s) \/ Behind(s, j) > Len(s) + 1)
    <3> DEFINE b == Behind(s, j)
               c == k - 1 + Elements(s[j])
    <3>1. b \in Nat /\ b > j /\ Elements(s[j]) \in Nat
      BY <1>0, <2>3, BehindIs, ByteFields
    <3>2. b \in j + 1 .. m /\ c \in Nat /\ ObjectsEnd(s, j, k) = ObjectsEnd(s, b, c)
      BY <1>0, <2>1, <2>3, <3>1
    <3> HIDE DEF b, c
    <3>3. CASE c = 0
      <4>1. ObjectsEnd(s, b, 0) = b - 1
        BY <1>0, <3>2, EndEquation
      <4> QED
        BY <1>0, <3>2, <3>3, <4>1
    <3>4. CASE c # 0
      <4>1. ObjectsEnd(s, b, c) \in b .. m
        BY <1>0, <1>1, <3>2, <3>4
      <4> QED
        BY <1>0, <3>2, <4>1
    <3> QED
      BY <3>3, <3>4
  <2> QED
    BY <2>2, <2>3
<1>2. B = {}
  <2>1. B \subseteq 1 .. m
    OBVIOUS
  <2> HIDE DEF B
  <2> QED
    BY <1>m, <1>1, <2>1, Descend
<1>3. i \in 1 .. m
  BY <1>0
<1> QED
  BY <1>0, <1>2, <1>3

LEMMA EndOfNone ==
  ASSUME NEW s \in Seq(Byte), NEW i \in 1 .. Len(s) + 1
  PROVE  ObjectsEnd(s, i, 0) = i - 1
BY EndEquation

\* m and n objects are m + n objects.
LEMMA EndSplits ==
  ASSUME NEW s \in Seq(Byte), NEW i \in 1 .. Len(s) + 1, NEW m \in Nat, NEW n \in Nat,
         ObjectsEnd(s, i, m) <= Len(s)
  PROVE  ObjectsEnd(s, i, m + n) = ObjectsEnd(s, ObjectsEnd(s, i, m) + 1, n)
<1> DEFINE z == Len(s) + 1
           Splits(j, a, b) == ObjectsEnd(s, j, a) <= Len(s) =>
             ObjectsEnd(s, j, a + b) = ObjectsEnd(s, ObjectsEnd(s, j, a) + 1, b)
           B == {j \in 1 .. z : \E a \in Nat, b \in Nat : ~ Splits(j, a, b)}
<1>0. z \in Nat /\ Len(s) \in Nat /\ z = Len(s) + 1
  OBVIOUS
<1>m. z \in Nat
  BY <1>0
<1> HIDE DEF z
<1>1. ASSUME NEW j \in 1 .. z, \A k \in j + 1 .. z : k \notin B
      PROVE  j \notin B
  <2> SUFFICES ASSUME NEW a \in Nat, NEW b \in Nat, ObjectsEnd(s, j, a) <= Len(s)
               PROVE  ObjectsEnd(s, j, a + b) = ObjectsEnd(s, ObjectsEnd(s, j, a) + 1, b)
    OBVIOUS
  <2>1. CASE a = 0
    <3>1. ObjectsEnd(s, j, a) = j - 1 /\ j - 1 + 1 = j /\ a + b = b
      BY <1>0, <2>1, EndOfNone
    <3> QED
      BY <3>1
  <2>2. CASE a # 0
    <3> DEFINE k == Behind(s, j)
               e == Elements(s[j])
    <3>1. ObjectsEnd(s, j, a) =
            IF j > Len(s) \/ k > Len(s) + 1 THEN Len(s) + 1
            ELSE ObjectsEnd(s, k, a - 1 + e)
      BY <1>0, <2>2, EndEquation
    <3>2. ~(j > Len(s) \/ k > Len(s) + 1) /\ ObjectsEnd(s, j, a) = ObjectsEnd(s, k, a - 1 + e)
      <4> HIDE DEF k, e
      <4> QED
        BY <1>0, <3>1
    <3>3. k \in Nat /\ k > j /\ e \in Nat
      BY <1>0, <3>2, BehindIs, ByteFields
    <3>4. a + b \in Nat /\ a + b # 0 /\ a - 1 + e \in Nat /\ a + b - 1 + e = (a - 1 + e) + b
      <4> HIDE DEF k, e
      <4> QED
        BY <2>2, <3>3
    <3>5. ObjectsEnd(s, j, a + b) = ObjectsEnd(s, k, a + b - 1 + e)
      <4>1. ObjectsEnd(s, j, a + b) =
              IF a + b = 0 THEN j - 1
              ELSE IF j > Len(s) \/ Behind(s, j) > Len(s) + 1 THEN Len(s) + 1
              ELSE ObjectsEnd(s, Behind(s, j), a + b - 1 + Elements(s[j]))
        BY <1>0, <3>4, EndEquation
      <4> QED
        BY <3>2, <3>4, <4>1
    <3> HIDE DEF k, e
    <3>6. k \in j + 1 .. z
      BY <1>0, <3>2, <3>3
    <3>7. Splits(k, a - 1 + e, b)
      <4> HIDE DEF Splits
      <4> QED
        BY <1>0, <1>1, <3>4, <3>6
    <3> QED
      BY <3>2, <3>4, <3>5, <3>7
  <2> QED
    BY <2>1, <2>2
<1>2. B = {}
  <2>1. B \subseteq 1 .. z
    OBVIOUS
  <2> HIDE DEF B
  <2> QED
    BY <1>m, <1>1, <2>1, Descend
<1>3. Splits(i, m, n)
  <2> HIDE DEF Splits
  <2>1. i \in 1 .. z
    BY <1>0
  <2> QED
    BY <1>2, <2>1
<1> QED
  BY <1>3

\* Does the object that starts at i have elements?
IsOpen(s, i) == Elements(s[i]) > 0 /\ i + s[i].cast <= Len(s)

LEMMA OpenIs ==
  ASSUME NEW s \in Seq(Byte), NEW i \in 1 .. Len(s), IsOpen(s, i)
  PROVE  /\ i + s[i].cast + 1 \in 1 .. Len(s) + 1
         /\ s[i].cast \in Nat /\ Elements(s[i]) \in Nat \ {0}
         /\ Behind(s, i) = i + s[i].cast + 1
<1>1. s[i].cast \in Nat /\ s[i].n \in Nat /\ Elements(s[i]) \in Nat
  BY ByteFields
<1>2. s[i].k \notin RawKinds
  BY DEF IsOpen, Elements, RawKinds
<1> QED
  BY <1>1, <1>2 DEF IsOpen, Behind

LEMMA FirstElement ==
  ASSUME NEW s \in Seq(Byte), NEW i \in 1 .. Len(s), IsOpen(s, i)
  PROVE  ElementAt(s, i, 1) = i + s[i].cast + 1
<1> DEFINE f == i + s[i].cast + 1
<1>1. f \in 1 .. Len(s) + 1
  BY OpenIs
<1>2. ElementAt(s, i, 1) = ObjectsEnd(s, f, 1 - 1) + 1
  BY DEF ElementAt
<1> HIDE DEF f
<1>3. ObjectsEnd(s, f, 0) = f - 1 /\ 1 - 1 = 0 /\ f \in Nat
  BY <1>1, EndOfNone
<1>4. ElementAt(s, i, 1) = f
  BY <1>2, <1>3
<1> QED
  BY <1>4 DEF f

\* Where an element is over the next one begins.
LEMMA NextElement ==
  ASSUME NEW s \in Seq(Byte), NEW i \in 1 .. Len(s), IsOpen(s, i), NEW k \in Nat, k # 0,
         ElementAt(s, i, k) \in 1 .. Len(s) + 1
  PROVE  ElementAt(s, i, k + 1) = ObjectsEnd(s, ElementAt(s, i, k), 1) + 1
<1> DEFINE f == i + s[i].cast + 1
           e == ObjectsEnd(s, f, k - 1)
<1>1. f \in 1 .. Len(s) + 1 /\ Len(s) \in Nat /\ k - 1 \in Nat /\ k + 1 - 1 = k - 1 + 1
  BY OpenIs
<1>2. ElementAt(s, i, k) = e + 1 /\ ElementAt(s, i, k + 1) = ObjectsEnd(s, f, k - 1 + 1) + 1
  BY <1>1 DEF ElementAt
<1>3. e <= Len(s)
  <2>1. e \in Int
    <3>1. k - 1 = 0 => e = f - 1
      BY <1>1, EndOfNone
    <3>2. k - 1 # 0 => e \in f .. Len(s) + 1
      BY <1>1, EndRange
    <3> HIDE DEF e, f
    <3> QED
      BY <1>1, <3>1, <3>2
  <2> HIDE DEF e
  <2> QED
    BY <1>1, <1>2, <2>1
<1>4. ObjectsEnd(s, f, k - 1 + 1) = ObjectsEnd(s, e + 1, 1)
  <2> HIDE DEF f
  <2> QED
    BY <1>1, <1>3, EndSplits
<1> QED
  BY <1>2, <1>4

\* Where the last element is over the object is.
LEMMA LastElement ==
  ASSUME NEW s \in Seq(Byte), NEW i \in 1 .. Len(s), IsOpen(s, i)
  PROVE  ElementAt(s, i, Elements(s[i]) + 1) = ObjectsEnd(s, i, 1) + 1
<1> DEFINE f == i + s[i].cast + 1
           n == Elements(s[i])
<1>1. f \in 1 .. Len(s) + 1 /\ n \in Nat /\ Behind(s, i) = f
  BY OpenIs
<1>2. ObjectsEnd(s, i, 1) = IF 1 = 0 THEN i - 1
                            ELSE IF i > Len(s) \/ Behind(s, i) > Len(s) + 1 THEN Len(s) + 1
                            ELSE ObjectsEnd(s, Behind(s, i), 1 - 1 + Elements(s[i]))
  BY EndEquation
<1>3. 1 - 1 + n = n /\ n + 1 - 1 = n /\ ~(i > Len(s)) /\ ~(f > Len(s) + 1)
  BY <1>1
<1>4. ObjectsEnd(s, i, 1) = ObjectsEnd(s, f, n)
  <2> HIDE DEF f
  <2> QED
    BY <1>1, <1>2, <1>3
<1>5. ElementAt(s, i, n + 1) = ObjectsEnd(s, f, n + 1 - 1) + 1
  <2> HIDE DEF n
  <2> QED
    BY <1>1 DEF ElementAt
<1> QED
  BY <1>3, <1>4, <1>5

\* An object without elements.
LEMMA LeafEnds ==
  ASSUME NEW s \in Seq(Byte), NEW i \in 1 .. Len(s), Elements(s[i]) = 0
  PROVE  ObjectsEnd(s, i, 1) = IF Behind(s, i) > Len(s) + 1 THEN Len(s) + 1
                               ELSE Behind(s, i) - 1
<1>1. ObjectsEnd(s, i, 1) = IF 1 = 0 THEN i - 1
                            ELSE IF i > Len(s) \/ Behind(s, i) > Len(s) + 1 THEN Len(s) + 1
                            ELSE ObjectsEnd(s, Behind(s, i), 1 - 1 + Elements(s[i]))
  BY EndEquation
<1>2. 1 - 1 + Elements(s[i]) = 0 /\ ~(i > Len(s)) /\ Behind(s, i) \in Nat /\ Behind(s, i) > i
  BY BehindIs
<1>3. Behind(s, i) <= Len(s) + 1 => ObjectsEnd(s, Behind(s, i), 0) = Behind(s, i) - 1
  BY <1>2, EndOfNone
<1> DEFINE b == Behind(s, i)
<1> HIDE DEF b
<1> QED
  BY <1>1, <1>2, <1>3

\* No object ends before its own bytes do.
LEMMA EndBehind ==
  ASSUME NEW s \in Seq(Byte), NEW i \in 1 .. Len(s)
  PROVE  ObjectsEnd(s, i, 1) = Len(s) + 1 \/ ObjectsEnd(s, i, 1) >= Behind(s, i) - 1
<1>1. ObjectsEnd(s, i, 1) = IF 1 = 0 THEN i - 1
                            ELSE IF i > Len(s) \/ Behind(s, i) > Len(s) + 1 THEN Len(s) + 1
                            ELSE ObjectsEnd(s, Behind(s, i), 1 - 1 + Elements(s[i]))
  BY EndEquation
<1> DEFINE b == Behind(s, i)
           e == Elements(s[i])
           l == Len(s)
<1>2. b \in Nat /\ b > i /\ e \in Nat /\ l \in Nat
  BY BehindIs, ByteFields
<1>5. 1 - 1 + e = e
  BY <1>2
<1>6. ObjectsEnd(s, i, 1) = IF b > l + 1 THEN l + 1 ELSE ObjectsEnd(s, b, e)
  BY <1>1, <1>5
<1> HIDE DEF b, e
<1>7. b <= l + 1 => b \in 1 .. Len(s) + 1
  BY <1>2
<1>3. b <= l + 1 /\ e # 0 => ObjectsEnd(s, b, e) \in b .. l + 1
  BY <1>2, <1>7, EndRange
<1>4. b <= l + 1 /\ e = 0 => ObjectsEnd(s, b, e) = b - 1
  BY <1>2, <1>7, EndOfNone
<1>8. ObjectsEnd(s, i, 1) = l + 1 \/ ObjectsEnd(s, i, 1) >= b - 1
  BY <1>2, <1>3, <1>4, <1>6
<1> QED
  BY <1>8 DEF b, l

\* More objects do not end earlier.
LEMMA EndGrows ==
  ASSUME NEW s \in Seq(Byte), NEW i \in 1 .. Len(s) + 1, NEW m \in Nat, m # 0, NEW n \in Nat
  PROVE  ObjectsEnd(s, i, m) <= ObjectsEnd(s, i, m + n)
<1> DEFINE z == Len(s) + 1
           Grows(j, a, b) == ObjectsEnd(s, j, a) <= ObjectsEnd(s, j, a + b)
           B == {j \in 1 .. z : \E a \in Nat \ {0}, b \in Nat : ~ Grows(j, a, b)}
<1>0. z \in Nat /\ Len(s) \in Nat /\ z = Len(s) + 1
  OBVIOUS
<1>m. z \in Nat
  BY <1>0
<1> HIDE DEF z
<1>1. ASSUME NEW j \in 1 .. z, \A k \in j + 1 .. z : k \notin B
      PROVE  j \notin B
  <2> SUFFICES ASSUME NEW a \in Nat \ {0}, NEW b \in Nat
               PROVE  ObjectsEnd(s, j, a) <= ObjectsEnd(s, j, a + b)
    OBVIOUS
  <2> DEFINE k == Behind(s, j)
             e == Elements(s[j])
  <2>1. ObjectsEnd(s, j, a) =
          IF j > Len(s) \/ k > Len(s) + 1 THEN Len(s) + 1
          ELSE ObjectsEnd(s, k, a - 1 + e)
    BY <1>0, EndEquation
  <2>2. ObjectsEnd(s, j, a + b) =
          IF j > Len(s) \/ k > Len(s) + 1 THEN Len(s) + 1
          ELSE ObjectsEnd(s, k, a + b - 1 + e)
    <3>1. a + b \in Nat /\ a + b # 0
      OBVIOUS
    <3> HIDE DEF k, e
    <3>2. ObjectsEnd(s, j, a + b) =
              IF a + b = 0 THEN j - 1
              ELSE IF j > Len(s) \/ Behind(s, j) > Len(s) + 1 THEN Len(s) + 1
              ELSE ObjectsEnd(s, Behind(s, j), a + b - 1 + Elements(s[j]))
      BY <1>0, <3>1, EndEquation
    <3> QED
      BY <3>1, <3>2 DEF k, e
  <2>3. CASE j > Len(s) \/ k > Len(s) + 1
    BY <1>0, <2>1, <2>2, <2>3
  <2>4. CASE ~(j > Len(s) \/ k > Len(s) + 1)
    <3>1. k \in Nat /\ k > j /\ e \in Nat
      BY <1>0, <2>4, BehindIs, ByteFields
    <3>2. k \in j + 1 .. z
      BY <1>0, <2>4, <3>1
    <3>3. /\ ObjectsEnd(s, j, a) = ObjectsEnd(s, k, a - 1 + e)
          /\ ObjectsEnd(s, j, a + b) = ObjectsEnd(s, k, a + b - 1 + e)
      BY <2>1, <2>2, <2>4
    <3> HIDE DEF k, e
    <3>4. a - 1 + e \in Nat /\ a + b - 1 + e = a - 1 + e + b
      BY <3>1
    <3>5. CASE a - 1 + e # 0
      <4>1. Grows(k, a - 1 + e, b)
        <5> HIDE DEF Grows
        <5> QED
          BY <1>0, <1>1, <3>2, <3>4, <3>5
      <4> QED
        BY <3>3, <3>4, <4>1
    <3>6. CASE a - 1 + e = 0
      <4>1. ObjectsEnd(s, j, a) = k - 1
        BY <1>0, <3>2, <3>3, <3>6, EndOfNone
      <4>2. ObjectsEnd(s, j, a + b) = ObjectsEnd(s, k, b)
        <5>1. a - 1 + e + b = b
          BY <3>6
        <5> QED
          BY <3>3, <3>4, <5>1
      <4>3. CASE b = 0
        <5>1. ObjectsEnd(s, k, b) = k - 1
          BY <1>0, <3>2, <4>3, EndOfNone
        <5> QED
          BY <3>1, <4>1, <4>2, <5>1
      <4>4. CASE b # 0
        <5>0. k \in 1 .. Len(s) + 1
          BY <1>0, <3>2
        <5>1. ObjectsEnd(s, k, b) \in k .. z
          BY <1>0, <4>4, <5>0, EndRange
        <5> QED
          BY <1>0, <3>1, <4>1, <4>2, <5>1
      <4> QED
        BY <4>3, <4>4
    <3> QED
      BY <3>5, <3>6
  <2> QED
    BY <2>3, <2>4
<1>2. B = {}
  <2>1. B \subseteq 1 .. z
    OBVIOUS
  <2> HIDE DEF B
  <2> QED
    BY <1>m, <1>1, <2>1, Descend
<1>3. Grows(i, m, n)
  <2> HIDE DEF Grows
  <2>1. i \in 1 .. z
    BY <1>0
  <2> QED
    BY <1>2, <2>1
<1> QED
  BY <1>3

\* An object does not end before its elements.
LEMMA EndInside ==
  ASSUME NEW s \in Seq(Byte), NEW i \in 1 .. Len(s), IsOpen(s, i),
         NEW k \in Nat, k # 0, k <= Elements(s[i]), ElementAt(s, i, k) \in 1 .. Len(s) + 1
  PROVE  ObjectsEnd(s, ElementAt(s, i, k), 1) <= ObjectsEnd(s, i, 1)
<1> DEFINE f == i + s[i].cast + 1
           n == Elements(s[i])
           e == ObjectsEnd(s, f, k - 1)
           l == Len(s)
<1>1. f \in 1 .. l + 1 /\ n \in Nat /\ Behind(s, i) = f /\ l \in Nat
  BY OpenIs
<1>2. ObjectsEnd(s, i, 1) = ObjectsEnd(s, f, n)
  <2>1. ObjectsEnd(s, i, 1) = IF 1 = 0 THEN i - 1
                              ELSE IF i > Len(s) \/ Behind(s, i) > Len(s) + 1 THEN Len(s) + 1
                              ELSE ObjectsEnd(s, Behind(s, i), 1 - 1 + Elements(s[i]))
    <3> HIDE DEF f, n, e, l
    <3>1. 1 \in Nat /\ i \in 1 .. Len(s) + 1
      OBVIOUS
    <3> QED
      BY <3>1, EndEquation
  <2>2. 1 - 1 + n = n /\ ~(i > Len(s)) /\ ~(f > Len(s) + 1)
    BY <1>1
  <2> HIDE DEF f
  <2> QED
    BY <1>1, <2>1, <2>2
<1>3. ElementAt(s, i, k) = e + 1
  BY DEF ElementAt
<1> HIDE DEF f, n
<1>4. k - 1 \in Nat /\ n - k \in Nat /\ (k - 1) + (1 + (n - k)) = n /\ 1 + (n - k) \in Nat
  BY <1>1 DEF n
<1>5. e \in Int
  <2>1. k - 1 = 0 => e = f - 1
    BY <1>1, EndOfNone
  <2>2. k - 1 # 0 => e \in f .. Len(s) + 1
    BY <1>1, <1>4, EndRange
  <2> HIDE DEF e
  <2> QED
    BY <1>1, <2>1, <2>2
<1> HIDE DEF e
<1>6. e <= Len(s) /\ e + 1 \in 1 .. Len(s) + 1
  BY <1>1, <1>3, <1>5 DEF l
<1>7. ObjectsEnd(s, f, (k - 1) + (1 + (n - k))) = ObjectsEnd(s, e + 1, 1 + (n - k))
  <2> DEFINE p == k - 1
             q == 1 + (n - k)
  <2>1. p \in Nat /\ q \in Nat /\ f \in 1 .. Len(s) + 1
    BY <1>1, <1>4 DEF l
  <2>2. e = ObjectsEnd(s, f, p) /\ ObjectsEnd(s, f, p) <= Len(s)
    BY <1>6 DEF e
  <2> HIDE DEF p, q
  <2>3. ObjectsEnd(s, f, p + q) = ObjectsEnd(s, ObjectsEnd(s, f, p) + 1, q)
    BY <2>1, <2>2, EndSplits
  <2> QED
    BY <2>2, <2>3 DEF p, q
<1>8. ObjectsEnd(s, e + 1, 1) <= ObjectsEnd(s, e + 1, 1 + (n - k))
  BY <1>4, <1>6, EndGrows
<1> QED
  BY <1>2, <1>3, <1>4, <1>7, <1>8
-----------------------------------------------------------------------------
(* Types. *)

Entries == [type : {"arr", "key", "value", "rec"}, count : Nat \ {0},
            at : Nat, kids : Seq(Nat), key : Nat]
Frames  == [op : {"read", "skip", "proc", "skip_nil"} \cup Containers,
            own : BOOLEAN, left : Nat, at : Nat, got : Seq(Nat)]
Objects == [at : Nat, to : Nat, kids : Seq(Nat)]
Results == [at : Nat, to : Nat, whole : BOOLEAN]

DataOK ==
    /\ input \in use.streams
    /\ fed \in 0 .. Len(input) /\ pos \in 0 .. fed
    /\ head \in Byte /\ head_at \in 0 .. fed
    /\ raw \in Nat
StackOK ==
    /\ stack \in Seq(Entries)
    /\ Len(stack) <= Capacity
    /\ allocated \in BOOLEAN /\ (~ allocated => stack = <<>>)
FramesOK ==
    /\ frames \in Seq(Frames)
    /\ phase \in {"idle", "run", "completed", "yield"}
    /\ phase \in {"idle", "yield"} <=> frames = <<>>
RestOK ==
    /\ last \in Objects
    /\ mode \in use.ops \cup {"none"}
    /\ outcome \in Errors \cup {"none", "ok", "eof", "drained", "extra", "type"}
    /\ out \in Seq(Results)

LEMMA TypeParts ==
  TypeOK <=> use \in Uses /\ DataOK /\ StackOK /\ FramesOK /\ RestOK
BY DEF TypeOK, DataOK, StackOK, FramesOK, RestOK, Entries, Frames, Objects, Results

LEMMA TypePartsNext ==
  TypeOK' <=> (use \in Uses)' /\ DataOK' /\ StackOK' /\ FramesOK' /\ RestOK'
BY DEF TypeOK, DataOK, StackOK, FramesOK, RestOK, Entries, Frames, Objects, Results

LEMMA DataFacts ==
  ASSUME TypeOK
  PROVE  /\ input \in Seq(Byte) /\ Len(input) \in Nat
         /\ fed \in Nat /\ pos \in Nat /\ head_at \in Nat /\ raw \in Nat
         /\ pos <= fed /\ fed <= Len(input) /\ head_at <= fed /\ Avail = fed - pos
         /\ head \in Byte
<1>1. use \in Uses /\ DataOK
  BY TypeParts
<1>2. input \in Seq(Byte)
  BY <1>1, UnpackerAssumption DEF DataOK
<1> QED
  BY <1>1, <1>2 DEF DataOK, Avail

LEMMA HeadFacts ==
  ASSUME TypeOK, HeadReady
  PROVE  /\ H \in Byte /\ H.k \in Kinds /\ H.cast \in Nat /\ H.n \in Nat /\ Elements(H) \in Nat
         /\ HAt \in Nat /\ HAt <= fed
         /\ AfterHead \in Nat /\ pos <= AfterHead /\ AfterHead <= fed
         /\ AfterCast = AfterHead + H.cast
         /\ CastReady => AfterCast \in Nat /\ AfterHead <= AfterCast /\ AfterCast <= fed
         /\ BodyReady => AfterCast + H.n \in Nat /\ AfterCast + H.n <= fed
<1>1. /\ input \in Seq(Byte) /\ Len(input) \in Nat
      /\ fed \in Nat /\ pos \in Nat /\ head_at \in Nat
      /\ pos <= fed /\ fed <= Len(input) /\ head_at <= fed /\ Avail = fed - pos
      /\ head \in Byte
  BY DataFacts
<1>2. ~ HeadKept => pos + 1 \in 1 .. Len(input) /\ pos + 1 <= fed
  BY <1>1 DEF HeadReady
<1>3. H \in Byte
  BY <1>1, <1>2 DEF H
<1>4. H.k \in Kinds /\ H.cast \in Nat /\ H.n \in Nat /\ Elements(H) \in Nat
  BY <1>3, ByteFields
<1>5. HAt \in Nat /\ HAt <= fed /\ AfterHead \in Nat /\ pos <= AfterHead /\ AfterHead <= fed
  BY <1>1, <1>2 DEF HAt, AfterHead
<1> DEFINE a == AfterHead
           c == H.cast
           n == H.n
<1>6. /\ AfterCast = a + c
      /\ CastReady => fed - a >= c
      /\ BodyReady => fed - a >= c /\ fed - (a + c) >= n
  BY DEF CastReady, AfterCast, BodyReady
<1>7. a \in Nat /\ c \in Nat /\ n \in Nat /\ fed \in Nat
  BY <1>1, <1>4, <1>5
<1>8. AfterCast + H.n = (a + c) + n
  BY <1>6
<1> HIDE DEF a, c, n
<1>9. /\ CastReady => a + c \in Nat /\ a <= a + c /\ a + c <= fed
      /\ BodyReady => (a + c) + n \in Nat /\ (a + c) + n <= fed
  BY <1>6, <1>7
<1> QED
  BY <1>3, <1>4, <1>5, <1>6, <1>8, <1>9 DEF a, c

LEMMA FrameFacts ==
  ASSUME TypeOK, frames # <<>>
  PROVE  /\ Len(frames) \in Nat /\ Len(frames) >= 1 /\ DOMAIN frames = 1 .. Len(frames)
         /\ Top = frames[Len(frames)] /\ Top \in Frames /\ frames[1] \in Frames
         /\ \A i \in 1 .. Len(frames) : frames[i] \in Frames
<1>1. frames \in Seq(Frames)
  BY TypeParts DEF FramesOK
<1> QED
  BY <1>1, FrontIs DEF Top

LEMMA StackFacts ==
  ASSUME TypeOK
  PROVE  /\ stack \in Seq(Entries) /\ Len(stack) \in Nat /\ DOMAIN stack = 1 .. Len(stack)
         /\ Len(stack) <= Capacity /\ Capacity \in Nat
         /\ \A i \in 1 .. Len(stack) : stack[i] \in Entries
         /\ stack # <<>> => Len(stack) >= 1 /\ Last(stack) = stack[Len(stack)]
                            /\ Last(stack) \in Entries
<1>1. stack \in Seq(Entries) /\ Len(stack) <= Capacity
  BY TypeParts DEF StackOK
<1> QED
  BY <1>1, FrontIs, UnpackerAssumption

LEMMA EntryFields ==
  ASSUME NEW e \in Entries
  PROVE  /\ e.type \in {"arr", "key", "value", "rec"} /\ e.count \in Nat /\ e.count # 0
         /\ e.at \in Nat /\ e.kids \in Seq(Nat) /\ Len(e.kids) \in Nat /\ e.key \in Nat
BY DEF Entries

LEMMA FrameFields ==
  ASSUME NEW f \in Frames
  PROVE  /\ f.op \in {"read", "skip", "proc", "skip_nil"} \cup Containers
         /\ f.own \in BOOLEAN /\ f.left \in Nat /\ f.at \in Nat
         /\ f.got \in Seq(Nat) /\ Len(f.got) \in Nat
BY DEF Frames

\* The calls are over.
LEMMA CallsGone ==
  ASSUME frames' = <<>>,
         \/ phase' = "idle"
         \/ phase' = "yield" /\ mode' = "each" /\ outcome' \in {"none", "ok"}
  PROVE  CallsInv'
BY DEF CallsInv

\* They are the same, and stand where they do.
LEMMA CallsKept ==
  ASSUME TypeOK, CallsInv, UNCHANGED <<use, frames, mode, outcome>>, allocated => allocated',
         \/ phase' = phase
         \/ phase' = "run"
         \/ phase' = "completed" /\ Top.op \in {"read", "skip"}
  PROVE  CallsInv'
<1>1. Top' = Top
  BY DEF Top
<1> QED
  BY <1>1 DEF CallsInv

\* A proc or a call of a proc is on top.
LEMMA CallsGrow ==
  ASSUME TypeOK, CallsInv, NEW f \in Frames, frames # <<>>, frames' = Append(frames, f),
         UNCHANGED <<use, mode, outcome, allocated>>, phase' = "run",
         Top.op \in {"read", "skip"} <=> f.op = "proc",
         f.op # "proc" => f.op \in use.proc_ops /\ ~ f.own /\ Top.op = "proc" /\ Top.left > 0
  PROVE  CallsInv' /\ frames' \in Seq(Frames) /\ frames' # <<>>
<1> DEFINE n == Len(frames)
<1>1. /\ frames \in Seq(Frames) /\ n \in Nat /\ n >= 1 /\ Top = frames[n]
      /\ DOMAIN frames = 1 .. n
  BY FrameFacts, TypeParts DEF FramesOK
<1>2. /\ frames' \in Seq(Frames) /\ frames' # <<>> /\ Len(frames') = n + 1
      /\ \A i \in 1 .. n : frames'[i] = frames[i]
      /\ frames'[n + 1] = f
  BY <1>1, AppendIs
<1>3. DOMAIN frames' = 1 .. n + 1
  BY <1>2
<1> HIDE DEF n
<1>4. frames'[1] = frames[1]
  BY <1>1, <1>2
<1>5. ASSUME NEW i \in DOMAIN frames', i > 1
      PROVE  /\ frames'[i - 1].op \in {"read", "skip"} <=> frames'[i].op = "proc"
             /\ frames'[i].op # "proc" =>
                  /\ frames'[i].op \in use.proc_ops /\ ~ frames'[i].own
                  /\ frames'[i - 1].op = "proc" /\ frames'[i - 1].left > 0
  <2>1. CASE i = n + 1
    <3>1. frames'[i - 1] = Top /\ frames'[i] = f
      BY <1>1, <1>2, <2>1
    <3> QED
      BY <3>1
  <2>2. CASE i # n + 1
    <3>1. i \in 1 .. n /\ i - 1 \in 1 .. n
      BY <1>1, <1>3, <1>5, <2>2
    <3>2. frames'[i] = frames[i] /\ frames'[i - 1] = frames[i - 1] /\ i \in DOMAIN frames
      BY <1>1, <1>2, <3>1
    <3> QED
      BY <1>5, <3>2 DEF CallsInv
  <2> QED
    BY <2>1, <2>2
<1> QED
  BY <1>2, <1>4, <1>5 DEF CallsInv

\* A call that ends ends all of them.
LEMMA EndTypes ==
  ASSUME TypeOK, UNCHANGED <<use, last, mode, out>>, DataOK', StackOK',
         frames' = <<>>, phase' = "idle",
         outcome' \in Errors \cup {"none", "ok", "eof", "drained", "extra", "type"}
  PROVE  TypeOK' /\ CallsInv'
<1>1. FramesOK'
  BY EmptySeq DEF FramesOK
<1>2. RestOK' /\ (use \in Uses)'
  BY TypeParts DEF RestOK
<1> QED
  BY <1>1, <1>2, TypePartsNext, CallsGone

LEMMA FailEnds ==
  ASSUME TypeOK, frames # <<>>, NEW kind \in Errors, Fail(kind)
  PROVE  /\ StackOK' /\ stack' = <<>> /\ frames' = <<>> /\ phase' = "idle"
         /\ outcome' = kind
<1>1. allocated' \in BOOLEAN
  BY FrameFacts DEF Fail
<1> QED
  BY <1>1, EmptySeq, UnpackerAssumption DEF Fail, StackOK

LEMMA TakePartTypes ==
  ASSUME TypeOK, UNCHANGED <<use, input, fed>>, TakePart
  PROVE  DataOK' /\ pos <= pos'
<1>1. /\ input \in Seq(Byte) /\ Len(input) \in Nat
      /\ fed \in Nat /\ pos \in Nat /\ head_at \in Nat /\ raw \in Nat
      /\ pos <= fed /\ fed <= Len(input) /\ head_at <= fed /\ Avail = fed - pos
      /\ head \in Byte /\ input \in use.streams
  BY DataFacts, TypeParts DEF DataOK
<1>2. CASE raw > 0 /\ Avail < raw /\ raw' = RawRest /\ pos' = fed /\ UNCHANGED <<head, head_at>>
  BY <1>1, <1>2 DEF DataOK, RawRest
<1>3. CASE UNCHANGED <<pos, hvars>>
  BY <1>1, <1>3 DEF DataOK, hvars
<1>4. CASE /\ HeadReady /\ head' = H /\ head_at' = HAt /\ pos' = AfterHead
           /\ UNCHANGED raw
  BY <1>1, <1>4, HeadFacts DEF DataOK
<1>5. CASE /\ CastReady /\ ~ BodyReady /\ head' = H /\ head_at' = HAt /\ pos' = fed
           /\ raw' = H.n - (fed - AfterCast)
  <2>1. HeadReady
    BY <1>5 DEF CastReady
  <2>2. /\ H \in Byte /\ HAt \in Nat /\ HAt <= fed /\ H.n \in Nat
        /\ AfterCast \in Nat /\ AfterCast <= fed
    BY <1>5, <2>1, HeadFacts
  <2>3. fed - AfterCast < H.n
    BY <1>1, <1>5, <2>2 DEF BodyReady
  <2>4. raw' \in Nat
    <3> DEFINE n == H.n
               a == AfterCast
    <3>1. raw' = n - (fed - a) /\ n \in Nat /\ a \in Nat /\ fed - a < n /\ a <= fed
      BY <1>5, <2>2, <2>3
    <3> HIDE DEF n, a
    <3> QED
      BY <1>1, <3>1
  <2> QED
    BY <1>1, <1>5, <2>2, <2>4 DEF DataOK
<1> QED
  BY <1>2, <1>3, <1>4, <1>5 DEF TakePart

LEMMA OutOfDataEnds ==
  ASSUME TypeOK, CallsInv, Running({"read", "skip"}), OutOfData
  PROVE  /\ StackOK' /\ frames' = <<>> /\ phase' = "idle"
         /\ outcome' \in {"eof_in_proc", "drained", "eof"}
         /\ stack' = stack \/ stack' = <<>>
<1>1. frames # <<>> /\ Len(frames) \in Nat /\ Len(frames) >= 1 /\ Top = frames[Len(frames)]
      /\ Top \in Frames
  BY FrameFacts DEF Running
<1>2. CASE Len(frames) > 1
  BY <1>1, <1>2, FailEnds DEF OutOfData, Errors
<1>3. CASE ~ (Len(frames) > 1)
  <2>1. /\ frames' = <<>> /\ phase' = "idle"
        /\ outcome' = IF mode = "each" THEN "drained" ELSE "eof"
        /\ stack' = IF StackKept THEN stack ELSE <<>>
        /\ allocated' = (HasIo \/ Top.op = "read" \/ ~ Top.own)
    BY <1>3 DEF OutOfData
  <2>2. Top = frames[1] /\ Top.own \in BOOLEAN /\ HasIo \in BOOLEAN
    <3>1. Len(frames) = 1
      <4> DEFINE n == Len(frames)
      <4>1. n \in Nat /\ n >= 1 /\ ~(n > 1)
        BY <1>1, <1>3
      <4> HIDE DEF n
      <4>2. n = 1
        BY <4>1
      <4> QED
        BY <4>2 DEF n
    <3>2. use \in Uses
      BY TypeParts
    <3> QED
      BY <1>1, <3>1, <3>2, FrameFields, UnpackerAssumption DEF HasIo
  <2>3. allocated' \in BOOLEAN /\ (~ allocated' => stack' = <<>>)
    <3>1. Top.op \in {"read", "skip"} /\ (Top.op = "skip" => mode = "skip")
      BY <1>1, <2>2 DEF Running, CallsInv
    <3> QED
      BY <2>1, <2>2, <3>1 DEF StackKept
  <2>4. StackOK
    BY TypeParts
  <2> QED
    BY <2>1, <2>3, <2>4, EmptySeq, UnpackerAssumption DEF StackOK
<1> QED
  BY <1>2, <1>3

LEMMA StarvesTypes ==
  ASSUME TypeOK, CallsInv, UNCHANGED use, Starves
  PROVE  TypeOK' /\ CallsInv'
<1>1. /\ Running({"read", "skip"}) /\ TakePart /\ OutOfData
      /\ UNCHANGED <<input, fed, last, mode, out, nils>>
  BY DEF Starves
<1>2. DataOK'
  BY <1>1, TakePartTypes
<1>3. /\ StackOK' /\ frames' = <<>> /\ phase' = "idle"
      /\ outcome' \in {"eof_in_proc", "drained", "eof"}
  BY <1>1, OutOfDataEnds
<1>4. outcome' \in Errors \cup {"none", "ok", "eof", "drained", "extra", "type"}
  BY <1>3 DEF Errors
<1> QED
  BY <1>1, <1>2, <1>3, <1>4, EndTypes

\* A step within a call that leaves the calls as they are.
LEMMA StepTypes ==
  ASSUME TypeOK, CallsInv, UNCHANGED <<use, frames, mode, outcome, out>>,
         frames # <<>>, Top.op \in {"read", "skip"}, phase' \in {"run", "completed"},
         allocated => allocated', DataOK', StackOK', last' \in Objects
  PROVE  TypeOK' /\ CallsInv'
<1>1. FramesOK' /\ RestOK' /\ (use \in Uses)'
  BY TypeParts DEF FramesOK, RestOK
<1>2. CallsInv'
  BY CallsKept
<1> QED
  BY <1>1, <1>2, TypePartsNext

LEMMA NoHeadIsByte == NoHead \in Byte
BY DEF NoHead, Byte, Kinds

\* An object without elements is complete.
LEMMA LeafTypes ==
  ASSUME TypeOK, CallsInv, Running({"read", "skip"}),
         UNCHANGED <<use, input, fed, svars, frames, mode, outcome, out>>,
         NEW at \in Nat, NEW to \in Nat, pos <= to, to <= fed, pos' = to, raw' = 0,
         ObjectComplete([at |-> at, to |-> to, kids |-> <<>>])
  PROVE  TypeOK' /\ CallsInv'
<1>1. last' \in Objects /\ phase' = "completed"
  BY EmptySeq DEF ObjectComplete, Objects
<1>2. DataOK'
  BY DataFacts, NoHeadIsByte, TypeParts DEF DataOK, ObjectComplete
<1>3. StackOK' /\ allocated' = allocated
  BY TypeParts DEF StackOK, svars
<1> QED
  BY <1>1, <1>2, <1>3, StepTypes DEF Running

LEMMA ScalarTypes ==
  ASSUME TypeOK, CallsInv, UNCHANGED use, Scalar
  PROVE  TypeOK' /\ CallsInv'
<1>1. Running({"read", "skip"}) /\ CastReady /\ HeadReady
  BY DEF Scalar, CastReady
<1>2. HAt \in Nat /\ AfterCast \in Nat /\ pos <= AfterCast /\ AfterCast <= fed
  <2>1. /\ HAt \in Nat /\ AfterHead \in Nat /\ pos <= AfterHead
        /\ AfterCast \in Nat /\ AfterHead <= AfterCast /\ AfterCast <= fed
    BY <1>1, HeadFacts
  <2>2. pos \in Nat
    BY DataFacts
  <2> QED
    BY <2>1, <2>2
<1>3. /\ UNCHANGED <<use, input, fed, svars, frames, mode, outcome, out>>
      /\ ObjectComplete([at |-> HAt, to |-> AfterCast, kids |-> <<>>])
      /\ pos' = AfterCast /\ raw' = 0
  BY DEF Scalar
<1> QED
  BY <1>1, <1>2, <1>3, LeafTypes

LEMMA RecursiveEmptyTypes ==
  ASSUME TypeOK, CallsInv, UNCHANGED use, RecursiveEmpty
  PROVE  TypeOK' /\ CallsInv'
<1>1. Running({"read", "skip"}) /\ CastReady /\ HeadReady
  BY DEF RecursiveEmpty, CastReady
<1>2. HAt \in Nat /\ AfterCast \in Nat /\ pos <= AfterCast /\ AfterCast <= fed
  <2>1. /\ HAt \in Nat /\ AfterHead \in Nat /\ pos <= AfterHead
        /\ AfterCast \in Nat /\ AfterHead <= AfterCast /\ AfterCast <= fed
    BY <1>1, HeadFacts
  <2>2. pos \in Nat
    BY DataFacts
  <2> QED
    BY <2>1, <2>2
<1>3. /\ pos' = AfterCast /\ raw' = 0 /\ UNCHANGED <<input, fed, mode, out, nils>>
      /\ frames # <<>>
  BY DEF RecursiveEmpty, Running
<1>4. CASE /\ ObjectComplete([at |-> HAt, to |-> AfterCast, kids |-> <<>>])
           /\ UNCHANGED <<svars, frames, outcome>>
  BY <1>1, <1>2, <1>3, <1>4, LeafTypes
<1>5. CASE Fail("raised") /\ head' = H /\ head_at' = HAt /\ UNCHANGED last
  <2>1. H \in Byte /\ HAt <= fed
    BY <1>1, HeadFacts
  <2>2. DataOK'
    BY <1>2, <1>3, <1>5, <2>1, DataFacts, TypeParts DEF DataOK
  <2>3. "raised" \in Errors
    BY DEF Errors
  <2>4. StackOK' /\ frames' = <<>> /\ phase' = "idle" /\ outcome' \in Errors
    BY <1>3, <1>5, <2>3, FailEnds
  <2> QED
    BY <1>3, <1>5, <2>2, <2>4, EndTypes
<1> QED
  BY <1>4, <1>5 DEF RecursiveEmpty

\* What CastReady says of the head, in one place.
LEMMA CastFacts ==
  ASSUME TypeOK, CastReady
  PROVE  /\ HeadReady /\ H \in Byte /\ H.cast \in Nat /\ H.n \in Nat /\ Elements(H) \in Nat
         /\ HAt \in Nat /\ HAt <= fed /\ pos \in Nat
         /\ AfterCast \in Nat /\ pos <= AfterCast /\ AfterCast <= fed
         /\ AfterCast = AfterHead + H.cast /\ AfterHead \in Nat /\ pos <= AfterHead
<1>1. HeadReady
  BY DEF CastReady
<1>2. /\ H \in Byte /\ H.cast \in Nat /\ H.n \in Nat /\ Elements(H) \in Nat
      /\ HAt \in Nat /\ HAt <= fed /\ AfterHead \in Nat /\ pos <= AfterHead
      /\ AfterCast = AfterHead + H.cast
      /\ AfterCast \in Nat /\ AfterHead <= AfterCast /\ AfterCast <= fed
  BY <1>1, HeadFacts
<1>3. pos \in Nat
  BY DataFacts
<1> QED
  BY <1>1, <1>2, <1>3

\* The bytes of a head are consumed and none is kept.
LEMMA HeadTakenTypes ==
  ASSUME TypeOK, CastReady, UNCHANGED <<use, input, fed>>,
         pos' = AfterCast, head' = NoHead, head_at' = 0, raw' \in Nat
  PROVE  DataOK'
BY CastFacts, DataFacts, NoHeadIsByte, TypeParts DEF DataOK

LEMMA EntryIs ==
  ASSUME NEW type \in {"arr", "key", "value", "rec"}, NEW count \in Nat, count # 0, NEW at \in Nat
  PROVE  Entry(type, count, at) \in Entries
BY EmptySeq DEF Entry, Entries

\* An entry is pushed, when there is room.
LEMMA PushTypes ==
  ASSUME TypeOK, ~ StackFull, NEW e \in Entries, stack' = Append(stack, e), allocated' = TRUE
  PROVE  StackOK'
<1>1. stack \in Seq(Entries) /\ Len(stack) \in Nat /\ Len(stack) <= Capacity /\ Capacity \in Nat
  BY StackFacts
<1>2. stack' \in Seq(Entries) /\ Len(stack') = Len(stack) + 1
  BY <1>1, AppendIs
<1> QED
  BY <1>1, <1>2 DEF StackOK, StackFull

LEMMA RunsAllocated ==
  ASSUME TypeOK, CallsInv, Running({"read", "skip"}) \/ phase = "completed" \/ Running({"proc"})
  PROVE  allocated = TRUE
<1>1. frames # <<>> /\ Top.op \in {"read", "skip", "proc"}
  BY TypeParts DEF Running, CallsInv, FramesOK
<1>2. /\ Len(frames) \in Nat /\ Len(frames) >= 1 /\ DOMAIN frames = 1 .. Len(frames)
      /\ Top = frames[Len(frames)] /\ frames[1] \in Frames
      /\ frames \in Seq(Frames)
  BY <1>1, FrameFacts, TypeParts DEF FramesOK
<1>3. frames[1].op \in {"read", "skip"}
  <2>1. CASE Len(frames) = 1
    <3>1. frames[1].op # "proc"
      BY <1>1 DEF CallsInv
    <3> QED
      BY <1>1, <1>2, <2>1, <3>1
  <2>2. CASE Len(frames) # 1
    <3> DEFINE n == Len(frames)
    <3>1. 2 \in DOMAIN frames /\ 2 > 1 /\ 2 - 1 = 1
      <4>1. n \in Nat /\ n >= 1 /\ n # 1
        BY <1>2, <2>2
      <4> HIDE DEF n
      <4>2. 2 \in 1 .. n
        BY <4>1
      <4> QED
        BY <1>2, <4>2 DEF n
    <3>2. /\ frames[1].op \in {"read", "skip"} <=> frames[2].op = "proc"
          /\ frames[2].op # "proc" => frames[1].op = "proc"
      BY <3>1 DEF CallsInv
    <3>3. frames[1].op # "proc"
      BY <1>1 DEF CallsInv
    <3> QED
      BY <3>2, <3>3
  <2> QED
    BY <2>1, <2>2
<1>4. allocated /\ allocated \in BOOLEAN
  BY <1>1, <1>3, TypeParts DEF CallsInv, StackOK
<1> QED
  BY <1>4

LEMMA ContainerTypes ==
  ASSUME TypeOK, CallsInv, UNCHANGED use, Container
  PROVE  TypeOK' /\ CallsInv'
<1>1. /\ Running({"read", "skip"}) /\ CastReady /\ frames # <<>>
      /\ H.k \in Containers /\ H.n > 0 /\ raw = 0
      /\ pos' = AfterCast /\ head' = NoHead /\ head_at' = 0
      /\ UNCHANGED <<input, fed, raw, last, mode, out, nils>>
  BY DEF Container, Running
<1>2. DataOK'
  BY <1>1, HeadTakenTypes
<1>3. CASE StackFull
  <2>1. Fail("deep") /\ "deep" \in Errors
    BY <1>3 DEF Container, Errors
  <2>2. /\ StackOK' /\ frames' = <<>> /\ phase' = "idle" /\ outcome' \in Errors
    BY <1>1, <2>1, FailEnds
  <2> QED
    BY <1>1, <1>2, <2>2, EndTypes
<1>4. CASE ~ StackFull
  <2>1. /\ stack' = Append(stack, Entry(IF H.k = "map" THEN "key" ELSE "arr", CountOf(H), HAt))
        /\ UNCHANGED <<allocated, frames, phase, outcome>>
    BY <1>4 DEF Container
  <2>2. CountOf(H) \in Nat /\ CountOf(H) # 0 /\ HAt \in Nat
    BY <1>1, CastFacts DEF CountOf
  <2>3. Entry(IF H.k = "map" THEN "key" ELSE "arr", CountOf(H), HAt) \in Entries
    BY <2>2, EntryIs
  <2>4. StackOK' /\ allocated' = allocated
    BY <1>1, <1>4, <2>1, <2>3, PushTypes, RunsAllocated
  <2>5. last' \in Objects /\ phase' = "run" /\ Top.op \in {"read", "skip"}
    BY <1>1, <2>1, TypeParts DEF RestOK, Running
  <2> QED
    BY <1>1, <1>2, <2>1, <2>4, <2>5, StepTypes
<1> QED
  BY <1>3, <1>4

LEMMA FinishRawTypes ==
  ASSUME TypeOK, CallsInv, Running({"read", "skip"}), UNCHANGED use,
         NEW b \in Byte, NEW at \in Nat, at <= fed, NEW to \in Nat, pos <= to, to <= fed,
         FinishRaw(b, at, to)
  PROVE  TypeOK' /\ CallsInv'
<1>1. /\ pos' = to /\ raw' = 0 /\ UNCHANGED <<input, fed, mode, out, nils>>
      /\ frames # <<>>
  BY DEF FinishRaw, Running
<1>2. CASE /\ ObjectComplete([at |-> at, to |-> to, kids |-> <<>>])
           /\ UNCHANGED <<svars, frames, outcome>>
  BY <1>1, <1>2, LeafTypes
<1>3. CASE /\ Fail(IF b.k = "unknown" THEN "unknown" ELSE "raised")
           /\ head' = b /\ head_at' = at /\ UNCHANGED last
  <2>1. DataOK'
    BY <1>1, <1>3, DataFacts, TypeParts DEF DataOK
  <2>2. (IF b.k = "unknown" THEN "unknown" ELSE "raised") \in Errors
    BY DEF Errors
  <2>3. StackOK' /\ frames' = <<>> /\ phase' = "idle" /\ outcome' \in Errors
    BY <1>1, <1>3, <2>2, FailEnds
  <2> QED
    BY <1>1, <1>3, <2>1, <2>3, EndTypes
<1> QED
  BY <1>2, <1>3 DEF FinishRaw

\* The two ways in which a raw body is complete.
LEMMA RawBodyCases ==
  ASSUME TypeOK, RawBody
  PROVE  \E b \in Byte, at \in Nat, to \in Nat :
           /\ at <= fed /\ pos <= to /\ to <= fed
           /\ FinishRaw(b, at, to)
           /\ \/ raw > 0 /\ b = head /\ at = head_at /\ to = pos + raw
              \/ raw = 0 /\ BodyReady /\ H.k \in RawKinds
                 /\ b = H /\ at = HAt /\ to = AfterCast + H.n
<1>1. /\ fed \in Nat /\ pos \in Nat /\ head_at \in Nat /\ raw \in Nat
      /\ pos <= fed /\ head_at <= fed /\ Avail = fed - pos /\ head \in Byte
  BY DataFacts
<1>2. CASE raw > 0 /\ Avail >= raw /\ FinishRaw(head, head_at, pos + raw)
  <2>1. pos + raw \in Nat /\ pos <= pos + raw /\ pos + raw <= fed
    BY <1>1, <1>2
  <2> QED
    BY <1>1, <1>2, <2>1
<1>3. CASE raw = 0 /\ BodyReady /\ H.k \in RawKinds /\ FinishRaw(H, HAt, AfterCast + H.n)
  <2>1. HeadReady /\ CastReady
    BY <1>3 DEF BodyReady, CastReady
  <2>2. /\ H \in Byte /\ HAt \in Nat /\ HAt <= fed
        /\ AfterCast + H.n \in Nat /\ AfterCast + H.n <= fed
    BY <1>3, <2>1, HeadFacts
  <2>3. AfterCast \in Nat /\ pos <= AfterCast /\ H.n \in Nat
    BY <2>1, CastFacts
  <2>4. pos <= AfterCast + H.n
    <3> DEFINE a == AfterCast
               n == H.n
    <3>1. a \in Nat /\ n \in Nat /\ pos <= a
      BY <2>3
    <3> HIDE DEF a, n
    <3>2. pos <= a + n
      BY <1>1, <3>1
    <3> QED
      BY <3>2 DEF a, n
  <2> QED
    BY <1>3, <2>2, <2>4
<1> QED
  BY <1>2, <1>3 DEF RawBody

LEMMA RawBodyTypes ==
  ASSUME TypeOK, CallsInv, UNCHANGED use, RawBody
  PROVE  TypeOK' /\ CallsInv'
<1>1. PICK b \in Byte, at \in Nat, to \in Nat :
           /\ at <= fed /\ pos <= to /\ to <= fed
           /\ FinishRaw(b, at, to)
  BY RawBodyCases
<1>2. Running({"read", "skip"})
  BY DEF RawBody
<1> QED
  BY <1>1, <1>2, FinishRawTypes

LEMMA InvalidByteTypes ==
  ASSUME TypeOK, CallsInv, UNCHANGED use, InvalidByte
  PROVE  TypeOK' /\ CallsInv'
<1>1. /\ HeadReady /\ frames # <<>> /\ pos' = AfterHead /\ Fail("malformed")
      /\ UNCHANGED <<input, fed, hvars, last, mode, out, nils>>
  BY DEF InvalidByte, Running
<1>2. DataOK'
  BY <1>1, HeadFacts, DataFacts, TypeParts DEF DataOK, hvars
<1>3. "malformed" \in Errors
  BY DEF Errors
<1>4. StackOK' /\ frames' = <<>> /\ phase' = "idle" /\ outcome' \in Errors
  BY <1>1, <1>3, FailEnds
<1> QED
  BY <1>1, <1>2, <1>4, EndTypes

LEMMA RecursiveBeginTypes ==
  ASSUME TypeOK, CallsInv, UNCHANGED use, RecursiveBegin
  PROVE  TypeOK' /\ CallsInv'
<1>1. /\ Running({"read", "skip"}) /\ CastReady /\ frames # <<>> /\ phase = "run"
      /\ Top.op \in {"read", "skip"} /\ raw = 0 /\ H.n > 0
      /\ pos' = AfterCast /\ last' = Nothing /\ head' = NoHead /\ head_at' = 0
      /\ stack' = (IF StackFull THEN stack ELSE Append(stack, Entry("rec", 1, HAt)))
      /\ frames' = Append(frames, ProcFrame(HAt, H.n))
      /\ UNCHANGED <<input, fed, raw, allocated, phase, mode, outcome, out, nils>>
  BY DEF RecursiveBegin, Running
<1>2. DataOK'
  BY <1>1, HeadTakenTypes
<1>3. HAt \in Nat /\ H.n \in Nat
  BY <1>1, CastFacts
<1>4. StackOK'
  <2>1. Entry("rec", 1, HAt) \in Entries
    BY <1>3, EntryIs
  <2>2. allocated' = TRUE
    BY <1>1, RunsAllocated
  <2>3. CASE StackFull
    BY <1>1, <2>3, TypeParts DEF StackOK
  <2>4. CASE ~ StackFull
    BY <1>1, <2>1, <2>2, <2>4, PushTypes
  <2> QED
    BY <2>3, <2>4
<1>5. ProcFrame(HAt, H.n) \in Frames /\ ProcFrame(HAt, H.n).op = "proc"
  BY <1>3, EmptySeq DEF ProcFrame, Frames
<1>6. CallsInv' /\ frames' \in Seq(Frames) /\ frames' # <<>>
  BY <1>1, <1>5, CallsGrow
<1>7. FramesOK'
  BY <1>1, <1>6 DEF FramesOK
<1>8. RestOK' /\ (use \in Uses)'
  BY <1>1, EmptySeq, TypeParts DEF RestOK, Nothing, Objects
<1> QED
  BY <1>2, <1>4, <1>6, <1>7, <1>8, TypePartsNext

\* What Completed makes of the entry on top.
Filled  == IF Top.op = "read" THEN Stored(Last(stack), last) ELSE Last(stack)
Whole   == [at |-> Filled.at, to |-> last.to, kids |-> Filled.kids]
Counted == [Filled EXCEPT !.count = @ - 1]

LEMMA StoredFields ==
  ASSUME NEW e \in Entries, NEW o \in Objects
  PROVE  /\ Stored(e, o) \in Entries
         /\ Stored(e, o).at = e.at /\ Stored(e, o).count = e.count
         /\ e.type # "rec" => Stored(e, o).type =
              IF e.type = "arr" THEN "arr" ELSE IF e.type = "key" THEN "value" ELSE "key"
<1>1. o.at \in Nat /\ e.kids \in Seq(Nat) /\ e.key \in Nat
  BY DEF Objects, Entries
<1>2. Append(e.kids, o.at) \in Seq(Nat)
  BY <1>1, AppendIs
<1>3. e.kids \o <<e.key, o.at>> \in Seq(Nat)
  BY <1>1
<1> QED
  BY <1>1, <1>2, <1>3 DEF Stored, Entries

LEMMA FilledFields ==
  ASSUME TypeOK, stack # <<>>
  PROVE  /\ Filled \in Entries /\ Filled.at = Last(stack).at /\ Filled.count = Last(stack).count
         /\ Whole \in Objects
         /\ ~ IsFull(Filled) => Counted \in Entries
<1>1. Last(stack) \in Entries /\ last \in Objects
  BY StackFacts, TypeParts DEF RestOK
<1>2. Filled \in Entries /\ Filled.at = Last(stack).at /\ Filled.count = Last(stack).count
  BY <1>1, StoredFields DEF Filled
<1>3. Whole \in Objects
  BY <1>1, <1>2 DEF Whole, Objects, Entries
<1>4. ~ IsFull(Filled) => Filled.count - 1 \in Nat \ {0}
  BY <1>2, EntryFields DEF IsFull
<1>5. ~ IsFull(Filled) => Counted \in Entries
  BY <1>2, <1>4 DEF Counted, Entries
<1> QED
  BY <1>2, <1>3, <1>5

LEMMA CompletedCases ==
  ASSUME Completed
  PROVE  /\ phase = "completed" /\ UNCHANGED <<input, fed, pos, hvars, mode, nils>>
         /\ \/ /\ stack = <<>> \/ (Top.op = "read" /\ Last(stack).type = "rec")
               /\ Return(last, stack) /\ UNCHANGED last
            \/ /\ stack # <<>> /\ ~(Top.op = "read" /\ Last(stack).type = "rec")
               /\ ~ IsFull(Filled)
               /\ stack' = Push(stack, Counted) /\ phase' = "run"
               /\ UNCHANGED <<allocated, frames, last, outcome, out>>
            \/ /\ stack # <<>> /\ ~(Top.op = "read" /\ Last(stack).type = "rec")
               /\ IsFull(Filled) /\ last' = Whole /\ Len(stack) = 1
               /\ Return(Whole, <<>>)
            \/ /\ stack # <<>> /\ ~(Top.op = "read" /\ Last(stack).type = "rec")
               /\ IsFull(Filled) /\ last' = Whole /\ Len(stack) # 1
               /\ stack' = Front(stack)
               /\ UNCHANGED <<allocated, frames, phase, outcome, out>>
BY Zenon DEF Completed, Filled, Whole, Counted

\* A call of a proc returns to the proc.
LEMMA ReturnsToProc ==
  ASSUME TypeOK, CallsInv, frames # <<>>, Len(frames) # 1, Top.op # "proc"
  PROVE  /\ Len(frames) >= 2 /\ Len(frames) - 1 \in DOMAIN frames
         /\ frames[Len(frames) - 1] \in Frames
         /\ frames[Len(frames) - 1].op = "proc" /\ frames[Len(frames) - 1].left > 0
         /\ Top.op \in use.proc_ops /\ ~ Top.own
<1> DEFINE n == Len(frames)
<1>1. /\ n \in Nat /\ n >= 1 /\ n # 1 /\ DOMAIN frames = 1 .. n /\ Top = frames[n]
      /\ \A i \in 1 .. n : frames[i] \in Frames
  BY FrameFacts
<1> HIDE DEF n
<1>2. n \in 1 .. n /\ n > 1 /\ n - 1 \in 1 .. n /\ n >= 2
  BY <1>1
<1>3. /\ frames[n].op \in use.proc_ops /\ ~ frames[n].own
      /\ frames[n - 1].op = "proc" /\ frames[n - 1].left > 0
  BY <1>1, <1>2 DEF CallsInv
<1> QED
  BY <1>1, <1>2, <1>3 DEF n

LEMMA ReturnTypes ==
  ASSUME TypeOK, CallsInv, UNCHANGED <<use, mode>>, phase = "completed", DataOK',
         NEW o \in Objects, NEW st \in Seq(Entries), Len(st) <= Capacity,
         Return(o, st), last' \in Objects
  PROVE  TypeOK' /\ CallsInv'
<1>1. frames # <<>> /\ Top.op \in {"read", "skip"} /\ frames \in Seq(Frames)
  BY TypeParts DEF FramesOK, CallsInv
<1>2. /\ Len(frames) \in Nat /\ Len(frames) >= 1 /\ DOMAIN frames = 1 .. Len(frames)
      /\ Top = frames[Len(frames)] /\ Top \in Frames
  BY <1>1, FrameFacts
<1>3. CASE Len(frames) = 1
  <2>1. /\ frames' = <<>> /\ allocated' = ~ Top.own
        /\ stack' = IF Top.own THEN <<>> ELSE st
        /\ phase' = IF mode = "each" THEN "yield" ELSE "idle"
        /\ \/ mode = "full" /\ outcome' = "extra" /\ UNCHANGED out
           \/ /\ outcome' = "ok"
              /\ out' = Append(out, [at |-> o.at, to |-> o.to, whole |-> TRUE])
    BY <1>3 DEF Return
  <2>2. StackOK'
    <3>1. allocated' \in BOOLEAN /\ (~ allocated' => Top.own) /\ Capacity \in Nat
      BY <1>2, <2>1, FrameFields, UnpackerAssumption
    <3>2. CASE Top.own
      <4>1. stack' = <<>>
        BY <2>1, <3>2
      <4> QED
        BY <3>1, <4>1, EmptySeq DEF StackOK
    <3>3. CASE ~ Top.own
      <4>1. stack' = st /\ allocated'
        BY <2>1, <3>3
      <4> QED
        BY <3>1, <4>1 DEF StackOK
    <3> QED
      BY <3>2, <3>3
  <2>3. FramesOK' /\ CallsInv'
    <3>1. phase' = "yield" => mode' = "each" /\ outcome' \in {"none", "ok"}
      BY <2>1
    <3>2. phase' \in {"yield", "idle"}
      BY <2>1
    <3> QED
      BY <2>1, <3>1, <3>2, EmptySeq, CallsGone DEF FramesOK
  <2>4. [at |-> o.at, to |-> o.to, whole |-> TRUE] \in Results
    BY DEF Objects, Results
  <2>5. RestOK'
    <3>1. out \in Seq(Results) /\ mode' \in use'.ops \cup {"none"}
      BY TypeParts DEF RestOK
    <3>2. Append(out, [at |-> o.at, to |-> o.to, whole |-> TRUE]) \in Seq(Results)
      BY <2>4, <3>1, AppendIs
    <3>3. out' \in Seq(Results) /\ outcome' \in {"extra", "ok"}
      BY <2>1, <3>1, <3>2
    <3> QED
      BY <3>1, <3>3 DEF RestOK
  <2> QED
    BY <2>2, <2>3, <2>5, TypeParts, TypePartsNext
<1>4. CASE Len(frames) # 1
  <2> DEFINE n == Len(frames)
             proc == frames[n - 1]
             f == [proc EXCEPT !.left = @ - 1, !.got = Append(@, o.at)]
  <2>1. /\ n >= 2 /\ proc \in Frames /\ proc.op = "proc" /\ proc.left > 0
    BY <1>1, <1>4, ReturnsToProc
  <2>2. /\ frames' = Append(SubSeq(frames, 1, n - 2), f)
        /\ stack' = st /\ phase' = "run" /\ UNCHANGED <<allocated, outcome, out>>
    BY <1>4 DEF Return
  <2>3. f \in Frames /\ f.op = "proc"
    <3>1. proc.left - 1 \in Nat /\ o.at \in Nat /\ proc.got \in Seq(Nat)
      BY <2>1, FrameFields DEF Objects
    <3>2. Append(proc.got, o.at) \in Seq(Nat)
      BY <3>1, AppendIs
    <3> QED
      BY <2>1, <3>1, <3>2 DEF Frames
  <2> HIDE DEF f, proc
  <2>4. /\ frames' \in Seq(Frames) /\ frames' # <<>> /\ Len(frames') = n - 1
        /\ \A i \in 1 .. n - 2 : frames'[i] = frames[i]
        /\ frames'[n - 1] = f /\ Last(frames') = f
    BY <1>1, <2>1, <2>2, <2>3, PopPushIs
  <2>5. StackOK'
    BY <2>2, RunsAllocated DEF StackOK
  <2>6. CallsInv'
    <3> HIDE DEF n
    <3>0. n \in Nat /\ n >= 2 /\ DOMAIN frames' = 1 .. n - 1 /\ DOMAIN frames = 1 .. n
      BY <1>2, <2>1, <2>4 DEF n
    <3>1. frames'[1].op = frames[1].op
      <4>1. CASE n = 2
        <5>1. n - 1 = 1
          BY <4>1
        <5>2. frames'[1].op = "proc" /\ frames[1].op = "proc"
          BY <2>1, <2>3, <2>4, <5>1 DEF proc
        <5> QED
          BY <5>2
      <4>2. CASE n # 2
        BY <2>4, <3>0, <4>2
      <4> QED
        BY <4>1, <4>2
    <3>2. ASSUME NEW i \in DOMAIN frames', i > 1
          PROVE  /\ frames'[i - 1].op \in {"read", "skip"} <=> frames'[i].op = "proc"
                 /\ frames'[i].op # "proc" =>
                      /\ frames'[i].op \in use.proc_ops /\ ~ frames'[i].own
                      /\ frames'[i - 1].op = "proc" /\ frames'[i - 1].left > 0
      <4>1. i \in 1 .. n /\ i - 1 \in 1 .. n - 2 /\ i \in DOMAIN frames
        BY <3>0, <3>2
      <4>2. frames'[i - 1] = frames[i - 1]
        BY <2>4, <4>1
      <4>3. CASE i = n - 1
        BY <2>1, <2>3, <2>4, <3>2, <4>1, <4>2, <4>3 DEF CallsInv, proc
      <4>4. CASE i # n - 1
        <5>1. i \in 1 .. n - 2
          BY <3>0, <4>1, <4>4, <3>2
        <5> QED
          BY <2>4, <3>2, <4>1, <4>2, <5>1 DEF CallsInv
      <4> QED
        BY <4>3, <4>4
    <3> QED
      BY <1>1, <2>2, <3>1, <3>2 DEF CallsInv
  <2>7. FramesOK' /\ RestOK' /\ (use \in Uses)'
    BY <2>2, <2>4, TypeParts DEF FramesOK, RestOK
  <2> QED
    BY <2>5, <2>6, <2>7, TypePartsNext
<1> QED
  BY <1>3, <1>4

LEMMA CompletedTypes ==
  ASSUME TypeOK, CallsInv, UNCHANGED use, Completed
  PROVE  TypeOK' /\ CallsInv'
<1>1. phase = "completed" /\ UNCHANGED <<input, fed, pos, hvars, mode, nils>>
  BY CompletedCases
<1>2. DataOK'
  BY <1>1, TypeParts DEF DataOK, hvars
<1>3. /\ stack \in Seq(Entries) /\ Len(stack) \in Nat /\ Len(stack) <= Capacity
      /\ last \in Objects
  BY StackFacts, TypeParts DEF RestOK
<1>4. frames # <<>> /\ Top.op \in {"read", "skip"} /\ allocated = TRUE
  BY <1>1, RunsAllocated, TypeParts DEF FramesOK, CallsInv
<1>5. CASE Return(last, stack) /\ UNCHANGED last
  BY <1>1, <1>2, <1>3, <1>5, ReturnTypes
<1>6. CASE /\ stack # <<>> /\ ~ IsFull(Filled)
           /\ stack' = Push(stack, Counted) /\ phase' = "run"
           /\ UNCHANGED <<allocated, frames, last, outcome, out>>
  <2>1. Counted \in Entries
    BY <1>6, FilledFields
  <2>2. StackOK'
    BY <1>3, <1>4, <1>6, <2>1, PushIs DEF StackOK
  <2> QED
    BY <1>1, <1>2, <1>3, <1>4, <1>6, <2>2, StepTypes
<1>7. CASE stack # <<>> /\ last' = Whole /\ Return(Whole, <<>>)
  <2>1. Whole \in Objects /\ <<>> \in Seq(Entries) /\ Len(<<>>) <= Capacity
    BY <1>7, FilledFields, EmptySeq, UnpackerAssumption
  <2> QED
    BY <1>1, <1>2, <1>7, <2>1, ReturnTypes
<1>8. CASE /\ stack # <<>> /\ last' = Whole /\ stack' = Front(stack)
           /\ UNCHANGED <<allocated, frames, phase, outcome, out>>
  <2>1. Whole \in Objects
    BY <1>8, FilledFields
  <2>2. stack' \in Seq(Entries) /\ Len(stack') = Len(stack) - 1
    BY <1>3, <1>8, FrontIs
  <2>3. StackOK'
    BY <1>3, <1>4, <1>8, <2>2, UnpackerAssumption DEF StackOK
  <2> QED
    BY <1>1, <1>2, <1>4, <1>8, <2>1, <2>3, StepTypes
<1> QED
  BY <1>5, <1>6, <1>7, <1>8, CompletedCases

LEMMA ProcCallsTypes ==
  ASSUME TypeOK, CallsInv, UNCHANGED use, NEW op \in {"read", "skip"}, ProcCalls(op)
  PROVE  TypeOK' /\ CallsInv'
<1>1. /\ op \in use.proc_ops /\ frames # <<>> /\ phase = "run"
      /\ Top.op = "proc" /\ Top.left > 0
      /\ frames' = Append(frames, ReadFrame(op, ~ allocated))
      /\ UNCHANGED <<input, fed, pos, hvars, svars, phase, last, mode, outcome, out, nils>>
  BY DEF ProcCalls, Running
<1>2. allocated = TRUE
  BY <1>1, RunsAllocated DEF Running
<1> DEFINE f == ReadFrame(op, ~ allocated)
<1>3. f \in Frames /\ f.op = op /\ f.own = FALSE /\ op # "proc"
  BY <1>2, EmptySeq DEF ReadFrame, Frames
<1> HIDE DEF f
<1>4. CallsInv' /\ frames' \in Seq(Frames) /\ frames' # <<>>
  <2>1. UNCHANGED <<use, mode, outcome, allocated>> /\ phase' = "run" /\ frames' = Append(frames, f)
    BY <1>1 DEF svars, f
  <2> QED
    BY <1>1, <1>3, <2>1, CallsGrow
<1>5. DataOK' /\ StackOK' /\ RestOK' /\ (use \in Uses)'
  BY <1>1, TypeParts DEF DataOK, StackOK, RestOK, hvars, svars
<1>6. FramesOK'
  BY <1>1, <1>4 DEF FramesOK
<1> QED
  BY <1>4, <1>5, <1>6, TypePartsNext

LEMMA ProcReturnsTypes ==
  ASSUME TypeOK, CallsInv, UNCHANGED use, ProcReturns
  PROVE  TypeOK' /\ CallsInv'
<1>1. /\ frames # <<>> /\ phase = "run" /\ Top.op = "proc" /\ stack # <<>>
      /\ stack' = Front(stack) /\ frames' = Front(frames)
      /\ last' = [at |-> Top.at, to |-> pos, kids |-> Top.got]
      /\ head' = NoHead /\ head_at' = 0 /\ phase' = "completed"
      /\ UNCHANGED <<input, fed, pos, raw, allocated, mode, outcome, out, nils>>
  BY DEF ProcReturns, ObjectComplete, Running
<1> DEFINE n == Len(frames)
<1>2. /\ frames \in Seq(Frames) /\ n \in Nat /\ n >= 1 /\ DOMAIN frames = 1 .. n
      /\ Top = frames[n] /\ Top \in Frames
  BY <1>1, FrameFacts, TypeParts DEF FramesOK
<1>3. /\ frames' \in Seq(Frames) /\ Len(frames') = n - 1
      /\ \A i \in 1 .. n - 1 : frames'[i] = frames[i]
  BY <1>1, <1>2, FrontIs
<1> HIDE DEF n
<1>4. n >= 2 /\ DOMAIN frames' = 1 .. n - 1
  <2>1. n # 1
    BY <1>1, <1>2 DEF CallsInv
  <2> QED
    BY <1>2, <1>3, <2>1
<1>5. frames' # <<>>
  BY <1>2, <1>3, <1>4
<1>6. /\ frames[n - 1].op \in {"read", "skip"}
      /\ Top' = frames[n - 1]
  <2>1. n \in DOMAIN frames /\ n > 1 /\ n - 1 \in 1 .. n - 1
    BY <1>2, <1>4
  <2>2. Top' = frames'[n - 1]
    BY <1>3, <1>5, FrontIs DEF Top
  <2> QED
    BY <1>1, <1>2, <1>3, <2>1, <2>2 DEF CallsInv
<1>7. CallsInv'
  <2>1. frames'[1] = frames[1]
    BY <1>2, <1>3, <1>4
  <2>2. \A i \in DOMAIN frames' : i > 1 =>
           /\ i \in DOMAIN frames /\ frames'[i] = frames[i] /\ frames'[i - 1] = frames[i - 1]
    BY <1>2, <1>3, <1>4
  <2> QED
    BY <1>1, <1>6, <2>1, <2>2 DEF CallsInv
<1>8. DataOK'
  BY <1>1, NoHeadIsByte, DataFacts, TypeParts DEF DataOK
<1>9. StackOK'
  <2>1. /\ stack \in Seq(Entries) /\ Len(stack) \in Nat /\ Len(stack) <= Capacity /\ Capacity \in Nat
    BY StackFacts
  <2>2. stack' \in Seq(Entries) /\ Len(stack') = Len(stack) - 1
    BY <1>1, <2>1, FrontIs
  <2>3. allocated' = TRUE
    BY <1>1, RunsAllocated DEF Running
  <2>4. Len(stack') <= Capacity
    <3> DEFINE k == Len(stack)
               k2 == Len(stack')
    <3>1. k \in Nat /\ k <= Capacity /\ k2 = k - 1
      BY <2>1, <2>2
    <3> HIDE DEF k, k2
    <3>2. k2 <= Capacity
      BY <2>1, <3>1
    <3> QED
      BY <3>2 DEF k2
  <2> QED
    BY <2>2, <2>3, <2>4 DEF StackOK
<1>10. FramesOK'
  BY <1>1, <1>3, <1>5 DEF FramesOK
<1>11. RestOK' /\ (use \in Uses)'
  <2>1. last' \in Objects
    BY <1>1, <1>2, DataFacts, FrameFields DEF Objects
  <2> QED
    BY <1>1, <2>1, TypeParts DEF RestOK
<1> QED
  BY <1>7, <1>8, <1>9, <1>10, <1>11, TypePartsNext

LEMMA ProcFailsTypes ==
  ASSUME TypeOK, CallsInv, UNCHANGED use, ProcFails
  PROVE  TypeOK' /\ CallsInv'
<1>1. /\ frames # <<>> /\ Fail("rec_raised") /\ "rec_raised" \in Errors
      /\ UNCHANGED <<input, fed, pos, hvars, last, mode, out, nils>>
  BY DEF ProcFails, Running, Errors
<1>2. DataOK'
  BY <1>1, TypeParts DEF DataOK, hvars
<1>3. StackOK' /\ frames' = <<>> /\ phase' = "idle" /\ outcome' \in Errors
  BY <1>1, FailEnds
<1> QED
  BY <1>1, <1>2, <1>3, EndTypes

LEMMA FeedTypes ==
  ASSUME TypeOK, CallsInv, UNCHANGED use, NEW n \in 1 .. Len(input), Feed(n)
  PROVE  TypeOK' /\ CallsInv'
<1>1. /\ phase \in {"idle", "yield"} /\ fed' = fed + n /\ outcome' = "none" /\ fed + n <= Len(input)
      /\ UNCHANGED <<input, pos, hvars, svars, frames, phase, last, mode, out, nils>>
  BY DEF Feed
<1>2. DataOK'
  BY <1>1, DataFacts, TypeParts DEF DataOK, hvars
<1>3. frames = <<>>
  BY <1>1, TypeParts DEF FramesOK
<1>4. StackOK' /\ FramesOK' /\ RestOK' /\ (use \in Uses)'
  BY <1>1, TypeParts DEF StackOK, FramesOK, RestOK, svars
<1>5. CallsInv'
  BY <1>1, <1>3 DEF CallsInv
<1> QED
  BY <1>2, <1>4, <1>5, TypePartsNext

LEMMA IoDeliversTypes ==
  ASSUME TypeOK, CallsInv, UNCHANGED use, NEW n \in 1 .. Len(input), IoDelivers(n)
  PROVE  TypeOK' /\ CallsInv'
<1>1. /\ fed' = fed + n /\ fed + n <= Len(input)
      /\ UNCHANGED <<input, pos, hvars, svars, frames, phase, last, mode, outcome, out, nils>>
  BY DEF IoDelivers
<1>2. DataOK'
  BY <1>1, DataFacts, TypeParts DEF DataOK, hvars
<1>3. StackOK' /\ FramesOK' /\ RestOK' /\ (use \in Uses)'
  BY <1>1, TypeParts DEF StackOK, FramesOK, RestOK, svars
<1>4. CallsInv'
  BY <1>1, CallsKept DEF svars
<1> QED
  BY <1>2, <1>3, <1>4, TypePartsNext

\* A call is on its own.
LEMMA CallTypes ==
  ASSUME TypeOK, UNCHANGED use, NEW f \in Frames, frames' = <<f>>, phase' = "run",
         UNCHANGED <<input, fed, pos, hvars, last, out>>,
         StackOK', outcome' = "none", mode' \in use.ops \cup {"none"},
         f.op # "proc",
         f.op = "read" => mode' \in {"read", "each", "full"},
         f.op \in {"skip", "skip_nil"} => mode' = f.op,
         f.op \in Containers => mode' = "header",
         f.op \in {"read", "skip"} => allocated'
  PROVE  TypeOK' /\ CallsInv'
<1>1. /\ frames' \in Seq(Frames) /\ frames' # <<>> /\ Len(frames') = 1 /\ frames'[1] = f
      /\ DOMAIN frames' = 1 .. 1
  OBVIOUS
<1>2. \A i \in DOMAIN frames' : ~(i > 1)
  BY <1>1
<1>3. CallsInv'
  BY <1>1, <1>2 DEF CallsInv
<1>4. DataOK' /\ RestOK' /\ (use \in Uses)'
  BY TypeParts DEF DataOK, RestOK, hvars
<1>5. FramesOK'
  BY <1>1 DEF FramesOK
<1> QED
  BY <1>3, <1>4, <1>5, TypePartsNext

LEMMA BeginTypes ==
  ASSUME TypeOK, CallsInv, UNCHANGED use, NEW op \in {"read", "each", "skip", "full"},
         op \in use.ops, Begin(op)
  PROVE  TypeOK' /\ CallsInv' /\ stack' = stack
<1> DEFINE f == ReadFrame(IF op = "skip" THEN "skip" ELSE "read", ~ allocated)
<1>1. /\ phase' = "run" /\ mode' = op /\ outcome' = "none" /\ frames' = <<f>>
      /\ stack' = (IF allocated THEN stack ELSE <<>>) /\ allocated' = TRUE
      /\ UNCHANGED <<input, fed, pos, hvars, last, out, nils>>
  BY DEF Begin
<1>2. StackOK
  BY TypeParts
<1>3. stack' = stack
  BY <1>1, <1>2 DEF StackOK
<1>4. StackOK'
  BY <1>1, <1>2, <1>3 DEF StackOK
<1>5. f \in Frames /\ f.op = IF op = "skip" THEN "skip" ELSE "read"
  BY <1>2, EmptySeq DEF ReadFrame, Frames, StackOK
<1> HIDE DEF f
<1>6. /\ f.op # "proc"
      /\ f.op = "read" => mode' \in {"read", "each", "full"}
      /\ f.op \in {"skip", "skip_nil"} => mode' = f.op
      /\ f.op \in Containers => mode' = "header"
  BY <1>1, <1>5 DEF Containers
<1> QED
  BY <1>1, <1>3, <1>4, <1>5, <1>6, CallTypes

LEMMA NextTurnIs ==
  ASSUME TypeOK, CallsInv, NextTurn
  PROVE  Begin("each") /\ "each" \in use.ops /\ phase = "yield" /\ mode = "each"
<1>1. mode = "each" /\ phase = "yield" /\ Begin("each")
  BY DEF NextTurn, CallsInv
<1>2. mode \in use.ops \cup {"none"}
  BY TypeParts DEF RestOK
<1> QED
  BY <1>1, <1>2

LEMMA BreakTypes ==
  ASSUME TypeOK, CallsInv, UNCHANGED use, Break
  PROVE  TypeOK' /\ CallsInv'
<1>1. /\ phase = "yield" /\ phase' = "idle"
      /\ UNCHANGED <<input, fed, pos, hvars, svars, frames, last, mode, outcome, out, nils>>
  BY DEF Break
<1>2. frames = <<>>
  BY <1>1, TypeParts DEF FramesOK
<1>3. DataOK' /\ StackOK' /\ FramesOK' /\ RestOK' /\ (use \in Uses)'
  BY <1>1, <1>2, TypeParts DEF DataOK, StackOK, FramesOK, RestOK, svars, hvars
<1>4. CallsInv'
  BY <1>1, <1>2, CallsGone
<1> QED
  BY <1>3, <1>4, TypePartsNext

LEMMA CallHeaderTypes ==
  ASSUME TypeOK, CallsInv, UNCHANGED use, NEW op \in Containers \cup {"skip_nil"}, CallHeader(op)
  PROVE  TypeOK' /\ CallsInv'
<1> DEFINE f == ReadFrame(op, FALSE)
<1>1. /\ phase' = "run" /\ outcome' = "none" /\ frames' = <<f>>
      /\ mode' = (IF op = "skip_nil" THEN op ELSE "header")
      /\ mode' \in use.ops
      /\ UNCHANGED <<input, fed, pos, hvars, svars, last, out, nils>>
  BY DEF CallHeader
<1>2. StackOK'
  BY <1>1, TypeParts DEF StackOK, svars
<1>3. f \in Frames /\ f.op = op
  BY EmptySeq DEF ReadFrame, Frames
<1> HIDE DEF f
<1>4. /\ f.op \notin {"proc", "read", "skip"}
      /\ f.op = "skip_nil" => mode' = f.op
      /\ f.op \in Containers => mode' = "header"
  BY <1>1, <1>3 DEF Containers
<1> QED
  BY <1>1, <1>2, <1>3, <1>4, CallTypes

LEMMA KeepHeadTypes ==
  ASSUME TypeOK, HeadReady, UNCHANGED <<use, input, fed, raw>>, KeepHead
  PROVE  DataOK'
<1>1. /\ head' = (IF H.k = "bad" THEN NoHead ELSE H)
      /\ head_at' = (IF H.k = "bad" THEN 0 ELSE HAt) /\ pos' = AfterHead
  BY DEF KeepHead
<1>2. H \in Byte /\ HAt \in Nat /\ HAt <= fed /\ AfterHead \in Nat /\ AfterHead <= fed
  BY HeadFacts
<1>3. head' \in Byte /\ head_at' \in 0 .. fed
  BY <1>1, <1>2, DataFacts, NoHeadIsByte
<1> QED
  BY <1>1, <1>2, <1>3, DataFacts, TypeParts DEF DataOK

LEMMA RaiseTypes ==
  ASSUME TypeOK, NEW kind \in {"eof", "type"}, Raise(kind), UNCHANGED use, DataOK'
  PROVE  TypeOK' /\ CallsInv'
<1>1. /\ outcome' = kind /\ frames' = <<>> /\ phase' = "idle"
      /\ UNCHANGED <<input, fed, raw, allocated, last, mode, out>>
      /\ stack' = stack \/ stack' = <<>>
  BY DEF Raise, EndHeader
<1>2. StackOK'
  <2>1. CASE stack' = stack
    BY <1>1, <2>1, TypeParts DEF StackOK
  <2>2. CASE stack' = <<>>
    <3>1. allocated' \in BOOLEAN /\ Capacity \in Nat
      BY <1>1, UnpackerAssumption, TypeParts DEF StackOK
    <3> QED
      BY <2>2, <3>1, EmptySeq DEF StackOK
  <2> QED
    BY <1>1, <2>1, <2>2
<1> QED
  BY <1>1, <1>2, EndTypes

LEMMA ReadHeaderTypes ==
  ASSUME TypeOK, CallsInv, UNCHANGED use, NEW kind \in Containers, ReadHeader(kind)
  PROVE  TypeOK' /\ CallsInv'
<1>1. CASE /\ ~ HeadReady /\ Raise("eof") /\ UNCHANGED <<pos, head, head_at>>
  <2>1. DataOK'
    BY <1>1, TypeParts DEF DataOK, Raise, EndHeader
  <2> QED
    BY <1>1, <2>1, RaiseTypes
<1>2. CASE HeadReady /\ KeepHead /\ (Raise("eof") \/ Raise("type"))
  <2>1. UNCHANGED <<use, input, fed, raw>>
    BY <1>2 DEF Raise, EndHeader
  <2>2. DataOK'
    BY <1>2, <2>1, KeepHeadTypes
  <2> QED
    BY <1>2, <2>2, RaiseTypes
<1>3. CASE /\ CastReady /\ head' = NoHead /\ head_at' = 0 /\ pos' = AfterCast
           /\ out' = Append(out, [at |-> HAt, to |-> AfterCast, whole |-> FALSE])
           /\ EndHeader("ok") /\ UNCHANGED <<stack, nils>>
  <2>1. /\ outcome' = "ok" /\ frames' = <<>> /\ phase' = "idle"
        /\ UNCHANGED <<input, fed, raw, allocated, last, mode>>
    BY <1>3 DEF EndHeader
  <2>2. DataOK'
    BY <1>3, <2>1, HeadTakenTypes, DataFacts
  <2>3. StackOK' /\ FramesOK'
    BY <1>3, <2>1, EmptySeq, TypeParts DEF StackOK, FramesOK
  <2>4. [at |-> HAt, to |-> AfterCast, whole |-> FALSE] \in Results
    BY <1>3, CastFacts DEF Results
  <2>5. RestOK'
    <3>1. out \in Seq(Results)
      BY TypeParts DEF RestOK
    <3>2. out' \in Seq(Results)
      BY <1>3, <2>4, <3>1, AppendIs
    <3> QED
      BY <2>1, <3>2, TypeParts DEF RestOK
  <2>6. CallsInv'
    BY <2>1, CallsGone
  <2> QED
    BY <2>2, <2>3, <2>5, <2>6, TypeParts, TypePartsNext
<1> QED
  BY <1>1, <1>2, <1>3 DEF ReadHeader

LEMMA SkipNilTypes ==
  ASSUME TypeOK, CallsInv, UNCHANGED use, SkipNil
  PROVE  TypeOK' /\ CallsInv'
<1>1. CASE /\ ~ HeadReady /\ Raise("eof") /\ UNCHANGED <<pos, head, head_at>>
  <2>1. DataOK'
    BY <1>1, TypeParts DEF DataOK, Raise, EndHeader
  <2> QED
    BY <1>1, <2>1, RaiseTypes
<1>2. CASE HeadReady /\ KeepHead /\ EndHeader("ok") /\ UNCHANGED <<stack, out>>
  <2>1. /\ outcome' = "ok" /\ frames' = <<>> /\ phase' = "idle"
        /\ UNCHANGED <<input, fed, raw, allocated, last, mode>>
    BY <1>2 DEF EndHeader
  <2>2. DataOK'
    BY <1>2, <2>1, KeepHeadTypes
  <2>3. StackOK'
    BY <1>2, <2>1, TypeParts DEF StackOK
  <2> QED
    BY <1>2, <2>1, <2>2, <2>3, EndTypes
<1> QED
  BY <1>1, <1>2 DEF SkipNil

LEMMA ResetTypes ==
  ASSUME TypeOK, CallsInv, UNCHANGED use, Reset
  PROVE  TypeOK' /\ CallsInv'
<1>1. /\ phase = "idle" /\ input' \in use.streams /\ fed' = 0 /\ pos' = 0
      /\ head' = NoHead /\ head_at' = 0 /\ raw' = 0
      /\ stack' = <<>> /\ last' = Nothing /\ out' = <<>>
      /\ mode' = "none" /\ outcome' = "none"
      /\ UNCHANGED <<allocated, frames, phase>>
  BY DEF Reset
<1>2. use \in Uses /\ frames = <<>>
  BY <1>1, TypeParts DEF FramesOK
<1>3. DataOK'
  <2>1. input' \in Seq(Byte)
    BY <1>1, <1>2, UnpackerAssumption
  <2> QED
    BY <1>1, <2>1, NoHeadIsByte DEF DataOK
<1>4. StackOK'
  <2>1. stack' = <<>> /\ allocated' \in BOOLEAN /\ Capacity \in Nat
    BY <1>1, UnpackerAssumption, TypeParts DEF StackOK
  <2> QED
    BY <2>1, EmptySeq DEF StackOK
<1>6. FramesOK'
  BY <1>1, TypeParts DEF FramesOK
<1>7. RestOK'
  BY <1>1, EmptySeq DEF RestOK, Nothing, Objects
<1>5. CallsInv'
  BY <1>1, <1>2 DEF CallsInv
<1> QED
  BY <1>2, <1>3, <1>4, <1>5, <1>6, <1>7, TypePartsNext

LEMMA InitTypes ==
  ASSUME Init
  PROVE  TypeOK /\ CallsInv
<1>1. use \in Uses /\ input \in use.streams
  BY DEF Init
<1>2. input \in Seq(Byte)
  BY <1>1, UnpackerAssumption
<1>3. DataOK
  BY <1>2, NoHeadIsByte DEF Init, DataOK
<1>4. StackOK
  <2>1. stack = <<>> /\ allocated = FALSE /\ Capacity \in Nat
    BY UnpackerAssumption DEF Init
  <2>2. stack \in Seq(Entries) /\ Len(stack) <= Capacity
    BY <2>1, EmptySeq
  <2>3. allocated \in BOOLEAN
    BY <2>1
  <2> QED
    BY <2>1, <2>2, <2>3 DEF StackOK
<1>6. FramesOK
  BY EmptySeq DEF Init, FramesOK
<1>7. RestOK
  BY EmptySeq DEF Init, RestOK, Nothing, Objects
<1>5. CallsInv
  BY DEF Init, CallsInv
<1> QED
  BY <1>1, <1>3, <1>4, <1>5, <1>6, <1>7, TypeParts

\* Every step but those of the owner's calls and of the IO.
LEMMA DecodeTypes ==
  ASSUME TypeOK, CallsInv, UNCHANGED use, Decode
  PROVE  TypeOK' /\ CallsInv'
<1> QED
  BY StarvesTypes, ScalarTypes, ContainerTypes, RawBodyTypes, RecursiveBeginTypes,
     RecursiveEmptyTypes, InvalidByteTypes, CompletedTypes, ProcReturnsTypes,
     ProcCallsTypes, ReadHeaderTypes, SkipNilTypes DEF Decode

LEMMA NextTypes ==
  ASSUME TypeOK, CallsInv, [Next]_vars
  PROVE  TypeOK' /\ CallsInv'
<1>1. CASE UNCHANGED vars
  <2>1. /\ DataOK' /\ StackOK' /\ FramesOK' /\ RestOK' /\ (use \in Uses)'
    BY <1>1, TypeParts DEF DataOK, StackOK, FramesOK, RestOK, vars
  <2>2. CallsInv'
    BY <1>1, CallsKept DEF vars
  <2> QED
    BY <2>1, <2>2, TypePartsNext
<1>2. CASE UNCHANGED use /\ Decode
  BY <1>2, DecodeTypes
<1>3. CASE UNCHANGED use /\ ProcFails
  BY <1>3, ProcFailsTypes
<1>4. CASE UNCHANGED use /\ \E n \in 1 .. Len(input) : Feed(n) \/ IoDelivers(n)
  BY <1>4, FeedTypes, IoDeliversTypes
<1>5. CASE UNCHANGED use /\ \E op \in {"read", "each", "skip", "full"} : Call(op)
  BY <1>5, BeginTypes DEF Call
<1>6. CASE UNCHANGED use /\ NextTurn
  BY <1>6, NextTurnIs, BeginTypes
<1>7. CASE UNCHANGED use /\ Break
  BY <1>7, BreakTypes
<1>8. CASE UNCHANGED use /\ \E op \in Containers \cup {"skip_nil"} : CallHeader(op)
  BY <1>8, CallHeaderTypes
<1>9. CASE UNCHANGED use /\ Reset
  BY <1>9, ResetTypes
<1> QED
  BY <1>1, <1>2, <1>3, <1>4, <1>5, <1>6, <1>7, <1>8, <1>9 DEF Next, Step

\* The decoder keeps within its types: the stack within its capacity, what is
\* consumed within what was fed, a stack only where there is memory for it.
THEOREM UnpackerTypeCorrect == Spec => []TypeOK
<1>1. Init => TypeOK /\ CallsInv
  BY InitTypes
<1>2. TypeOK /\ CallsInv /\ [Next]_vars => TypeOK' /\ CallsInv'
  BY NextTypes
<1> QED
  BY <1>1, <1>2, PTL DEF Spec
-----------------------------------------------------------------------------
(* What the invariant says of a state. *)

LEMMA UseFacts ==
  ASSUME SoundUses, TypeOK
  PROVE  /\ WellFormed(input) /\ use.proc_ops \subseteq {"read"}
         /\ use.go_on \subseteq Errors \ {"unknown", "raised"}
         /\ "header" \in use.ops /\ "each" \in use.ops => use.io
         /\ KeepsStack(use) /\ ("header" \in use.ops \/ "skip_nil" \in use.ops)
              => \A i \in DOMAIN input : input[i].k # "bad"
<1>1. use \in Uses /\ input \in use.streams
  BY TypeParts DEF DataOK
<1>2. SoundUse(use)
  BY <1>1 DEF SoundUses
<1> QED
  BY <1>1, <1>2 DEF SoundUse

LEMMA NoProcs ==
  ASSUME NestInv, ProcFrames = {}
  PROVE  RecEntries = {}
BY DEF NestInv, ProcsMatch

LEMMA NoCall ==
  ASSUME NestInv, frames = <<>>
  PROVE  ProcFrames = {} /\ RecEntries = {}
<1>1. ProcFrames = {}
  BY DEF ProcFrames
<1> QED
  BY <1>1, NoProcs

LEMMA OneCall ==
  ASSUME TypeOK, CallsInv, NestInv, frames # <<>>, Len(frames) = 1
  PROVE  ProcFrames = {} /\ RecEntries = {} /\ Top = frames[1] /\ Top.op # "proc"
<1>1. DOMAIN frames = 1 .. 1 /\ Top = frames[1] /\ frames[1].op # "proc"
  BY FrameFacts DEF CallsInv
<1>2. ProcFrames = {}
  BY <1>1 DEF ProcFrames
<1> QED
  BY <1>1, <1>2, NoProcs

\* A call of a proc is a read.
LEMMA NestedCall ==
  ASSUME SoundUses, TypeOK, CallsInv, NestInv, frames # <<>>, Len(frames) # 1, Top.op # "proc"
  PROVE  /\ Top.op = "read" /\ Len(frames) >= 3
         /\ Len(frames) - 1 \in ProcFrames /\ Len(frames) \notin ProcFrames
         /\ frames[Len(frames) - 1] \in Frames /\ frames[Len(frames) - 1].left > 0
         /\ RecEntries # {} /\ stack # <<>>
<1> DEFINE n == Len(frames)
<1>1. /\ n >= 2 /\ n - 1 \in DOMAIN frames /\ frames[n - 1] \in Frames
      /\ frames[n - 1].op = "proc" /\ frames[n - 1].left > 0
      /\ Top.op \in use.proc_ops
  BY ReturnsToProc
<1>2. n \in Nat /\ Top = frames[n] /\ DOMAIN frames = 1 .. n
  BY FrameFacts
<1>3. Top.op = "read"
  BY <1>1, UseFacts
<1>4. n - 1 \in ProcFrames /\ n \notin ProcFrames
  BY <1>1, <1>2, <1>3 DEF ProcFrames
<1>5. n >= 3
  <2>1. n - 1 # 1
    BY <1>1 DEF CallsInv
  <2> HIDE DEF n
  <2> QED
    BY <1>1, <1>2, <2>1
<1>6. RecEntries # {}
  BY <1>4 DEF NestInv, ProcsMatch
<1>7. stack # <<>>
  BY <1>6 DEF RecEntries
<1> QED
  BY <1>1, <1>3, <1>4, <1>5, <1>6, <1>7

LEMMA FrontierIs ==
  ASSUME TypeOK
  PROVE  Frontier \in Nat /\ HAt \in Nat /\ last.at \in Nat
<1>1. last.at \in Nat
  BY TypeParts DEF RestOK, Objects
<1> QED
  BY <1>1, DataFacts DEF Frontier, HAt

\* From the bottom to the top of the stack the objects lie one in the other.
LEMMA Chain ==
  ASSUME TypeOK, NestInv
  PROVE  \A j \in DOMAIN stack :
           /\ stack[j].at < Frontier
           /\ \A k \in DOMAIN stack : j < k => stack[j].at < stack[k].at
<1> DEFINE m == Len(stack)
           Below(j) == /\ stack[j].at < Frontier
                       /\ \A k \in 1 .. m : j < k => stack[j].at < stack[k].at
           B == {j \in 1 .. m : ~ Below(j)}
<1>1. m \in Nat /\ DOMAIN stack = 1 .. m /\ \A j \in 1 .. m : stack[j].at \in Nat
  BY StackFacts, EntryFields
<1>2. Frontier \in Nat
  BY FrontierIs
<1>3. \A j \in 1 .. m : stack[j].at < IF j < m THEN stack[j + 1].at ELSE Frontier
  BY <1>1 DEF NestInv, Nested, ElementStart
<1> HIDE DEF m
<1>4. ASSUME NEW j \in 1 .. m, \A k \in j + 1 .. m : k \notin B
      PROVE  j \notin B
  <2>1. CASE j = m
    <3>1. ~(j < m) /\ \A k \in 1 .. m : ~(j < k)
      BY <1>1, <2>1
    <3>2. stack[j].at < Frontier
      BY <1>3, <3>1
    <3>3. Below(j)
      BY <3>1, <3>2
    <3> QED
      BY <3>3
  <2>2. CASE j # m
    <3>1. j + 1 \in 1 .. m /\ j + 1 \in j + 1 .. m /\ j < m
      BY <1>1, <2>2
    <3>2. Below(j + 1)
      <4> HIDE DEF Below
      <4> QED
        BY <1>4, <3>1
    <3>3. stack[j].at < stack[j + 1].at
      BY <1>3, <3>1
    <3>4. stack[j].at \in Nat /\ stack[j + 1].at \in Nat
      BY <1>1, <3>1
    <3>5. stack[j].at < Frontier
      BY <1>2, <3>2, <3>3, <3>4
    <3>6. ASSUME NEW k \in 1 .. m, j < k PROVE stack[j].at < stack[k].at
      <4>1. k = j + 1 \/ j + 1 < k
        BY <1>1, <3>6
      <4>2. stack[k].at \in Nat
        BY <1>1
      <4> QED
        BY <3>2, <3>3, <3>4, <4>1, <4>2
    <3> QED
      BY <3>5, <3>6
  <2> QED
    BY <2>1, <2>2
<1>5. B = {}
  <2>1. B \subseteq 1 .. m
    OBVIOUS
  <2> HIDE DEF B
  <2> QED
    BY <1>1, <1>4, <2>1, Descend
<1>6. \A j \in 1 .. m : Below(j)
  <2> HIDE DEF Below
  <2> QED
    BY <1>5
<1> QED
  BY <1>1, <1>6

\* The call under way stands at the head of an object.
LEMMA HeadHere ==
  ASSUME TypeOK, CallsInv, HeadInv, frames # <<>>, raw = 0, HeadReady
  PROVE  /\ HAt \in 1 .. Len(input) /\ AfterHead = HAt /\ H = input[HAt] /\ HAt > 0
         /\ H.k # "data" /\ H # NoHead
         /\ HeadKept => H.k # "bad"
<1>1. outcome = "none"
  BY DEF CallsInv
<1>2. /\ Len(input) \in Nat /\ pos \in Nat /\ fed \in Nat /\ head_at \in Nat
      /\ pos <= fed /\ fed <= Len(input) /\ Avail = fed - pos
  BY DataFacts
<1>3. CASE HeadKept
  <2>1. /\ head_at \in 1 .. pos /\ head = input[head_at]
        /\ head.k \notin {"data", "bad"} /\ pos = head_at
    BY <1>1, <1>3 DEF HeadInv
  <2> QED
    BY <1>2, <1>3, <2>1 DEF HAt, H, AfterHead, NoHead
<1>4. CASE ~ HeadKept
  <2>1. fed - pos > 0
    BY <1>2, <1>4 DEF HeadReady
  <2>2. pos + 1 \in 1 .. Len(input) /\ pos < Len(input)
    BY <1>2, <2>1
  <2>3. input[pos + 1].k # "data"
    BY <1>1, <1>4, <2>2 DEF HeadInv
  <2> QED
    BY <1>4, <2>2, <2>3 DEF HAt, H, AfterHead, NoHead
<1> QED
  BY <1>3, <1>4

\* With all its bytes it is an object of the stream.
LEMMA CastHere ==
  ASSUME TypeOK, CallsInv, HeadInv, frames # <<>>, raw = 0, CastReady
  PROVE  /\ HAt \in 1 .. Len(input) /\ H = input[HAt] /\ H.k # "data"
         /\ AfterCast = HAt + input[HAt].cast /\ AfterCast \in Nat
         /\ AfterCast <= fed /\ AfterCast <= Len(input) /\ First(HAt) = AfterCast + 1
         /\ HAt <= AfterCast /\ pos <= AfterCast
         /\ Behind(input, HAt) = AfterCast + 1 + IF H.k \in RawKinds THEN H.n ELSE 0
<1>1. /\ HeadReady /\ HAt \in Nat /\ AfterCast \in Nat /\ AfterCast <= fed
      /\ pos \in Nat /\ pos <= AfterCast
      /\ AfterCast = AfterHead + H.cast /\ H.cast \in Nat /\ H.n \in Nat
  BY CastFacts
<1>2. HAt \in 1 .. Len(input) /\ AfterHead = HAt /\ H = input[HAt] /\ H.k # "data"
  BY <1>1, HeadHere
<1>3. Len(input) \in Nat /\ fed <= Len(input) /\ fed \in Nat
  BY DataFacts
<1> DEFINE a == HAt
           c == H.cast
           n == IF H.k \in RawKinds THEN H.n ELSE 0
           z == AfterCast
           l == Len(input)
<1>4. /\ z = a + c /\ First(a) = a + c + 1 /\ Behind(input, a) = a + 1 + c + n
      /\ a \in Nat /\ c \in Nat /\ n \in Nat /\ l \in Nat /\ z <= fed /\ fed <= l
  BY <1>1, <1>2, <1>3 DEF First, Behind
<1> HIDE DEF a, c, n, z, l
<1>5. First(a) = z + 1 /\ a <= z /\ Behind(input, a) = z + 1 + n /\ z <= l
  BY <1>3, <1>4
<1> QED
  BY <1>1, <1>2, <1>4, <1>5 DEF a, c, n, z, l

\* The bytes of an object are consumed: the next head follows.
LEMMA NextHead ==
  ASSUME SoundUses, TypeOK, UNCHANGED input, NEW at \in 1 .. Len(input), input[at].k # "data",
         Behind(input, at) = pos' + 1, pos' \in Nat, head' = NoHead, raw' = 0
  PROVE  HeadInv' /\ HAt' = pos' + 1 /\ ~ HeadKept'
<1>1. WellFormed(input) /\ input \in Seq(Byte)
  BY UseFacts, DataFacts
<1>2. ~ HeadKept'
  BY DEF HeadKept
<1>3. pos' < Len(input) => pos' + 1 \in DOMAIN input
  BY <1>1
<1>4. pos' < Len(input) => input[pos' + 1].k # "data"
  BY <1>1, <1>3 DEF WellFormed
<1> QED
  BY <1>2, <1>4 DEF HeadInv, HAt

LEMMA HeadStays ==
  ASSUME HeadInv, outcome \notin {"unknown", "raised"}, UNCHANGED <<input, pos, hvars>>
  PROVE  HeadInv' /\ HAt' = HAt /\ HeadKept' = HeadKept
BY DEF HeadInv, HAt, HeadKept, hvars

\* A head byte that is kept.
LEMMA HeadIsKept ==
  ASSUME TypeOK, CallsInv, HeadInv, frames # <<>>, UNCHANGED input, raw = 0, HeadReady,
         H.k # "bad", head' = H, head_at' = HAt, pos' \in Nat, HAt <= pos',
         IF raw' = 0 THEN pos' = HAt
         ELSE H.k \in RawKinds /\ HAt + H.cast + H.n = pos' + raw'
  PROVE  HeadInv' /\ HAt' = HAt /\ HeadKept'
<1>1. HAt \in 1 .. Len(input) /\ H = input[HAt] /\ H.k # "data" /\ H # NoHead
  BY HeadHere
<1>2. HeadKept' /\ HAt' = HAt
  BY <1>1 DEF HeadKept, HAt
<1>3. HAt \in 1 .. pos'
  BY <1>1
<1>4. head_at' \in 1 .. pos' /\ head' = input'[head_at'] /\ head'.k \notin {"data", "bad"}
  BY <1>1, <1>3
<1>5. IF raw' = 0 THEN pos' = head_at'
      ELSE head'.k \in RawKinds /\ head_at' + head'.cast + head'.n = pos' + raw'
  BY <1>1
<1> QED
  BY <1>2, <1>4, <1>5 DEF HeadInv

LEMMA BadIsAlone ==
  ASSUME SoundUses, TypeOK, NEW i \in 1 .. Len(input), input[i].k = "bad"
  PROVE  input[i].cast = 0 /\ Behind(input, i) = i + 1
<1>1. WellFormed(input) /\ input \in Seq(Byte)
  BY UseFacts, DataFacts
<1>2. input[i].cast = 0
  BY <1>1 DEF WellFormed
<1> QED
  BY <1>2 DEF Behind, RawKinds

\* When the data runs out the object stays where it is, ...
LEMMA TakePartHead ==
  ASSUME SoundUses, TypeOK, CallsInv, HeadInv, frames # <<>>, UNCHANGED <<input, fed>>, TakePart
  PROVE  HeadInv' /\ HAt' = HAt
<1>1. outcome = "none"
  BY DEF CallsInv
<1>2. /\ Len(input) \in Nat /\ pos \in Nat /\ fed \in Nat /\ head_at \in Nat /\ raw \in Nat
      /\ pos <= fed /\ fed <= Len(input) /\ Avail = fed - pos
  BY DataFacts
<1>3. CASE raw > 0 /\ Avail < raw /\ raw' = RawRest /\ pos' = fed /\ UNCHANGED <<head, head_at>>
  <2>1. HeadKept /\ head_at \in 1 .. pos /\ head = input[head_at] /\ head.k \notin {"data", "bad"}
        /\ head.k \in RawKinds /\ head_at + head.cast + head.n = pos + raw
    BY <1>1, <1>3 DEF HeadInv
  <2>2. raw' = raw - (fed - pos) /\ raw' # 0 /\ pos + raw = pos' + raw' /\ head_at \in 1 .. pos'
    BY <1>2, <1>3, <2>1 DEF RawRest
  <2>3. HeadKept' /\ HAt' = HAt
    BY <1>3, <2>1 DEF HeadKept, HAt
  <2>4. head_at' + head'.cast + head'.n = pos' + raw'
    BY <1>3, <2>1, <2>2
  <2> QED
    BY <1>3, <2>1, <2>2, <2>3, <2>4 DEF HeadInv
<1>4. CASE UNCHANGED <<pos, hvars>>
  <2>1. HeadKept' = HeadKept /\ HAt' = HAt
    BY <1>4 DEF HeadKept, HAt, hvars
  <2> QED
    BY <1>1, <1>4, <2>1 DEF HeadInv, hvars
<1>5. CASE /\ raw = 0 /\ HeadReady /\ ~ CastReady
           /\ head' = H /\ head_at' = HAt /\ pos' = AfterHead /\ UNCHANGED raw
  <2>1. HAt \in 1 .. Len(input) /\ AfterHead = HAt /\ H = input[HAt]
    BY <1>5, HeadHere
  <2>2. H.k # "bad"
    <3>1. AfterHead \in Nat /\ AfterHead <= fed
      BY <1>5, HeadFacts
    <3>2. H.k = "bad" => H.cast = 0
      BY <2>1, BadIsAlone
    <3>3. ~(fed - AfterHead >= H.cast)
      BY <1>5 DEF CastReady
    <3> QED
      BY <1>2, <3>1, <3>2, <3>3
  <2>3. pos' \in Nat /\ HAt <= pos' /\ raw' = 0 /\ pos' = HAt
    BY <1>5, <2>1
  <2> QED
    BY <1>5, <2>2, <2>3, HeadIsKept
<1>6. CASE /\ raw = 0 /\ CastReady /\ H.k \in RawKinds /\ ~ BodyReady
           /\ head' = H /\ head_at' = HAt /\ pos' = fed
           /\ raw' = H.n - (fed - AfterCast)
  <2>1. HeadReady
    BY <1>6 DEF CastReady
  <2> DEFINE a == HAt
             c == H.cast
             n == H.n
             z == AfterCast
  <2>2. /\ a \in Nat /\ a >= 1 /\ c \in Nat /\ n \in Nat /\ z \in Nat /\ z <= fed /\ a <= z
        /\ z = a + c
    BY <1>6, CastHere, CastFacts
  <2>3. fed - z < n
    <3> HIDE DEF a, c
    <3> QED
      BY <1>2, <1>6, <2>2 DEF BodyReady
  <2>4. raw' = n - (fed - z)
    BY <1>6
  <2>5. raw' # 0 /\ a + c + n = pos' + raw' /\ pos' \in Nat /\ a <= pos'
    <3> HIDE DEF a, c, n, z
    <3> QED
      BY <1>2, <1>6, <2>2, <2>3, <2>4
  <2>6. H.k # "bad"
    BY <1>6 DEF RawKinds
  <2> QED
    BY <1>6, <2>1, <2>5, <2>6, HeadIsKept
<1> QED
  BY <1>3, <1>4, <1>5, <1>6 DEF TakePart

\* ... and it is not all there.
LEMMA TakePartCut ==
  ASSUME SoundUses, TypeOK, CallsInv, HeadInv, frames # <<>>, TakePart
  PROVE  HAt \in 1 .. Len(input) + 1 /\ EndOf(HAt) > fed
<1>1. outcome = "none"
  BY DEF CallsInv
<1>2. /\ Len(input) \in Nat /\ pos \in Nat /\ fed \in Nat /\ head_at \in Nat /\ raw \in Nat
      /\ pos <= fed /\ fed <= Len(input) /\ Avail = fed - pos /\ input \in Seq(Byte)
      /\ head \in Byte
  BY DataFacts
<1>3. ASSUME HAt \in 1 .. Len(input), Behind(input, HAt) \in Nat, Behind(input, HAt) > fed + 1
      PROVE  HAt \in 1 .. Len(input) + 1 /\ EndOf(HAt) > fed
  <2> DEFINE e == ObjectsEnd(input, HAt, 1)
             b == Behind(input, HAt)
             l == Len(input)
  <2>1. e = l + 1 \/ e >= b - 1
    BY <1>2, <1>3, EndBehind
  <2>2. e \in HAt .. l + 1
    <3>1. HAt \in 1 .. Len(input) + 1 /\ 1 \in Nat /\ 1 # 0
      BY <1>2, <1>3
    <3>2. ObjectsEnd(input, HAt, 1) \in HAt .. Len(input) + 1
      BY <1>2, <3>1, EndRange
    <3> QED
      BY <3>2
  <2>3. e > fed
    <3>1. b \in Nat /\ b > fed + 1 /\ l \in Nat /\ fed <= l /\ e \in Int
      BY <1>2, <1>3, <2>2
    <3> HIDE DEF e, b, l
    <3> QED
      BY <1>2, <2>1, <3>1
  <2> QED
    BY <1>2, <1>3, <2>3 DEF EndOf
<1>4. CASE raw > 0 /\ Avail < raw
  <2>1. HeadKept /\ head_at \in 1 .. pos /\ head = input[head_at]
        /\ head.k \in RawKinds /\ head_at + head.cast + head.n = pos + raw
    BY <1>1, <1>4 DEF HeadInv
  <2>2. HAt = head_at /\ HAt \in 1 .. Len(input)
    BY <1>2, <2>1 DEF HAt
  <2> DEFINE a == HAt
             c == head.cast
             n == head.n
  <2>3. Behind(input, a) = a + 1 + c + n
    BY <2>1, <2>2 DEF Behind
  <2>4. a \in Nat /\ c \in Nat /\ n \in Nat /\ a + c + n = pos + raw
    BY <1>2, <2>1, <2>2, ByteFields
  <2> HIDE DEF a, c, n
  <2>5. Behind(input, a) \in Nat /\ Behind(input, a) > fed + 1
    BY <1>2, <1>4, <2>3, <2>4
  <2> QED
    BY <1>3, <2>2, <2>5 DEF a
<1>5. CASE raw = 0 /\ ~ HeadReady
  <2>1. HAt = pos + 1 /\ pos = fed
    BY <1>2, <1>5 DEF HeadReady, HAt
  <2>2. HAt \in 1 .. Len(input) + 1
    BY <1>2, <2>1
  <2>3. EndOf(HAt) \in HAt .. Len(input) + 1
    BY <1>2, <2>2, EndRange DEF EndOf
  <2> QED
    BY <1>2, <2>1, <2>2, <2>3
<1>6. CASE raw = 0 /\ HeadReady /\ ~ CastReady
  <2>1. HAt \in 1 .. Len(input) /\ AfterHead = HAt /\ H = input[HAt]
    BY <1>6, HeadHere
  <2> DEFINE a == HAt
             c == H.cast
             n == IF H.k \in RawKinds THEN H.n ELSE 0
  <2>2. a \in Nat /\ c \in Nat /\ n \in Nat
    BY <1>6, <2>1, HeadFacts
  <2>3. ~(fed - a >= c) /\ Behind(input, a) = a + 1 + c + n
    BY <1>6, <2>1 DEF CastReady, Behind
  <2> HIDE DEF a, c, n
  <2>4. Behind(input, a) \in Nat /\ Behind(input, a) > fed + 1
    BY <1>2, <2>2, <2>3
  <2> QED
    BY <1>3, <2>1, <2>4 DEF a
<1>7. CASE raw = 0 /\ CastReady /\ H.k \in RawKinds /\ ~ BodyReady
  <2>1. HAt \in 1 .. Len(input) /\ AfterCast \in Nat /\ AfterCast <= fed
        /\ Behind(input, HAt) = AfterCast + 1 + H.n /\ H.n \in Nat
    BY <1>7, CastHere, CastFacts
  <2>2. ~(fed - AfterCast >= H.n)
    BY <1>7 DEF BodyReady
  <2> DEFINE n == H.n
             z == AfterCast
             b == Behind(input, HAt)
  <2>3. n \in Nat /\ z \in Nat /\ b = z + 1 + n /\ ~(fed - z >= n)
    BY <2>1, <2>2
  <2> HIDE DEF n, z, b
  <2>4. b \in Nat /\ b > fed + 1
    BY <1>2, <2>3
  <2> QED
    BY <1>3, <2>1, <2>4 DEF b
<1> QED
  BY <1>4, <1>5, <1>6, <1>7 DEF TakePart

\* read_array_header, read_map_header and skip_nil keep the head byte they
\* do not take, but for 0xc1.
LEMMA KeepHeadHead ==
  ASSUME SoundUses, TypeOK, CallsInv, HeadInv, frames # <<>>, HeadReady, KeepHead,
         UNCHANGED <<input, fed, raw>>
  PROVE  HeadInv' /\ (H.k # "bad" => HAt' = HAt)
<1>1. outcome = "none"
  BY DEF CallsInv
<1>2. /\ head' = (IF H.k = "bad" THEN NoHead ELSE H)
      /\ head_at' = (IF H.k = "bad" THEN 0 ELSE HAt) /\ pos' = AfterHead
  BY DEF KeepHead
<1>3. CASE HeadKept
  <2>1. H = head /\ HAt = head_at /\ AfterHead = pos /\ H.k # "bad"
    BY <1>1, <1>3 DEF H, HAt, AfterHead, HeadInv
  <2>2. UNCHANGED <<input, pos, hvars>>
    BY <1>2, <2>1 DEF hvars
  <2> QED
    BY <1>1, <2>2, HeadStays
<1>4. CASE ~ HeadKept
  <2>1. raw = 0
    BY <1>1, <1>4 DEF HeadInv
  <2>2. HAt \in 1 .. Len(input) /\ AfterHead = HAt /\ H = input[HAt] /\ H.k # "data"
    BY <2>1, HeadHere
  <2>3. CASE H.k = "bad"
    <3>1. Behind(input, HAt) = pos' + 1 /\ pos' \in Nat
      BY <1>2, <2>2, <2>3, BadIsAlone
    <3> QED
      BY <1>2, <2>1, <2>2, <2>3, <3>1, NextHead
  <2>4. CASE H.k # "bad"
    <3>1. pos' \in Nat /\ HAt <= pos' /\ pos' = HAt
      BY <1>2, <2>2
    <3> QED
      BY <1>2, <2>1, <2>4, <3>1, HeadIsKept
  <2> QED
    BY <2>3, <2>4
<1> QED
  BY <1>3, <1>4

LEMMA FirstIs ==
  ASSUME TypeOK, NEW i \in 1 .. Len(input)
  PROVE  First(i) \in Nat /\ First(i) > i /\ input[i] \in Byte
<1>1. input \in Seq(Byte)
  BY DataFacts
<1>2. input[i].cast \in Nat
  BY <1>1, ByteFields
<1> QED
  BY <1>1, <1>2 DEF First

\* An entry stands for an object of the stream that has elements.
LEMMA EntryHere ==
  ASSUME TypeOK, NestInv, NEW j \in DOMAIN stack
  PROVE  /\ stack[j] \in Entries /\ stack[j].at \in 1 .. Len(input) /\ stack[j].at <= pos
         /\ IsOpen(input, stack[j].at)
         /\ Elements(input[stack[j].at]) \in Nat
         /\ First(stack[j].at) \in 1 .. Len(input) + 1
         /\ ElementStart(j) \in Nat
<1>1. /\ Len(input) \in Nat /\ pos \in Nat /\ fed \in Nat /\ pos <= fed /\ fed <= Len(input)
      /\ input \in Seq(Byte)
  BY DataFacts
<1>2. /\ stack[j].at \in 1 .. pos /\ First(stack[j].at) <= pos + 1
      /\ Elements(input[stack[j].at]) > 0
  BY DEF NestInv, Nested
<1>3. stack[j].at \in 1 .. Len(input)
  BY <1>1, <1>2
<1>4. First(stack[j].at) \in Nat /\ First(stack[j].at) > stack[j].at /\ input[stack[j].at] \in Byte
  BY <1>3, FirstIs
<1>5. /\ input[stack[j].at].cast \in Nat /\ Elements(input[stack[j].at]) \in Nat
  BY <1>4, ByteFields
<1>6. First(stack[j].at) \in 1 .. Len(input) + 1
  BY <1>1, <1>2, <1>3, <1>4
<1>7. IsOpen(input, stack[j].at)
  <2> DEFINE a == stack[j].at
             c == input[a].cast
             l == Len(input)
  <2>1. First(a) = a + c + 1 /\ a \in Nat /\ c \in Nat /\ l \in Nat /\ First(a) <= l + 1
    BY <1>1, <1>3, <1>5, <1>6 DEF First
  <2> HIDE DEF a, c, l
  <2>2. a + c <= l
    BY <2>1
  <2> QED
    BY <1>2, <2>2 DEF IsOpen, a, c, l
<1>8. ElementStart(j) \in Nat
  BY StackFacts, EntryFields, FrontierIs DEF ElementStart
<1>9. stack[j] \in Entries
  BY StackFacts
<1> QED
  BY <1>2, <1>3, <1>5, <1>6, <1>7, <1>8, <1>9
-----------------------------------------------------------------------------
(* How the entries nest. *)

\* An entry that stays, and waits for the same element.
LEMMA NestedStays ==
  ASSUME TypeOK, NestInv, UNCHANGED input, pos' \in Nat, pos <= pos',
         NEW j \in DOMAIN stack, stack'[j].at = stack[j].at,
         stack'[j].type = "rec" <=> stack[j].type = "rec",
         ElementStart(j)' \in Nat, ElementStart(j) <= ElementStart(j)'
  PROVE  Nested(j)'
<1>1. /\ stack[j].at \in 1 .. pos /\ First(stack[j].at) <= pos + 1
      /\ stack[j].at < ElementStart(j)
      /\ stack[j].type = "rec" <=> input[stack[j].at].k = "rec"
      /\ stack[j].type # "rec" => input[stack[j].at].k \in Containers
      /\ Elements(input[stack[j].at]) > 0
  BY DEF NestInv, Nested
<1>2. /\ First(stack[j].at) \in Nat /\ stack[j].at \in Nat /\ pos \in Nat
      /\ ElementStart(j) \in Nat
  BY EntryHere, DataFacts
<1>3. /\ stack'[j].at \in 1 .. pos' /\ First(stack[j].at) <= pos' + 1
      /\ stack'[j].at < ElementStart(j)'
  BY <1>1, <1>2
<1>4. First(stack[j].at)' = First(stack[j].at)
  BY DEF First
<1> QED
  BY <1>1, <1>3, <1>4 DEF Nested

\* The entries and the procs stay, and so does what is waited for.
LEMMA StillNests ==
  ASSUME TypeOK, NestInv, PathInv, UNCHANGED <<input, stack>>, pos' \in Nat, pos <= pos',
         Frontier' = Frontier, ProcFrames' = ProcFrames,
         \A i \in ProcFrames : frames'[i] = frames[i],
         ~(frames' # <<>> /\ Top'.op = "proc")
  PROVE  NestInv' /\ PathInv' /\ RecEntries' = RecEntries
<1>1. RecEntries' = RecEntries
  BY DEF RecEntries
<1>2. \A j \in DOMAIN stack : ElementStart(j)' = ElementStart(j)
  BY DEF ElementStart
<1>3. ASSUME NEW j \in DOMAIN stack PROVE Nested(j)' /\ Counts(j)'
  <2>1. ElementStart(j) \in Nat /\ ElementStart(j)' = ElementStart(j)
    BY <1>2, EntryHere
  <2>2. Nested(j)'
    BY <2>1, NestedStays
  <2>3. Counts(j)'
    BY <2>1 DEF PathInv, Counts
  <2> QED
    BY <2>2, <2>3
<1>4. ASSUME NEW i \in ProcFrames, NEW j \in DOMAIN stack
      PROVE  Got(frames[i], j)'
  BY <1>2 DEF PathInv, Got
<1>5. ProcsMatch'
  BY <1>1 DEF NestInv, ProcsMatch
<1>6. TopMatches'
  BY DEF TopMatches
<1> QED
  BY <1>1, <1>3, <1>4, <1>5, <1>6 DEF NestInv, PathInv

\* Nothing is open.
LEMMA EmptyNests ==
  ASSUME stack' = <<>>, frames' = <<>>
  PROVE  NestInv' /\ PathInv' /\ KidsInv'
<1>1. DOMAIN stack' = {} /\ RecEntries' = {} /\ ProcFrames' = {}
  BY DEF RecEntries, ProcFrames
<1> QED
  BY <1>1 DEF NestInv, ProcsMatch, TopMatches, PathInv, KidsInv

\* An entry is pushed and waits for its first element.
LEMMA PushNests ==
  ASSUME TypeOK, CallsInv, HeadInv, NestInv, PathInv, phase = "run", frames # <<>>,
         raw = 0, CastReady, Elements(H) > 0,
         NEW e \in Entries, e.at = HAt, e.type = "rec" <=> H.k = "rec",
         e.type # "rec" => H.k \in Containers /\ e.count = Elements(H),
         stack' = Append(stack, e), UNCHANGED input, pos' = AfterCast,
         Frontier' = AfterCast + 1
  PROVE  /\ Len(stack) \in Nat /\ DOMAIN stack = 1 .. Len(stack)
         /\ DOMAIN stack' = 1 .. Len(stack) + 1
         /\ \A j \in 1 .. Len(stack) : stack'[j] = stack[j] /\ ElementStart(j)' = ElementStart(j)
         /\ stack'[Len(stack) + 1] = e
         /\ \A j : j = Len(stack) + 1 => ElementStart(j)' = ElementAt(input, HAt, 1)
         /\ \A j \in DOMAIN stack' : Nested(j)' /\ Counts(j)'
         /\ RecEntries' = IF e.type = "rec" THEN RecEntries \cup {Len(stack) + 1} ELSE RecEntries
<1>0. PICK m \in Nat : m = Len(stack)
  BY StackFacts
<1> DEFINE n == m + 1
<1>1. /\ m \in Nat /\ DOMAIN stack = 1 .. m /\ stack \in Seq(Entries)
  BY <1>0, StackFacts
<1>2. /\ Len(stack') = n /\ stack'[n] = e /\ stack' \in Seq(Entries)
      /\ \A j \in 1 .. m : stack'[j] = stack[j]
  BY <1>0, <1>1, AppendIs
<1>3. DOMAIN stack' = 1 .. n
  BY <1>2
<1>4. /\ HAt \in 1 .. Len(input) /\ H = input[HAt]
      /\ AfterCast = HAt + input[HAt].cast /\ AfterCast \in Nat
      /\ AfterCast <= Len(input) /\ First(HAt) = AfterCast + 1
      /\ HAt <= AfterCast /\ pos <= AfterCast /\ pos \in Nat /\ input \in Seq(Byte)
  BY CastHere, DataFacts
<1>5. Frontier = HAt
  BY DEF Frontier
<1>6. ASSUME NEW j \in 1 .. m
      PROVE  ElementStart(j)' = ElementStart(j) /\ ElementStart(j) \in Nat
  <2>1. ElementStart(j) \in Nat
    BY <1>1, EntryHere
  <2>2. ElementStart(j) = IF j < m THEN stack[j + 1].at ELSE HAt
    BY <1>0, <1>5 DEF ElementStart
  <2>3. j < n /\ ElementStart(j)' = stack'[j + 1].at
    BY <1>1, <1>2 DEF ElementStart
  <2>4. CASE j < m
    <3>1. j + 1 \in 1 .. m
      BY <1>1, <2>4
    <3> QED
      BY <1>2, <2>1, <2>2, <2>3, <2>4, <3>1
  <2>5. CASE ~(j < m)
    <3>1. j + 1 = n
      BY <1>1, <2>5
    <3> QED
      BY <1>2, <2>1, <2>2, <2>3, <2>5, <3>1
  <2> QED
    BY <2>4, <2>5
<1>7. IsOpen(input, HAt)
  BY <1>4 DEF IsOpen
<1>8. ElementStart(n)' = First(HAt) /\ First(HAt) = ElementAt(input, HAt, 1)
  <2>1. ElementStart(n)' = Frontier'
    BY <1>1, <1>2 DEF ElementStart
  <2>2. ElementAt(input, HAt, 1) = First(HAt)
    BY <1>4, <1>7, FirstElement DEF First
  <2> QED
    BY <1>4, <2>1, <2>2
<1>9. Nested(n)' /\ Counts(n)'
  <2>1. stack'[n].at = HAt /\ First(stack[n].at)' = First(HAt) /\ stack'[n].type = e.type
        /\ stack'[n].count = e.count
    BY <1>2 DEF First
  <2>2. HAt \in 1 .. pos' /\ First(HAt) <= pos' + 1 /\ HAt < First(HAt)
    BY <1>4
  <2>3. Nested(n)'
    BY <1>4, <1>8, <2>1, <2>2 DEF Nested
  <2>4. e.type # "rec" => /\ e.count <= Elements(H) /\ Elements(H) - e.count + 1 = 1
    <3>1. Elements(H) \in Nat
      BY CastFacts
    <3> QED
      BY <3>1
  <2>5. Counts(n)'
    BY <1>4, <1>8, <2>1, <2>4 DEF Counts
  <2> QED
    BY <2>3, <2>5
<1>10. ASSUME NEW j \in 1 .. m PROVE Nested(j)' /\ Counts(j)'
  <2>1. j \in DOMAIN stack /\ stack'[j] = stack[j]
    BY <1>1, <1>2
  <2>2. ElementStart(j)' = ElementStart(j) /\ ElementStart(j) \in Nat
    BY <1>6
  <2>3. Nested(j)'
    BY <1>4, <2>1, <2>2, NestedStays, SMTT(30)
  <2>4. Counts(j)'
    BY <2>1, <2>2 DEF PathInv, Counts
  <2> QED
    BY <2>3, <2>4
<1>11. \A j \in DOMAIN stack' : Nested(j)' /\ Counts(j)'
  <2>1. \A j \in 1 .. n : j = n \/ j \in 1 .. m
    BY <1>1
  <2> QED
    BY <1>3, <1>9, <1>10, <2>1
<1>12. RecEntries' = IF e.type = "rec" THEN RecEntries \cup {n} ELSE RecEntries
  <2>1. \A j \in 1 .. n : j = n \/ j \in 1 .. m
    BY <1>1
  <2>2. n \in 1 .. n /\ n \notin 1 .. m /\ \A j \in 1 .. m : j \in 1 .. n
    BY <1>1
  <2>3. RecEntries' = {j \in 1 .. n : stack'[j].type = "rec"} /\ RecEntries = {j \in 1 .. m : stack[j].type = "rec"}
    BY <1>1, <1>3 DEF RecEntries
  <2> HIDE DEF n
  <2> QED
    BY <1>2, <2>1, <2>2, <2>3
<1> QED
  BY <1>0, <1>1, <1>2, <1>3, <1>6, <1>8, <1>11, <1>12

\* The procs are the objects they build, which are open.
LEMMA ProcBelow ==
  ASSUME TypeOK, NestInv, NEW i \in ProcFrames
  PROVE  /\ frames[i].at \in Nat /\ frames[i].at < Frontier
         /\ \E j \in RecEntries : stack[j].at = frames[i].at
         /\ \A j \in DOMAIN stack : stack[j].at = frames[i].at => j \in RecEntries
<1>1. PICK j \in RecEntries : stack[j].at = frames[i].at
  BY DEF NestInv, ProcsMatch
<1>2. j \in DOMAIN stack
  BY DEF RecEntries
<1>3. stack[j].at \in Nat /\ stack[j].at < Frontier
  BY <1>2, Chain, StackFacts, EntryFields
<1>4. ASSUME NEW k \in DOMAIN stack, stack[k].at = frames[i].at PROVE k \in RecEntries
  <2>1. ~(j < k) /\ ~(k < j)
    <3>1. stack[j].at = stack[k].at /\ stack[j].at \in Nat
      BY <1>1, <1>3, <1>4
    <3> QED
      BY <1>2, <3>1, Chain
  <2>2. j = k
    BY <1>2, <2>1, StackFacts
  <2> QED
    BY <2>2
<1> QED
  BY <1>1, <1>3, <1>4

\* The bytes of the head are consumed; it has no body.
LEMMA HeadTaken ==
  ASSUME SoundUses, TypeOK, CallsInv, HeadInv, frames # <<>>, raw = 0, CastReady,
         H.k \notin RawKinds, UNCHANGED <<input, raw>>,
         pos' = AfterCast, head' = NoHead
  PROVE  HeadInv' /\ HAt' = AfterCast + 1 /\ ~ HeadKept'
<1>1. /\ HAt \in 1 .. Len(input) /\ H = input[HAt] /\ H.k # "data" /\ AfterCast \in Nat
      /\ Behind(input, HAt) = AfterCast + 1 + IF H.k \in RawKinds THEN H.n ELSE 0
  BY CastHere
<1>2. Behind(input, HAt) = AfterCast + 1
  BY <1>1
<1>3. Behind(input, HAt) = pos' + 1 /\ raw' = 0 /\ pos' \in Nat /\ input[HAt].k # "data"
  BY <1>1, <1>2
<1> QED
  BY <1>1, <1>3, NextHead

LEMMA ContainerNests ==
  ASSUME SoundUses, TypeOK, CallsInv, HeadInv, NestInv, PathInv, KidsInv,
         UNCHANGED use, Container, ~ StackFull
  PROVE  /\ HeadInv' /\ NestInv' /\ PathInv' /\ KidsInv'
         /\ Frontier = HAt /\ stack' # <<>> /\ stack'[1].at = IF stack = <<>> THEN HAt ELSE stack[1].at
<1> DEFINE new == Entry(IF H.k = "map" THEN "key" ELSE "arr", CountOf(H), HAt)
<1>0. PICK e \in Entries : e = new
  <2>1. H.n \in Nat /\ HAt \in Nat /\ H.n > 0
    BY CastFacts DEF Container
  <2>2. CountOf(H) \in Nat /\ CountOf(H) # 0
    BY <2>1 DEF CountOf
  <2> QED
    BY <2>1, <2>2, EntryIs
<1>1. /\ phase = "run" /\ frames # <<>> /\ Top.op \in {"read", "skip"} /\ raw = 0 /\ CastReady
      /\ H.k \in Containers /\ H.n > 0
      /\ pos' = AfterCast /\ head' = NoHead /\ head_at' = 0
      /\ stack' = Append(stack, e)
      /\ UNCHANGED <<input, fed, raw, last, mode, out, nils, allocated, frames, phase, outcome>>
  BY <1>0 DEF Container, Running
<1>2. /\ e.at = HAt /\ e.count = Elements(H) /\ e.kids = <<>>
      /\ e.type \in {"arr", "key"} /\ (e.type = "key" <=> H.k = "map")
      /\ H.k \notin RawKinds /\ H.k # "rec"
  BY <1>0, <1>1 DEF Entry, CountOf, Elements, Containers, RawKinds
<1>3. H.n \in Nat /\ Elements(H) \in Nat /\ Elements(H) > 0
      /\ (H.k = "map" => Elements(H) = 2 * H.n) /\ HAt \in Nat
  <2>1. H.n \in Nat /\ Elements(H) \in Nat /\ HAt \in Nat
    BY <1>1, CastFacts
  <2> QED
    BY <1>1, <2>1 DEF Elements, Containers
<1> HIDE DEF new
<1>5. HeadInv' /\ HAt' = AfterCast + 1 /\ ~ HeadKept'
  BY <1>1, <1>2, HeadTaken
<1>6. Frontier' = AfterCast + 1 /\ Frontier = HAt
  BY <1>1, <1>5 DEF Frontier
<1>7. PICK m \in Nat : m = Len(stack)
  BY StackFacts
<1>8. /\ DOMAIN stack = 1 .. m /\ DOMAIN stack' = 1 .. m + 1
      /\ \A j \in 1 .. m : stack'[j] = stack[j] /\ ElementStart(j)' = ElementStart(j)
      /\ stack'[m + 1] = e
      /\ \A j \in DOMAIN stack' : Nested(j)' /\ Counts(j)'
      /\ RecEntries' = RecEntries
  <2>1. e.type = "rec" <=> H.k = "rec"
    BY <1>2
  <2>2. e.type # "rec" => H.k \in Containers /\ e.count = Elements(H)
    BY <1>1, <1>2
  <2>3. e.type # "rec"
    BY <1>2
  <2> QED
    BY <1>1, <1>2, <1>3, <1>6, <1>7, <2>1, <2>2, <2>3, PushNests
<1>9. RecEntries \subseteq 1 .. m /\ ProcFrames' = ProcFrames
  BY <1>1, <1>8 DEF RecEntries, ProcFrames
<1>10. ProcsMatch'
  BY <1>1, <1>8, <1>9 DEF NestInv, ProcsMatch
<1>11. TopMatches'
  BY <1>1 DEF TopMatches, Top
<1>12. ASSUME NEW i \in ProcFrames, NEW j \in DOMAIN stack' PROVE Got(frames[i], j)'
  <2>1. CASE j = m + 1
    <3>1. frames[i].at # stack'[j].at
      BY <1>2, <1>3, <1>6, <1>8, <2>1, ProcBelow
    <3> QED
      BY <1>1, <3>1 DEF Got
  <2>2. CASE j # m + 1
    <3>1. j \in 1 .. m
      BY <1>8, <2>2
    <3>2. Got(frames[i], j) /\ stack'[j] = stack[j] /\ ElementStart(j)' = ElementStart(j)
      BY <1>8, <3>1 DEF PathInv
    <3> QED
      BY <1>1, <3>2 DEF Got
  <2> QED
    BY <2>1, <2>2
<1>13. NestInv' /\ PathInv'
  BY <1>8, <1>9, <1>10, <1>11, <1>12 DEF NestInv, PathInv
<1>14. ~ SkipsMixIn => Holds(e)'
  <2>1. H = input[HAt]
    BY <1>1, CastHere
  <2>2. e.kids = <<>> /\ Len(e.kids) = 0 /\ DOMAIN e.kids = {}
    BY <1>2, EmptySeq
  <2>3. e.count = Elements(input[e.at]) /\ e.count \in Nat
    BY <1>2, <1>3, <2>1
  <2>4. e.type = "key" => H.n \in 0 .. e.count /\ e.count = 2 * H.n
    BY <1>2, <1>3
  <2>5. Elements(input[e.at]) - e.count = 0
    BY <2>3
  <2> QED
    BY <1>1, <1>2, <2>2, <2>4, <2>5 DEF Holds
<1>15. ASSUME ~ SkipsMixIn', NEW j \in DOMAIN stack' \ RecEntries'
       PROVE  \/ Holds(stack[j])'
              \/ frames' # <<>> /\ frames'[1].op = "skip" /\ \A i \in RecEntries' : j < i
  <2>1. ~ SkipsMixIn
    BY <1>15 DEF SkipsMixIn
  <2>2. CASE j = m + 1
    BY <1>8, <1>14, <2>1, <2>2
  <2>3. CASE j # m + 1
    <3>1. j \in DOMAIN stack \ RecEntries /\ stack'[j] = stack[j]
      BY <1>8, <1>15, <2>3
    <3>2. \/ Holds(stack[j])
          \/ frames # <<>> /\ frames[1].op = "skip" /\ \A i \in RecEntries : j < i
      BY <2>1, <3>1 DEF KidsInv
    <3>3. Holds(stack[j]) => Holds(stack[j])'
      BY <1>1, <3>1 DEF Holds
    <3> QED
      BY <1>1, <1>8, <3>2, <3>3
  <2> QED
    BY <2>2, <2>3
<1>16. KidsInv'
  BY <1>15 DEF KidsInv
<1>17. stack' # <<>> /\ stack'[1].at = IF stack = <<>> THEN HAt ELSE stack[1].at
  <2>0. stack' # <<>> /\ (stack = <<>> => m = 0) /\ (stack # <<>> => m >= 1)
    BY <1>1, <1>7, StackFacts, AppendIs, EmptySeq
  <2>1. CASE stack = <<>>
    <3>1. m + 1 = 1
      BY <2>0, <2>1
    <3>2. stack'[1] = e
      BY <1>8, <3>1
    <3> QED
      BY <1>2, <2>0, <2>1, <3>2
  <2>2. CASE stack # <<>>
    <3>1. 1 \in 1 .. m
      BY <1>7, <2>0, <2>2
    <3>2. stack'[1] = stack[1]
      BY <1>8, <3>1
    <3> QED
      BY <2>0, <2>2, <3>2
  <2> QED
    BY <2>1, <2>2
<1> QED
  BY <1>5, <1>6, <1>13, <1>16, <1>17

LEMMA RecursiveBeginNests ==
  ASSUME SoundUses, RoomForProcs, TypeOK, CallsInv, HeadInv, NestInv, PathInv, KidsInv,
         UNCHANGED use, RecursiveBegin
  PROVE  /\ HeadInv' /\ NestInv' /\ PathInv' /\ KidsInv'
         /\ Frontier = HAt /\ stack' # <<>> /\ stack'[1].at = IF stack = <<>> THEN HAt ELSE stack[1].at
<1>0. PICK e \in Entries, f \in Frames : e = Entry("rec", 1, HAt) /\ f = ProcFrame(HAt, H.n)
  <2>1. H.n \in Nat /\ HAt \in Nat
    BY CastFacts DEF RecursiveBegin
  <2>2. Entry("rec", 1, HAt) \in Entries
    BY <2>1, EntryIs
  <2>3. ProcFrame(HAt, H.n) \in Frames
    BY <2>1, EmptySeq DEF ProcFrame, Frames
  <2> QED
    BY <2>2, <2>3
<1>1. /\ phase = "run" /\ frames # <<>> /\ Top.op \in {"read", "skip"} /\ raw = 0 /\ CastReady
      /\ H.k = "rec" /\ H.n > 0
      /\ pos' = AfterCast /\ head' = NoHead /\ head_at' = 0
      /\ stack' = Append(stack, e) /\ frames' = Append(frames, f)
      /\ UNCHANGED <<input, fed, raw, allocated, phase, mode, outcome, out, nils>>
  <2>1. ~ StackFull
    BY DEF RecursiveBegin, RoomForProcs
  <2> QED
    BY <1>0, <2>1 DEF RecursiveBegin, Running
<1>2. /\ e.at = HAt /\ e.type = "rec" /\ H.k \notin RawKinds
      /\ f.at = HAt /\ f.op = "proc" /\ f.left = Elements(H) /\ f.got = <<>>
  BY <1>0, <1>1 DEF Entry, ProcFrame, Elements, RawKinds
<1>3. HAt \in Nat /\ Elements(H) \in Nat /\ Elements(H) > 0 /\ H = input[HAt]
  <2>1. H.n \in Nat /\ HAt \in Nat /\ H = input[HAt]
    BY <1>1, CastFacts, CastHere
  <2> QED
    BY <1>1, <2>1 DEF Elements
<1>5. HeadInv' /\ HAt' = AfterCast + 1 /\ ~ HeadKept'
  BY <1>1, <1>2, HeadTaken
<1>6. Frontier' = AfterCast + 1 /\ Frontier = HAt
  BY <1>1, <1>5 DEF Frontier
<1>7. PICK m \in Nat : m = Len(stack)
  BY StackFacts
<1>8. /\ DOMAIN stack = 1 .. m /\ DOMAIN stack' = 1 .. m + 1
      /\ \A j \in 1 .. m : stack'[j] = stack[j] /\ ElementStart(j)' = ElementStart(j)
      /\ stack'[m + 1] = e
      /\ \A j : j = m + 1 => ElementStart(j)' = ElementAt(input, HAt, 1)
      /\ \A j \in DOMAIN stack' : Nested(j)' /\ Counts(j)'
      /\ RecEntries' = RecEntries \cup {m + 1}
  BY <1>1, <1>2, <1>3, <1>6, <1>7, PushNests
<1>9. PICK n \in Nat : n = Len(frames)
  BY <1>1, FrameFacts
<1>10. /\ DOMAIN frames = 1 .. n /\ DOMAIN frames' = 1 .. n + 1
       /\ \A i \in 1 .. n : frames'[i] = frames[i]
       /\ frames'[n + 1] = f /\ Top' = f /\ n >= 1 /\ frames' # <<>>
  <2>1. frames \in Seq(Frames) /\ n >= 1
    BY <1>1, <1>9, FrameFacts, TypeParts DEF FramesOK
  <2>2. /\ frames' \in Seq(Frames) /\ frames' # <<>> /\ Len(frames') = n + 1
        /\ \A i \in 1 .. n : frames'[i] = frames[i]
        /\ frames'[n + 1] = f /\ Last(frames') = f
    BY <1>1, <1>9, <2>1, AppendIs
  <2> QED
    BY <1>9, <2>1, <2>2 DEF Top
<1>11. ProcFrames' = ProcFrames \cup {n + 1} /\ ProcFrames \subseteq 1 .. n
       /\ RecEntries \subseteq 1 .. m
  <2>1. ProcFrames' = {i \in 1 .. n + 1 : frames'[i].op = "proc"} /\ ProcFrames = {i \in 1 .. n : frames[i].op = "proc"}
    BY <1>10 DEF ProcFrames
  <2>2. \A i : i \in 1 .. n + 1 <=> i = n + 1 \/ i \in 1 .. n
    BY <1>9
  <2>3. RecEntries \subseteq 1 .. m
    BY <1>8 DEF RecEntries
  <2> QED
    BY <1>2, <1>10, <2>1, <2>2, <2>3
<1>12. \A i \in ProcFrames : /\ frames[i].at < HAt /\ frames[i].at \in Nat /\ i < n + 1
                             /\ frames'[i] = frames[i]
  BY <1>6, <1>9, <1>10, <1>11, ProcBelow
<1>13. ProcsMatch'
  <2>1. \A j \in RecEntries' : \E i \in ProcFrames' : stack'[j].at = frames'[i].at
    <3> SUFFICES ASSUME NEW j \in RecEntries'
                 PROVE  \E i \in ProcFrames' : stack'[j].at = frames'[i].at
      OBVIOUS
    <3>1. CASE j = m + 1
      BY <1>2, <1>8, <1>10, <1>11, <3>1
    <3>2. CASE j \in RecEntries
      <4>1. PICK i \in ProcFrames : stack[j].at = frames[i].at
        BY <3>2 DEF NestInv, ProcsMatch
      <4>2. stack'[j] = stack[j] /\ frames'[i] = frames[i] /\ i \in ProcFrames'
        BY <1>8, <1>11, <1>12, <3>2
      <4> QED
        BY <4>1, <4>2
    <3> QED
      BY <1>8, <3>1, <3>2
  <2>2. \A i \in ProcFrames' : \E j \in RecEntries' : stack'[j].at = frames'[i].at
    <3> SUFFICES ASSUME NEW i \in ProcFrames'
                 PROVE  \E j \in RecEntries' : stack'[j].at = frames'[i].at
      OBVIOUS
    <3>1. CASE i = n + 1
      BY <1>2, <1>8, <1>10, <1>11, <3>1
    <3>2. CASE i \in ProcFrames
      <4>1. PICK j \in RecEntries : stack[j].at = frames[i].at
        BY <3>2 DEF NestInv, ProcsMatch
      <4>2. stack'[j] = stack[j] /\ frames'[i] = frames[i] /\ j \in RecEntries'
        BY <1>8, <1>11, <1>12, <3>2
      <4> QED
        BY <4>1, <4>2
    <3> QED
      BY <1>11, <3>1, <3>2
  <2>3. ASSUME NEW i \in ProcFrames', NEW j \in ProcFrames', i < j
        PROVE  frames'[i].at < frames'[j].at
    <3>1. CASE i \in ProcFrames /\ j \in ProcFrames
      BY <1>12, <2>3, <3>1 DEF NestInv, ProcsMatch
    <3>2. CASE i \in ProcFrames /\ j = n + 1
      BY <1>2, <1>10, <1>12, <3>2
    <3>3. CASE i = n + 1
      <4>1. j = n + 1 \/ j < n + 1
        BY <1>11, <1>12
      <4>2. j \in Nat
        BY <1>9, <1>11
      <4> QED
        BY <1>9, <2>3, <3>3, <4>1, <4>2
    <3> QED
      BY <1>11, <3>1, <3>2, <3>3
  <2> QED
    BY <2>1, <2>2, <2>3 DEF ProcsMatch
<1>14. TopMatches'
  <2>1. stack' # <<>> /\ Last(stack') = e
    BY <1>1, <1>7, StackFacts, AppendIs
  <2> QED
    BY <1>1, <1>2, <1>5, <1>10, <2>1 DEF TopMatches
<1>15. ASSUME NEW i \in ProcFrames', NEW j \in DOMAIN stack' PROVE Got(frames[i], j)'
  <2>1. CASE i = n + 1 /\ j = m + 1
    <3>1. /\ frames'[i] = f /\ stack'[j].at = HAt /\ ElementStart(j)' = ElementAt(input, HAt, 1)
          /\ input' = input
      BY <1>1, <1>2, <1>8, <1>10, <2>1
    <3>2. Len(f.got) = 0 /\ DOMAIN f.got = {} /\ Len(f.got) + f.left = Elements(input[HAt])
          /\ Len(f.got) + 1 = 1
      BY <1>2, <1>3, EmptySeq
    <3> QED
      BY <3>1, <3>2 DEF Got
  <2>2. CASE i = n + 1 /\ j # m + 1
    <3>1. j \in DOMAIN stack /\ stack'[j] = stack[j] /\ frames'[i].at = HAt
      BY <1>2, <1>8, <1>10, <2>2
    <3>2. stack[j].at < HAt /\ stack[j].at \in Nat
      BY <1>6, <3>1, Chain, StackFacts, EntryFields
    <3>3. stack'[j].at # frames'[i].at
      BY <1>3, <3>1, <3>2
    <3> QED
      BY <3>3 DEF Got
  <2>3. CASE i \in ProcFrames /\ j = m + 1
    <3>1. frames'[i].at # stack'[j].at
      BY <1>2, <1>3, <1>8, <1>12, <2>3
    <3> QED
      BY <3>1 DEF Got
  <2>4. CASE i \in ProcFrames /\ j # m + 1
    <3>1. j \in 1 .. m
      BY <1>8, <2>4
    <3>2. /\ Got(frames[i], j) /\ stack'[j] = stack[j] /\ ElementStart(j)' = ElementStart(j)
          /\ frames'[i] = frames[i]
      BY <1>8, <1>12, <2>4, <3>1 DEF PathInv
    <3> QED
      BY <1>1, <3>2 DEF Got
  <2> QED
    BY <1>11, <2>1, <2>2, <2>3, <2>4
<1>16. NestInv' /\ PathInv'
  BY <1>8, <1>13, <1>14, <1>15 DEF NestInv, PathInv
<1>17. ASSUME ~ SkipsMixIn', NEW j \in DOMAIN stack' \ RecEntries'
       PROVE  \/ Holds(stack[j])'
              \/ frames' # <<>> /\ frames'[1].op = "skip" /\ \A i \in RecEntries' : j < i
  <2>1. ~ SkipsMixIn
    BY <1>17 DEF SkipsMixIn
  <2>2. j \in DOMAIN stack \ RecEntries /\ stack'[j] = stack[j] /\ j < m + 1
    BY <1>8, <1>17
  <2>3. \/ Holds(stack[j])
        \/ frames # <<>> /\ frames[1].op = "skip" /\ \A i \in RecEntries : j < i
    BY <2>1, <2>2 DEF KidsInv
  <2>4. Holds(stack[j]) => Holds(stack[j])'
    BY <1>1, <2>2 DEF Holds
  <2>5. frames'[1] = frames[1]
    BY <1>9, <1>10
  <2> QED
    BY <1>8, <1>10, <2>2, <2>3, <2>4, <2>5
<1>18. KidsInv'
  BY <1>17 DEF KidsInv
<1>19. stack' # <<>> /\ stack'[1].at = IF stack = <<>> THEN HAt ELSE stack[1].at
  <2>0. stack' # <<>> /\ (stack = <<>> => m = 0) /\ (stack # <<>> => m >= 1)
    BY <1>1, <1>7, StackFacts, AppendIs, EmptySeq
  <2>1. CASE stack = <<>>
    <3>1. m + 1 = 1
      BY <2>0, <2>1
    <3>2. stack'[1] = e
      BY <1>8, <3>1
    <3> QED
      BY <1>2, <2>0, <2>1, <3>2
  <2>2. CASE stack # <<>>
    <3>1. 1 \in 1 .. m
      BY <1>7, <2>0, <2>2
    <3>2. stack'[1] = stack[1]
      BY <1>8, <3>1
    <3> QED
      BY <2>0, <2>2, <3>2
  <2> QED
    BY <2>1, <2>2
<1> QED
  BY <1>5, <1>6, <1>16, <1>18, <1>19

\* What is left of the stack holds what it held.
LEMMA KidsStay ==
  ASSUME KidsInv, UNCHANGED <<use, input>>,
         DOMAIN stack' \subseteq DOMAIN stack, \A j \in DOMAIN stack' : stack'[j] = stack[j],
         \/ SkipsMixIn
         \/ frames # <<>> /\ frames[1].op = "skip" => frames' # <<>> /\ frames'[1].op = "skip"
  PROVE  KidsInv'
<1>1. SkipsMixIn' = SkipsMixIn
  BY DEF SkipsMixIn
<1>2. RecEntries' = {j \in DOMAIN stack' : j \in RecEntries}
  BY DEF RecEntries
<1>3. ASSUME ~ SkipsMixIn', NEW j \in DOMAIN stack' \ RecEntries'
      PROVE  \/ Holds(stack[j])'
             \/ frames' # <<>> /\ frames'[1].op = "skip" /\ \A i \in RecEntries' : j < i
  <2>1. j \in DOMAIN stack \ RecEntries /\ stack'[j] = stack[j]
    BY <1>2, <1>3
  <2>2. \/ Holds(stack[j])
        \/ frames # <<>> /\ frames[1].op = "skip" /\ \A i \in RecEntries : j < i
    BY <1>1, <1>3, <2>1 DEF KidsInv
  <2>3. Holds(stack[j]) => Holds(stack[j])'
    BY <2>1 DEF Holds
  <2> QED
    BY <1>1, <1>2, <1>3, <2>2, <2>3
<1> QED
  BY <1>3 DEF KidsInv

\* The entry on top is gone and the object it stood for is complete.
LEMMA PopNests ==
  ASSUME TypeOK, NestInv, PathInv, stack # <<>>, stack' = Front(stack),
         UNCHANGED <<input, pos>>, Frontier' = Last(stack).at,
         NEW m \in Nat, m = Len(stack)
  PROVE  /\ m >= 1 /\ DOMAIN stack = 1 .. m /\ DOMAIN stack' = 1 .. m - 1
         /\ Last(stack) = stack[m]
         /\ \A j \in 1 .. m - 1 : stack'[j] = stack[j] /\ ElementStart(j)' = ElementStart(j)
         /\ \A j \in DOMAIN stack' : Nested(j)' /\ Counts(j)'
         /\ RecEntries' = RecEntries \ {m}
<1>1. /\ m >= 1 /\ DOMAIN stack = 1 .. m /\ stack \in Seq(Entries) /\ Last(stack) = stack[m]
      /\ stack' \in Seq(Entries) /\ Len(stack') = m - 1
      /\ \A i \in 1 .. m - 1 : stack'[i] = stack[i]
  BY StackFacts, FrontIs
<1>2. DOMAIN stack' = 1 .. m - 1
  BY <1>1
<1>3. ASSUME NEW j \in 1 .. m - 1
      PROVE  ElementStart(j)' = ElementStart(j) /\ ElementStart(j) \in Nat
  <2>1. j \in DOMAIN stack /\ j < m /\ ElementStart(j) = stack[j + 1].at
    BY <1>1 DEF ElementStart
  <2>2. ElementStart(j)' = IF j < m - 1 THEN stack'[j + 1].at ELSE Frontier'
    BY <1>1 DEF ElementStart
  <2>3. CASE j < m - 1
    <3>1. j + 1 \in 1 .. m - 1
      BY <2>3
    <3> QED
      BY <1>1, <2>1, <2>2, <2>3, <3>1, EntryHere
  <2>4. CASE ~(j < m - 1)
    <3>1. j + 1 = m
      BY <2>4
    <3> QED
      BY <1>1, <2>1, <2>2, <2>4, <3>1, EntryHere
  <2> QED
    BY <2>3, <2>4
<1>4. ASSUME NEW j \in 1 .. m - 1 PROVE Nested(j)' /\ Counts(j)'
  <2>1. j \in DOMAIN stack /\ stack'[j] = stack[j]
    BY <1>1
  <2>2. ElementStart(j)' = ElementStart(j) /\ ElementStart(j) \in Nat
    BY <1>3
  <2>3. Nested(j)'
    BY <2>1, <2>2, NestedStays, DataFacts
  <2>4. Counts(j)'
    BY <2>1, <2>2 DEF PathInv, Counts
  <2> QED
    BY <2>3, <2>4
<1>5. RecEntries' = RecEntries \ {m}
  <2>1. RecEntries' = {j \in 1 .. m - 1 : stack'[j].type = "rec"} /\ RecEntries = {j \in 1 .. m : stack[j].type = "rec"}
    BY <1>1, <1>2 DEF RecEntries
  <2>2. \A j : j \in 1 .. m - 1 <=> j \in 1 .. m /\ j # m
    BY <1>1
  <2> QED
    BY <1>1, <2>1, <2>2
<1> QED
  BY <1>1, <1>2, <1>3, <1>4, <1>5

\* What a proc has got stays its own when the entries above are gone.
LEMMA GotStays ==
  ASSUME PathInv, UNCHANGED input, NEW i \in ProcFrames, NEW j \in DOMAIN stack,
         frames'[i] = frames[i], stack'[j].at = stack[j].at,
         ElementStart(j)' = ElementStart(j)
  PROVE  Got(frames[i], j)'
<1>1. Got(frames[i], j)
  BY DEF PathInv
<1> QED
  BY <1>1 DEF Got

\* The proc of the innermost recursive type returns.
LEMMA ProcReturnsNests ==
  ASSUME SoundUses, TypeOK, CallsInv, HeadInv, NestInv, PathInv, KidsInv, UNCHANGED use, ProcReturns
  PROVE  /\ HeadInv' /\ NestInv' /\ PathInv' /\ KidsInv' /\ CompletedInv'
         /\ Frontier' = Last(stack).at /\ (stack' # <<>> => stack'[1] = stack[1])
         /\ (stack' = <<>> => stack[1] = Last(stack))
<1>1. /\ phase = "run" /\ frames # <<>> /\ Top.op = "proc" /\ Top.left = 0 /\ stack # <<>>
      /\ stack' = Front(stack) /\ frames' = Front(frames)
      /\ last' = [at |-> Top.at, to |-> pos, kids |-> Top.got]
      /\ head' = NoHead /\ head_at' = 0 /\ phase' = "completed"
      /\ UNCHANGED <<input, fed, pos, raw, allocated, mode, outcome, out, nils>>
  BY DEF ProcReturns, ObjectComplete, Running
<1>2. /\ ~ HeadKept /\ Last(stack).type = "rec" /\ Last(stack).at = Top.at
      /\ outcome = "none"
  BY <1>1 DEF NestInv, TopMatches, CallsInv
<1>3. HeadInv' /\ ~ HeadKept' /\ raw = 0 /\ raw' = 0
  BY <1>1, <1>2 DEF HeadInv, HeadKept
<1>4. Frontier = pos + 1 /\ Frontier' = Last(stack).at
  BY <1>1, <1>2 DEF Frontier, HAt
<1>5. PICK m \in Nat : m = Len(stack)
  BY StackFacts
<1>6. /\ m >= 1 /\ DOMAIN stack = 1 .. m /\ DOMAIN stack' = 1 .. m - 1
      /\ Last(stack) = stack[m]
      /\ \A j \in 1 .. m - 1 : stack'[j] = stack[j] /\ ElementStart(j)' = ElementStart(j)
      /\ \A j \in DOMAIN stack' : Nested(j)' /\ Counts(j)'
      /\ RecEntries' = RecEntries \ {m}
  BY <1>1, <1>4, <1>5, PopNests
<1>7. PICK n \in Nat : n = Len(frames)
  BY <1>1, FrameFacts
<1>8. /\ n >= 1 /\ DOMAIN frames = 1 .. n /\ DOMAIN frames' = 1 .. n - 1 /\ Top = frames[n]
      /\ \A i \in 1 .. n - 1 : frames'[i] = frames[i]
      /\ Top \in Frames
  <2>1. frames \in Seq(Frames) /\ n >= 1 /\ DOMAIN frames = 1 .. n /\ Top = frames[n] /\ Top \in Frames
    BY <1>1, <1>7, FrameFacts, TypeParts DEF FramesOK
  <2>2. frames' \in Seq(Frames) /\ Len(frames') = n - 1 /\ \A i \in 1 .. n - 1 : frames'[i] = frames[i]
    BY <1>1, <1>7, <2>1, FrontIs
  <2> QED
    BY <2>1, <2>2
<1>9. n >= 2 /\ frames[n - 1].op \in {"read", "skip"} /\ frames'[1] = frames[1] /\ frames' # <<>>
      /\ Top'.op \in {"read", "skip"}
  <2>1. n # 1
    BY <1>1, <1>8 DEF CallsInv
  <2>2. n \in DOMAIN frames /\ n > 1 /\ n - 1 \in 1 .. n - 1 /\ 1 \in 1 .. n - 1 /\ n >= 2
    BY <1>8, <2>1
  <2>3. frames[n - 1].op \in {"read", "skip"}
    BY <1>1, <1>8, <2>2 DEF CallsInv
  <2>4. frames' # <<>>
    BY <1>8, <2>2
  <2>5. Top' = frames'[n - 1]
    <3>1. frames \in Seq(Frames)
      BY TypeParts DEF FramesOK
    <3>2. frames' \in Seq(Frames) /\ Len(frames') = n - 1
      BY <1>1, <1>7, <3>1, FrontIs
    <3>3. Last(frames') = frames'[Len(frames')]
      BY <2>4, <3>2, FrontIs
    <3> QED
      BY <3>2, <3>3 DEF Top
  <2> QED
    BY <1>8, <2>2, <2>3, <2>4, <2>5
<1>10. ProcFrames' = ProcFrames \ {n} /\ n \in ProcFrames
  <2>1. ProcFrames' = {i \in 1 .. n - 1 : frames'[i].op = "proc"} /\ ProcFrames = {i \in 1 .. n : frames[i].op = "proc"}
    BY <1>8 DEF ProcFrames
  <2>2. \A i : i \in 1 .. n - 1 <=> i \in 1 .. n /\ i # n
    BY <1>8
  <2>3. n \in 1 .. n
    BY <1>8
  <2> QED
    BY <1>1, <1>8, <2>1, <2>2, <2>3
<1>11. \A i \in ProcFrames' : i \in ProcFrames /\ frames'[i] = frames[i] /\ frames[i].at < Top.at
                              /\ frames[i].at \in Nat
  <2> SUFFICES ASSUME NEW i \in ProcFrames'
               PROVE  i \in ProcFrames /\ frames'[i] = frames[i] /\ frames[i].at < Top.at
                      /\ frames[i].at \in Nat
    OBVIOUS
  <2>1. i \in ProcFrames /\ i \in 1 .. n - 1 /\ i < n
    <3>1. i \in 1 .. n - 1
      BY <1>8 DEF ProcFrames
    <3> QED
      BY <1>10, <3>1
  <2> QED
    BY <1>8, <1>10, <2>1, ProcBelow DEF NestInv, ProcsMatch
<1>12. m \in RecEntries /\ \A j \in RecEntries' : j \in RecEntries /\ stack'[j] = stack[j] /\ j \in 1 .. m - 1
                              /\ stack[j].at # Top.at
  <2>1. m \in RecEntries
    BY <1>2, <1>6 DEF RecEntries
  <2>2. \A j \in RecEntries' : j \in 1 .. m - 1 /\ j \in RecEntries
    BY <1>6 DEF RecEntries
  <2>3. \A j \in 1 .. m - 1 : stack[j].at # stack[m].at
    <3>1. \A j \in 1 .. m - 1 : j \in DOMAIN stack /\ m \in DOMAIN stack /\ j < m
      BY <1>6
    <3>2. \A j \in 1 .. m - 1 : stack[j].at < stack[m].at /\ stack[m].at \in Nat /\ stack[j].at \in Nat
      BY <3>1, Chain, EntryHere, EntryFields
    <3> QED
      BY <3>2
  <2> QED
    BY <1>2, <1>6, <2>1, <2>2, <2>3
<1>13. ProcsMatch'
  <2>1. \A j \in RecEntries' : \E i \in ProcFrames' : stack'[j].at = frames'[i].at
    <3> SUFFICES ASSUME NEW j \in RecEntries'
                 PROVE  \E i \in ProcFrames' : stack'[j].at = frames'[i].at
      OBVIOUS
    <3>1. PICK i \in ProcFrames : stack[j].at = frames[i].at
      BY <1>12 DEF NestInv, ProcsMatch
    <3>2. i # n
      BY <1>8, <1>12, <3>1
    <3>3. i \in ProcFrames'
      BY <1>10, <3>2
    <3> QED
      BY <1>11, <1>12, <3>1, <3>3
  <2>2. \A i \in ProcFrames' : \E j \in RecEntries' : stack'[j].at = frames'[i].at
    <3> SUFFICES ASSUME NEW i \in ProcFrames'
                 PROVE  \E j \in RecEntries' : stack'[j].at = frames'[i].at
      OBVIOUS
    <3>1. PICK j \in RecEntries : stack[j].at = frames[i].at
      BY <1>11 DEF NestInv, ProcsMatch
    <3>2. j # m
      <4>1. stack[m].at = Top.at /\ frames[i].at < Top.at /\ frames[i].at \in Nat
        BY <1>2, <1>6, <1>11
      <4>2. Top.at \in Nat
        BY <1>8, FrameFields
      <4> QED
        BY <3>1, <4>1, <4>2
    <3>3. j \in RecEntries'
      BY <1>6, <3>2
    <3> QED
      BY <1>11, <1>12, <3>1, <3>3
  <2>3. \A i, j \in ProcFrames' : i < j => frames'[i].at < frames'[j].at
    BY <1>11 DEF NestInv, ProcsMatch
  <2> QED
    BY <2>1, <2>2, <2>3 DEF ProcsMatch
<1>14. TopMatches'
  BY <1>9 DEF TopMatches
<1>15. ASSUME NEW i \in ProcFrames', NEW j \in DOMAIN stack' PROVE Got(frames[i], j)'
  <2>1. /\ i \in ProcFrames /\ frames'[i] = frames[i]
        /\ j \in DOMAIN stack /\ stack'[j].at = stack[j].at
        /\ ElementStart(j)' = ElementStart(j)
    BY <1>6, <1>11
  <2> QED
    BY <1>1, <2>1, GotStays
<1>16. NestInv' /\ PathInv'
  BY <1>6, <1>13, <1>14, <1>15 DEF NestInv, PathInv
<1>17. KidsInv'
  BY <1>1, <1>6, <1>9, KidsStay
<1>18. CompletedInv'
  <2> DEFINE a == Top.at
             e == Elements(input[a])
  <2>1. /\ a \in 1 .. Len(input) /\ a <= pos /\ IsOpen(input, a) /\ input[a].k = "rec"
        /\ e \in Nat /\ input \in Seq(Byte) /\ m \in DOMAIN stack /\ a \in 1 .. pos
    <3>1. m \in DOMAIN stack
      BY <1>6
    <3>2. Nested(m)
      BY <3>1 DEF NestInv
    <3> QED
      BY <1>2, <1>6, <3>1, <3>2, EntryHere, DataFacts DEF Nested
  <2>2. Got(Top, m)
    BY <1>8, <1>10, <2>1 DEF PathInv
  <2>3. /\ Len(Top.got) + Top.left = e /\ ElementStart(m) = ElementAt(input, a, Len(Top.got) + 1)
        /\ \A k \in DOMAIN Top.got : Top.got[k] = ElementAt(input, a, k)
    BY <1>2, <1>6, <2>2 DEF Got
  <2>4. Top.got \in Seq(Nat) /\ Len(Top.got) = e
    <3>1. Top.got \in Seq(Nat) /\ Len(Top.got) \in Nat
      BY <1>8, FrameFields
    <3> HIDE DEF e
    <3> QED
      BY <1>1, <2>3, <3>1
  <2>5. ElementAt(input, a, e + 1) = pos + 1
    <3>1. ElementStart(m) = Frontier
      BY <1>5, <1>6 DEF ElementStart
    <3> QED
      BY <1>4, <2>3, <2>4, <3>1
  <2>6. EndOf(a) = pos
    <3>1. ElementAt(input, a, e + 1) = ObjectsEnd(input, a, 1) + 1
      BY <2>1, LastElement
    <3>2. ObjectsEnd(input, a, 1) \in a .. Len(input) + 1
      <4>1. a \in 1 .. Len(input) + 1 /\ 1 \in Nat /\ 1 # 0
        BY <2>1
      <4> QED
        BY <2>1, <4>1, EndRange
    <3> QED
      BY <2>5, <3>1, <3>2, DataFacts DEF EndOf
  <2>7. Top.got = KidsOf(a)
    <3>1. Top.got = [k \in 1 .. e |-> Top.got[k]]
      BY <2>4
    <3>2. \A k \in 1 .. e : Top.got[k] = ElementAt(input, a, k)
      BY <2>3, <2>4
    <3> HIDE DEF e
    <3>3. Top.got = [k \in 1 .. e |-> ElementAt(input, a, k)]
      BY <3>1, <3>2
    <3> QED
      BY <3>3 DEF KidsOf, e
  <2>8. last'.at = a /\ last'.to = pos /\ last'.kids = Top.got
    BY <1>1
  <2>9. EndOf(last.at)' = EndOf(a) /\ KidsOf(last.at)' = KidsOf(a) /\ input'[last'.at].k # "data"
    BY <1>1, <2>1, <2>8 DEF EndOf, KidsOf
  <2>10. ObjectsGenuine'
    BY <2>6, <2>7, <2>8, <2>9 DEF ObjectsGenuine
  <2> QED
    BY <1>1, <1>3, <2>1, <2>8, <2>10 DEF CompletedInv
<1>19. (stack' # <<>> => stack'[1] = stack[1]) /\ (stack' = <<>> => stack[1] = Last(stack))
  <2>1. CASE m = 1
    <3>1. DOMAIN stack' = {}
      BY <1>6, <2>1
    <3>2. stack' = <<>>
      BY <1>1, <2>1, <1>5, StackFacts, FrontIs, EmptySeq
    <3> QED
      BY <1>6, <2>1, <3>2
  <2>2. CASE m # 1
    <3>1. 1 \in 1 .. m - 1
      BY <1>6, <2>2
    <3> QED
      BY <1>6, <3>1
  <2> QED
    BY <2>1, <2>2
<1> QED
  BY <1>3, <1>4, <1>16, <1>17, <1>18, <1>19
-----------------------------------------------------------------------------
(* Objects are completed. *)

\* One that has no elements.
LEMMA LeafNests ==
  ASSUME SoundUses, TypeOK, HeadInv, NestInv, PathInv, KidsInv,
         phase = "run", Top.op \in {"read", "skip"}, frames # <<>>,
         UNCHANGED <<use, input, svars, frames>>,
         NEW at \in 1 .. Len(input), at = HAt, input[at].k # "data", Elements(input[at]) = 0,
         NEW to \in Nat, Behind(input, at) = to + 1, at <= to, to <= Len(input),
         pos <= to, pos' = to, raw' = 0,
         ObjectComplete([at |-> at, to |-> to, kids |-> <<>>])
  PROVE  HeadInv' /\ NestInv' /\ PathInv' /\ KidsInv' /\ CompletedInv' /\ Frontier' = Frontier
<1>1. /\ last' = [at |-> at, to |-> to, kids |-> <<>>] /\ head' = NoHead /\ phase' = "completed"
      /\ UNCHANGED <<stack, allocated>>
  BY DEF ObjectComplete, svars
<1>2. HeadInv' /\ ~ HeadKept'
  BY <1>1, NextHead
<1>3. Frontier' = Frontier
  BY <1>1 DEF Frontier
<1>4. NestInv' /\ PathInv' /\ RecEntries' = RecEntries
  <2>1. Top' = Top /\ ProcFrames' = ProcFrames
    BY DEF Top, ProcFrames
  <2>2. ~(frames' # <<>> /\ Top'.op = "proc") /\ pos' \in Nat /\ UNCHANGED <<input, stack>>
        /\ \A i \in ProcFrames : frames'[i] = frames[i]
    BY <1>1, <2>1
  <2> QED
    BY <1>3, <2>1, <2>2, StillNests
<1>5. KidsInv'
  BY <1>1, KidsStay
<1>6. EndOf(at) = to
  <2>1. input \in Seq(Byte)
    BY DataFacts
  <2>2. ObjectsEnd(input, at, 1) = IF Behind(input, at) > Len(input) + 1 THEN Len(input) + 1
                                   ELSE Behind(input, at) - 1
    BY <2>1, LeafEnds
  <2>3. Len(input) \in Nat
    BY DataFacts
  <2> QED
    BY <2>2, <2>3 DEF EndOf
<1>7. KidsOf(at) = <<>>
  BY DEF KidsOf
<1>8. CompletedInv'
  <2>1. EndOf(last.at)' = EndOf(at) /\ KidsOf(last.at)' = KidsOf(at) /\ input'[last'.at].k # "data"
    BY <1>1 DEF EndOf, KidsOf
  <2>2. ObjectsGenuine'
    BY <1>1, <1>6, <1>7, <2>1 DEF ObjectsGenuine
  <2>3. at \in 1 .. pos'
    OBVIOUS
  <2> QED
    BY <1>1, <1>2, <2>2, <2>3 DEF CompletedInv
<1> QED
  BY <1>2, <1>3, <1>4, <1>5, <1>8

LEMMA ScalarNests ==
  ASSUME SoundUses, TypeOK, CallsInv, HeadInv, NestInv, PathInv, KidsInv, UNCHANGED use,
         Scalar \/ RecursiveEmpty, phase' = "completed"
  PROVE  HeadInv' /\ NestInv' /\ PathInv' /\ KidsInv' /\ CompletedInv' /\ Frontier' = Frontier
<1>1. /\ phase = "run" /\ frames # <<>> /\ Top.op \in {"read", "skip"} /\ raw = 0 /\ CastReady
      /\ H.k \in {"int", "nil", "data"} \/ (H.k \in Containers \cup {"rec"} /\ H.n = 0)
      /\ ObjectComplete([at |-> HAt, to |-> AfterCast, kids |-> <<>>])
      /\ pos' = AfterCast /\ raw' = 0
      /\ UNCHANGED <<use, input, svars, frames>>
  BY DEF Scalar, RecursiveEmpty, Running, Fail
<1>2. H.k \notin RawKinds /\ Elements(H) = 0
  BY <1>1 DEF Elements, RawKinds, Containers
<1>3. /\ HAt \in 1 .. Len(input) /\ H = input[HAt] /\ H.k # "data"
      /\ AfterCast \in Nat /\ AfterCast <= Len(input)
      /\ HAt <= AfterCast /\ pos <= AfterCast
      /\ Behind(input, HAt) = AfterCast + 1 + IF H.k \in RawKinds THEN H.n ELSE 0
  BY <1>1, CastHere
<1>4. Behind(input, HAt) = AfterCast + 1
  BY <1>2, <1>3
<1> QED
  BY <1>1, <1>2, <1>3, <1>4, LeafNests

\* One with a raw body.
LEMMA RawBodyHere ==
  ASSUME TypeOK, CallsInv, HeadInv, RawBody
  PROVE  \E at \in 1 .. Len(input), to \in Nat :
           /\ FinishRaw(input[at], at, to) /\ at = HAt
           /\ input[at].k \in RawKinds /\ Behind(input, at) = to + 1
           /\ at <= to /\ pos <= to /\ to <= fed
<1>1. frames # <<>> /\ outcome = "none"
  BY DEF RawBody, Running, CallsInv
<1>2. /\ fed \in Nat /\ pos \in Nat /\ head_at \in Nat /\ raw \in Nat /\ Len(input) \in Nat
      /\ pos <= fed /\ fed <= Len(input) /\ Avail = fed - pos /\ head \in Byte
  BY DataFacts
<1>3. CASE raw > 0 /\ Avail >= raw /\ FinishRaw(head, head_at, pos + raw)
  <2>1. HeadKept /\ head_at \in 1 .. pos /\ head = input[head_at]
        /\ head.k \in RawKinds /\ head_at + head.cast + head.n = pos + raw
    BY <1>1, <1>3 DEF HeadInv
  <2>2. head_at \in 1 .. Len(input) /\ head_at = HAt
    BY <1>2, <2>1 DEF HAt
  <2>3. pos + raw \in Nat /\ pos <= pos + raw /\ pos + raw <= fed /\ head_at <= pos + raw
    BY <1>2, <1>3, <2>1
  <2>4. Behind(input, head_at) = pos + raw + 1
    <3> DEFINE a == head_at
               c == head.cast
               n == head.n
    <3>1. a \in Nat /\ c \in Nat /\ n \in Nat /\ a + c + n = pos + raw
          /\ Behind(input, a) = a + 1 + c + n
      BY <1>2, <2>1, ByteFields DEF Behind
    <3> HIDE DEF a, c, n
    <3>2. Behind(input, a) = pos + raw + 1
      BY <1>2, <3>1
    <3> QED
      BY <3>2 DEF a
  <2> QED
    BY <1>3, <2>1, <2>2, <2>3, <2>4
<1>4. CASE raw = 0 /\ BodyReady /\ H.k \in RawKinds /\ FinishRaw(H, HAt, AfterCast + H.n)
  <2>1. CastReady /\ HeadReady
    BY <1>4 DEF BodyReady, CastReady
  <2>2. /\ HAt \in 1 .. Len(input) /\ H = input[HAt] /\ AfterCast \in Nat
        /\ HAt <= AfterCast /\ pos <= AfterCast
        /\ Behind(input, HAt) = AfterCast + 1 + IF H.k \in RawKinds THEN H.n ELSE 0
    BY <1>1, <1>4, <2>1, CastHere
  <2>3. AfterCast + H.n \in Nat /\ AfterCast + H.n <= fed /\ H.n \in Nat
    BY <1>4, <2>1, HeadFacts
  <2>4. Behind(input, HAt) = AfterCast + H.n + 1 /\ HAt <= AfterCast + H.n /\ pos <= AfterCast + H.n
    <3> DEFINE a == AfterCast
               n == H.n
               b == Behind(input, HAt)
               i == HAt
    <3>1. a \in Nat /\ n \in Nat /\ b = a + 1 + n /\ i <= a /\ i \in Nat /\ pos <= a
      BY <1>4, <2>2, <2>3
    <3> HIDE DEF a, n, b, i
    <3>2. b = a + n + 1 /\ i <= a + n /\ pos <= a + n
      BY <1>2, <3>1
    <3> QED
      BY <3>2 DEF a, n, b, i
  <2> QED
    BY <1>4, <2>2, <2>3, <2>4
<1> QED
  BY <1>3, <1>4 DEF RawBody

\* It is complete, or the call fails with the head byte still there.
LEMMA RawBodyNests ==
  ASSUME SoundUses, TypeOK, CallsInv, HeadInv, NestInv, PathInv, KidsInv, UNCHANGED use, RawBody
  PROVE  \/ /\ HeadInv' /\ NestInv' /\ PathInv' /\ KidsInv' /\ CompletedInv' /\ Frontier' = Frontier
            /\ phase' = "completed" /\ UNCHANGED <<input, fed, mode, out, nils, svars, frames, outcome>>
         \/ /\ outcome' \in {"unknown", "raised"} /\ Fail(outcome')
            /\ UNCHANGED <<input, fed, mode, out, nils>>
<1>1. PICK at \in 1 .. Len(input), to \in Nat :
           /\ FinishRaw(input[at], at, to) /\ at = HAt
           /\ input[at].k \in RawKinds /\ Behind(input, at) = to + 1
           /\ at <= to /\ pos <= to /\ to <= fed
  BY RawBodyHere
<1>2. phase = "run" /\ frames # <<>> /\ Top.op \in {"read", "skip"}
  BY DEF RawBody, Running
<1>3. pos' = to /\ raw' = 0 /\ UNCHANGED <<input, fed, mode, out, nils>>
  BY <1>1 DEF FinishRaw
<1>4. CASE /\ ObjectComplete([at |-> at, to |-> to, kids |-> <<>>])
           /\ UNCHANGED <<svars, frames, outcome>>
  <2>1. input[at].k # "data" /\ Elements(input[at]) = 0
    BY <1>1 DEF RawKinds, Elements
  <2>2. to <= Len(input)
    BY <1>1, DataFacts
  <2>3. HeadInv' /\ NestInv' /\ PathInv' /\ KidsInv' /\ CompletedInv' /\ Frontier' = Frontier
    BY <1>1, <1>2, <1>3, <1>4, <2>1, <2>2, LeafNests
  <2> QED
    BY <1>3, <1>4, <2>3 DEF ObjectComplete
<1>5. CASE Fail(IF input[at].k = "unknown" THEN "unknown" ELSE "raised")
  BY <1>3, <1>5 DEF Fail
<1> QED
  BY <1>1, <1>4, <1>5 DEF FinishRaw

\* The element that was waited for is over, the next one follows.
LEMMA ElementOver ==
  ASSUME TypeOK, NestInv, CompletedInv, phase = "completed", NEW j \in DOMAIN stack,
         NEW k \in Nat, k # 0, last.at = ElementAt(input, stack[j].at, k)
  PROVE  ElementAt(input, stack[j].at, k + 1) = pos + 1
<1>1. /\ stack[j].at \in 1 .. Len(input) /\ IsOpen(input, stack[j].at) /\ input \in Seq(Byte)
      /\ Len(input) \in Nat /\ pos \in Nat /\ pos <= Len(input)
  BY EntryHere, DataFacts
<1>2. last.at \in 1 .. pos /\ last.to = pos /\ last.to = EndOf(last.at)
  BY DEF CompletedInv, ObjectsGenuine
<1>3. ElementAt(input, stack[j].at, k) \in 1 .. Len(input) + 1
  BY <1>1, <1>2
<1>4. ElementAt(input, stack[j].at, k + 1) = ObjectsEnd(input, ElementAt(input, stack[j].at, k), 1) + 1
  BY <1>1, <1>3, NextElement
<1> QED
  BY <1>2, <1>4 DEF EndOf

\* What Stored does, by the type of the entry.
LEMMA StoreHolds ==
  ASSUME TypeOK, NEW e \in Entries, e.type # "rec", Holds(e), NEW o \in Objects,
         Elements(input[e.at]) \in Nat, e.count <= Elements(input[e.at]),
         o.at = ElementAt(input, e.at, Elements(input[e.at]) - e.count + 1),
         NEW s \in Entries, s = Stored(e, o),
         NEW c, c = [s EXCEPT !.count = @ - 1]
  PROVE  /\ e.count # 1 => Holds(c)
         /\ e.count = 1 => s.kids = KidsOf(e.at)
<1> DEFINE n == Elements(input[e.at])
           l == Len(e.kids)
           E(k) == ElementAt(input, e.at, k)
<1>1. /\ n \in Nat /\ e.count \in Nat /\ e.count # 0 /\ e.count <= n /\ e.kids \in Seq(Nat)
      /\ l \in Nat /\ o.at \in Nat /\ e.key \in Nat /\ DOMAIN e.kids = 1 .. l
      /\ e.type \in {"arr", "key", "value"}
  BY EntryFields DEF Objects
<1>2. /\ c.at = e.at /\ s.at = e.at /\ c.count = e.count - 1 /\ c.kids = s.kids /\ c.key = s.key
      /\ c.type = s.type
  BY StoredFields DEF Entries
<1>3. \A k \in 1 .. l : e.kids[k] = E(k)
  BY <1>1 DEF Holds
<1> DEFINE ks == s.kids
<1>4. CASE e.type = "arr"
  <2>1. l = n - e.count /\ ks = Append(e.kids, o.at) /\ c.type = "arr"
    BY <1>2, <1>4 DEF Holds, Stored
  <2>2. /\ ks \in Seq(Nat) /\ Len(ks) = l + 1 /\ ks[l + 1] = o.at /\ DOMAIN ks = 1 .. l + 1
        /\ \A k \in 1 .. l : ks[k] = e.kids[k]
    BY <1>1, <2>1, AppendIs
  <2>3. o.at = E(l + 1)
    BY <2>1
  <2> HIDE DEF ks, l, n, E
  <2>4. Len(ks) = n - (e.count - 1) /\ (e.count = 1 => Len(ks) = n)
    BY <1>1, <2>1, <2>2
  <2>5. \A k \in 1 .. l + 1 : ks[k] = E(k)
    <3>1. \A k \in 1 .. l + 1 : k = l + 1 \/ k \in 1 .. l
      BY <1>1
    <3> QED
      BY <1>3, <2>2, <2>3, <3>1
  <2>6. Holds(c)
    BY <1>2, <2>1, <2>2, <2>4, <2>5 DEF Holds, ks, n, E
  <2>7. ks = [k \in 1 .. Len(ks) |-> E(k)]
    <3>1. ks = [k \in 1 .. Len(ks) |-> ks[k]]
      BY <2>2
    <3> QED
      BY <2>2, <2>5, <3>1
  <2> QED
    BY <2>4, <2>6, <2>7 DEF KidsOf, ks, n, E
<1>5. CASE e.type = "key"
  <2>1. l = n - e.count /\ ks = e.kids /\ c.type = "value" /\ c.key = o.at
    BY <1>2, <1>5, StoredFields DEF Holds, Stored, Entries
  <2>2. PICK h \in 0 .. e.count : e.count = 2 * h
    BY <1>5 DEF Holds
  <2>3. o.at = E(n - (e.count - 1))
    <3>1. n - e.count + 1 = n - (e.count - 1)
      BY <1>1
    <3> QED
      BY <3>1
  <2>4. l + 1 = n - (e.count - 1)
    <3> HIDE DEF l, n
    <3> QED
      BY <1>1, <2>1
  <2>5. h - 1 \in 0 .. e.count - 1 /\ e.count - 1 = 2 * (h - 1) + 1 /\ e.count # 1
    BY <1>1, <2>2, SMTT(30)
  <2> HIDE DEF ks, l, n, E
  <2>6. \A k \in DOMAIN ks : ks[k] = E(k)
    BY <1>1, <1>3, <2>1
  <2>7. Holds(c)
    <3>1. /\ c.at = e.at /\ c.count = e.count - 1 /\ c.kids = ks /\ c.type = "value" /\ c.key = o.at
          /\ n = Elements(input[e.at]) /\ Len(ks) = l
      BY <1>2, <2>1 DEF ks, n, l
    <3>2. \E g \in 0 .. c.count : c.count = 2 * g + 1
      BY <2>5, <3>1
    <3>3. \A k \in DOMAIN c.kids : c.kids[k] = ElementAt(input, c.at, k)
      BY <2>6, <3>1 DEF E
    <3>4. Len(c.kids) + 1 = n - c.count /\ c.key = ElementAt(input, c.at, n - c.count)
      BY <2>3, <2>4, <3>1 DEF E
    <3> QED
      BY <3>1, <3>2, <3>3, <3>4 DEF Holds
  <2> QED
    BY <2>5, <2>7
<1>6. CASE e.type = "value"
  <2>1. /\ l + 1 = n - e.count /\ ks = e.kids \o <<e.key, o.at>> /\ c.type = "key"
        /\ e.key = E(n - e.count)
    BY <1>2, <1>6, StoredFields DEF Holds, Stored, Entries
  <2>2. PICK h \in 0 .. e.count : e.count = 2 * h + 1
    BY <1>6 DEF Holds
  <2>3. o.at = E(n - e.count + 1)
    OBVIOUS
  <2>4. /\ ks \in Seq(Nat) /\ Len(ks) = l + 2 /\ DOMAIN ks = 1 .. l + 2
        /\ ks[l + 1] = e.key /\ ks[l + 2] = o.at
        /\ \A k \in 1 .. l : ks[k] = e.kids[k]
    BY <1>1, <2>1
  <2> HIDE DEF ks, l, n, E
  <2>5. Len(ks) = n - (e.count - 1) /\ (e.count = 1 => Len(ks) = n) /\ l + 2 = n - e.count + 1
    <3> DEFINE d == e.count
               z == Len(ks)
    <3>1. l \in Nat /\ n \in Nat /\ d \in Nat /\ l + 1 = n - d /\ z = l + 2
      BY <1>1, <2>1, <2>4
    <3> HIDE DEF d, z
    <3>2. z = n - (d - 1) /\ (d = 1 => z = n) /\ l + 2 = n - d + 1
      BY <3>1
    <3> QED
      BY <3>2 DEF d, z
  <2>6. \A k \in 1 .. l + 2 : ks[k] = E(k)
    <3>1. \A k \in 1 .. l + 2 : k = l + 2 \/ k = l + 1 \/ k \in 1 .. l
      BY <1>1, SMTT(30)
    <3> QED
      BY <1>3, <2>1, <2>3, <2>4, <2>5, <3>1
  <2>7. h \in 0 .. e.count - 1 /\ e.count - 1 = 2 * h
    BY <1>1, <2>2
  <2>8. Holds(c)
    <3>1. /\ c.at = e.at /\ c.count = e.count - 1 /\ c.kids = ks /\ c.type = "key"
          /\ n = Elements(input[e.at])
      BY <1>2, <2>1 DEF ks, n
    <3>2. \E g \in 0 .. c.count : c.count = 2 * g
      BY <2>7, <3>1
    <3>3. \A k \in DOMAIN c.kids : c.kids[k] = ElementAt(input, c.at, k)
      BY <2>4, <2>6, <3>1 DEF E
    <3>4. Len(c.kids) = n - c.count
      BY <2>5, <3>1
    <3> QED
      BY <3>1, <3>2, <3>3, <3>4 DEF Holds
  <2>9. ks = [k \in 1 .. Len(ks) |-> E(k)]
    <3>1. ks = [k \in 1 .. Len(ks) |-> ks[k]]
      BY <2>4
    <3> QED
      BY <2>4, <2>6, <3>1
  <2> QED
    BY <2>5, <2>8, <2>9 DEF KidsOf, ks, n, E
<1> QED
  BY <1>1, <1>4, <1>5, <1>6

\* The entry that the completed object belongs to.
LEMMA EntryOnTop ==
  ASSUME SoundUses, TypeOK, CallsInv, NestInv, PathInv, KidsInv, CompletedInv,
         phase = "completed", stack # <<>>, ~(Top.op = "read" /\ Last(stack).type = "rec"),
         NEW m \in Nat, m = Len(stack)
  PROVE  /\ m >= 1 /\ DOMAIN stack = 1 .. m /\ m \in DOMAIN stack
         /\ Last(stack) = stack[m] /\ stack[m] \in Entries /\ stack[m].type # "rec"
         /\ m \notin RecEntries
         /\ stack[m].at \in 1 .. pos /\ input[stack[m].at].k \in Containers
         /\ Elements(input[stack[m].at]) \in Nat /\ stack[m].count <= Elements(input[stack[m].at])
         /\ last.at = ElementAt(input, stack[m].at, Elements(input[stack[m].at]) - stack[m].count + 1)
         /\ ElementAt(input, stack[m].at, Elements(input[stack[m].at]) - stack[m].count + 2) = pos + 1
         /\ Top.op = "read" /\ ~ SkipsMixIn => Holds(stack[m])
         /\ Top.op # "read" => frames # <<>> /\ frames[1].op = "skip" /\ RecEntries = {}
         /\ frames # <<>> /\ Top.op \in {"read", "skip"}
<1>1. /\ m >= 1 /\ DOMAIN stack = 1 .. m /\ Last(stack) = stack[m] /\ stack[m] \in Entries
      /\ m \in DOMAIN stack
  <2>1. m >= 1 /\ DOMAIN stack = 1 .. m /\ Last(stack) = stack[m] /\ stack[m] \in Entries
    BY StackFacts
  <2> QED
    BY <2>1
<1>2. frames # <<>> /\ Top.op \in {"read", "skip"}
  BY TypeParts DEF FramesOK, CallsInv
<1>3. Top.op # "read" => frames[1].op = "skip" /\ RecEntries = {}
  <2>1. Top.op # "read" => Len(frames) = 1
    BY <1>2, NestedCall
  <2> QED
    BY <1>2, <2>1, OneCall
<1>4. stack[m].type # "rec" /\ m \notin RecEntries
  BY <1>1, <1>3 DEF RecEntries
<1>5. stack[m].at \in 1 .. pos /\ input[stack[m].at].k \in Containers
  BY <1>1, <1>4 DEF NestInv, Nested
<1>6. Elements(input[stack[m].at]) \in Nat
  BY <1>1, EntryHere
<1>7. /\ stack[m].count <= Elements(input[stack[m].at])
      /\ last.at = ElementAt(input, stack[m].at, Elements(input[stack[m].at]) - stack[m].count + 1)
  <2>1. Counts(m)
    BY <1>1 DEF PathInv
  <2>2. ElementStart(m) = last.at
    BY <1>1 DEF ElementStart, Frontier
  <2> QED
    BY <1>4, <2>1, <2>2 DEF Counts
<1>8. ElementAt(input, stack[m].at, Elements(input[stack[m].at]) - stack[m].count + 2) = pos + 1
  <2> DEFINE n == Elements(input[stack[m].at])
             c == stack[m].count
             k == n - c + 1
  <2>1. k \in Nat /\ k # 0 /\ n - c + 2 = k + 1
    <3>1. n \in Nat /\ c \in Nat /\ c <= n
      BY <1>1, <1>6, <1>7, EntryFields
    <3> HIDE DEF n, c
    <3> QED
      BY <3>1
  <2>2. last.at = ElementAt(input, stack[m].at, k)
    BY <1>7
  <2> HIDE DEF k
  <2>3. ElementAt(input, stack[m].at, k + 1) = pos + 1
    BY <1>1, <2>1, <2>2, ElementOver
  <2> QED
    BY <2>1, <2>3
<1>9. Top.op = "read" /\ ~ SkipsMixIn => Holds(stack[m])
  <2> SUFFICES ASSUME Top.op = "read", ~ SkipsMixIn PROVE Holds(stack[m])
    OBVIOUS
  <2>1. \/ Holds(stack[m])
        \/ frames # <<>> /\ frames[1].op = "skip" /\ \A i \in RecEntries : m < i
    BY <1>1, <1>4 DEF KidsInv
  <2>2. ASSUME frames[1].op = "skip", \A i \in RecEntries : m < i PROVE FALSE
    <3>1. RecEntries = {}
      <4>1. \A i \in RecEntries : i <= m
        BY <1>1 DEF RecEntries
      <4>2. \A i \in RecEntries : i \in 1 .. m
        BY <1>1 DEF RecEntries
      <4> QED
        BY <2>2, <4>1, <4>2
    <3>2. Len(frames) = 1
      BY <1>2, <3>1, NestedCall
    <3> QED
      BY <1>2, <2>2, <3>2, OneCall
  <2> QED
    BY <2>1, <2>2
<1> QED
  BY <1>1, <1>2, <1>3, <1>4, <1>5, <1>6, <1>7, <1>8, <1>9

\* A container that is full is an object of the stream.
LEMMA WholeIs ==
  ASSUME SoundUses, TypeOK, CallsInv, NestInv, PathInv, KidsInv, CompletedInv,
         phase = "completed", stack # <<>>, ~(Top.op = "read" /\ Last(stack).type = "rec"),
         IsFull(Filled)
  PROVE  /\ Whole \in Objects /\ Whole.at = Last(stack).at /\ Whole.to = pos
         /\ Whole.at \in 1 .. pos /\ EndOf(Whole.at) = pos
         /\ input[Whole.at].k # "data"
         /\ Top.op = "read" /\ ~ SkipsMixIn => Whole.kids = KidsOf(Whole.at)
<1>1. PICK m \in Nat : m = Len(stack)
  BY StackFacts
<1> DEFINE e == stack[m]
           n == Elements(input[e.at])
<1>2. /\ m \in DOMAIN stack
      /\ Last(stack) = e /\ e \in Entries /\ e.type # "rec"
      /\ e.at \in 1 .. pos /\ input[e.at].k \in Containers
      /\ n \in Nat /\ e.count <= n
      /\ last.at = ElementAt(input, e.at, n - e.count + 1)
      /\ ElementAt(input, e.at, n - e.count + 2) = pos + 1
      /\ Top.op = "read" /\ ~ SkipsMixIn => Holds(e)
  BY <1>1, EntryOnTop
<1>3. /\ Filled \in Entries /\ Filled.at = e.at /\ Filled.count = e.count /\ Whole \in Objects
  BY <1>2, FilledFields
<1>4. e.count = 1
  BY <1>3 DEF IsFull
<1>5. Whole.at = e.at /\ Whole.to = last.to /\ Whole.kids = Filled.kids
  BY <1>3 DEF Whole
<1>6. last.to = pos
  BY DEF CompletedInv
<1>7. EndOf(e.at) = pos
  <2>1. /\ e.at \in 1 .. Len(input) /\ IsOpen(input, e.at) /\ input \in Seq(Byte)
        /\ pos \in Nat
    BY <1>2, EntryHere, DataFacts
  <2>2. ElementAt(input, e.at, n + 1) = ObjectsEnd(input, e.at, 1) + 1
    BY <2>1, LastElement
  <2>3. n - e.count + 2 = n + 1
    BY <1>2, <1>4
  <2>4. ObjectsEnd(input, e.at, 1) \in e.at .. Len(input) + 1
    <3>1. e.at \in 1 .. Len(input) + 1 /\ 1 \in Nat /\ 1 # 0
      BY <2>1
    <3> QED
      BY <2>1, <3>1, EndRange
  <2> DEFINE z == ObjectsEnd(input, e.at, 1)
  <2>5. z + 1 = pos + 1 /\ z \in Int
    BY <1>2, <2>2, <2>3, <2>4
  <2> HIDE DEF z
  <2>6. z = pos
    BY <2>1, <2>5
  <2> QED
    BY <2>6 DEF z, EndOf
<1>8. Top.op = "read" /\ ~ SkipsMixIn => Filled.kids = KidsOf(e.at)
  <2> SUFFICES ASSUME Top.op = "read", ~ SkipsMixIn PROVE Filled.kids = KidsOf(e.at)
    OBVIOUS
  <2>1. Filled = Stored(e, last) /\ last \in Objects
    BY <1>2, TypeParts DEF Filled, RestOK
  <2> QED
    BY <1>2, <1>3, <1>4, <2>1, StoreHolds
<1>9. input[e.at].k # "data"
  BY <1>2 DEF Containers
<1> QED
  BY <1>2, <1>3, <1>5, <1>6, <1>7, <1>8, <1>9

\* One that is not waits for its next element.
LEMMA StoreNests ==
  ASSUME SoundUses, TypeOK, CallsInv, NestInv, PathInv, KidsInv, CompletedInv,
         phase = "completed", stack # <<>>, ~(Top.op = "read" /\ Last(stack).type = "rec"),
         ~ IsFull(Filled), stack' = Push(stack, Counted), phase' = "run",
         UNCHANGED <<use, input, pos, hvars, frames>>
  PROVE  /\ NestInv' /\ PathInv' /\ KidsInv'
         /\ stack' # <<>> /\ stack'[1].at = stack[1].at
<1>1. PICK m \in Nat : m = Len(stack)
  BY StackFacts
<1>e. PICK e \in Entries : e = stack[m]
  BY <1>1, EntryOnTop
<1>n. PICK n \in Nat : n = Elements(input[e.at])
  BY <1>1, <1>e, EntryOnTop
<1>2. /\ m >= 1 /\ DOMAIN stack = 1 .. m /\ m \in DOMAIN stack
      /\ Last(stack) = e /\ e.type # "rec" /\ m \notin RecEntries
      /\ e.at \in 1 .. pos /\ input[e.at].k \in Containers
      /\ e.count <= n
      /\ last.at = ElementAt(input, e.at, n - e.count + 1)
      /\ ElementAt(input, e.at, n - e.count + 2) = pos + 1
      /\ Top.op = "read" /\ ~ SkipsMixIn => Holds(e)
      /\ Top.op # "read" => frames # <<>> /\ frames[1].op = "skip" /\ RecEntries = {}
      /\ frames # <<>> /\ Top.op \in {"read", "skip"}
  BY <1>1, <1>e, <1>n, EntryOnTop
<1>3. PICK s \in Entries, c \in Entries : s = Filled /\ c = Counted
  BY FilledFields
<1>4. /\ s.at = e.at /\ s.count = e.count /\ s.type # "rec"
      /\ c.at = e.at /\ c.count = e.count - 1 /\ c.type # "rec" /\ e.count # 1
      /\ c = [s EXCEPT !.count = @ - 1]
  <2>1. s.at = e.at /\ s.count = e.count
    BY <1>2, <1>3, FilledFields
  <2>2. s.type # "rec"
    <3>1. last \in Objects
      BY TypeParts DEF RestOK
    <3>2. Stored(e, last).type # "rec"
      BY <1>2, <3>1, StoredFields
    <3> QED
      BY <1>2, <1>3, <3>2 DEF Filled
  <2>3. c = [s EXCEPT !.count = @ - 1]
    BY <1>3 DEF Counted
  <2>4. c.at = s.at /\ c.count = s.count - 1 /\ c.type = s.type
    BY <2>3 DEF Entries
  <2>5. e.count # 1
    BY <1>3, <2>1 DEF IsFull
  <2> QED
    BY <2>1, <2>2, <2>3, <2>4, <2>5
<1>5. /\ DOMAIN stack' = 1 .. m /\ stack' # <<>> /\ stack'[m] = c /\ Len(stack') = m
      /\ \A j \in 1 .. m - 1 : stack'[j] = stack[j]
  <2>1. stack \in Seq(Entries) /\ stack' = Push(stack, c)
    BY <1>3, StackFacts
  <2>2. /\ Push(stack, c) \in Seq(Entries) /\ Push(stack, c) # <<>>
        /\ Len(Push(stack, c)) = Len(stack)
        /\ \A j \in 1 .. Len(stack) - 1 : Push(stack, c)[j] = stack[j]
        /\ Push(stack, c)[Len(stack)] = c
    <3>1. stack \in Seq(Entries) /\ stack # <<>> /\ c \in Entries
      BY <1>3, <2>1
    <3> QED
      BY <3>1, PushIs
  <2>3. stack' \in Seq(Entries) /\ stack' # <<>> /\ Len(stack') = m /\ stack'[m] = c
        /\ \A j \in 1 .. m - 1 : stack'[j] = stack[j]
    BY <1>1, <2>1, <2>2
  <2> QED
    BY <2>3
<1>6. \A j \in 1 .. m : stack'[j].at = stack[j].at /\ (stack'[j].type = "rec" <=> stack[j].type = "rec")
  <2> SUFFICES ASSUME NEW j \in 1 .. m
               PROVE  /\ stack'[j].at = stack[j].at
                      /\ stack'[j].type = "rec" <=> stack[j].type = "rec"
    OBVIOUS
  <2>2. CASE j = m
    BY <1>2, <1>4, <1>5, <1>e, <2>2
  <2>3. CASE j # m
    <3>1. j \in 1 .. m - 1
      BY <2>3
    <3> QED
      BY <1>5, <3>1
  <2> QED
    BY <2>2, <2>3
<1>7. Frontier' = pos + 1 /\ pos \in Nat /\ last.at <= pos /\ last.at \in Nat
  <2>1. ~ HeadKept /\ last.at \in 1 .. pos
    BY DEF CompletedInv
  <2>2. ~ HeadKept' /\ HAt' = pos + 1
    BY <2>1 DEF HeadKept, HAt, hvars
  <2> QED
    BY <2>1, <2>2, DataFacts DEF Frontier
<1>8. \A j \in 1 .. m : /\ ElementStart(j)' = IF j = m THEN pos + 1 ELSE ElementStart(j)
                        /\ ElementStart(j) \in Nat /\ (j = m => ElementStart(j) = last.at)
  <2> SUFFICES ASSUME NEW j \in 1 .. m
               PROVE  /\ ElementStart(j)' = IF j = m THEN pos + 1 ELSE ElementStart(j)
                      /\ ElementStart(j) \in Nat /\ (j = m => ElementStart(j) = last.at)
    OBVIOUS
  <2>1. ElementStart(j) \in Nat
    BY <1>2, EntryHere
  <2>2. ElementStart(j) = IF j < m THEN stack[j + 1].at ELSE last.at
    BY <1>1 DEF ElementStart, Frontier
  <2>3. ElementStart(j)' = IF j < m THEN stack'[j + 1].at ELSE pos + 1
    BY <1>5, <1>7 DEF ElementStart
  <2>4. CASE j < m
    <3>1. j + 1 \in 1 .. m /\ j # m
      BY <2>4
    <3> QED
      BY <1>6, <2>1, <2>2, <2>3, <2>4, <3>1
  <2>5. CASE ~(j < m)
    <3>1. j = m
      BY <2>5
    <3> QED
      BY <2>1, <2>2, <2>3, <2>5, <3>1
  <2> QED
    BY <2>4, <2>5
<1>9. ASSUME NEW j \in 1 .. m PROVE Nested(j)'
  <2>1. ElementStart(j)' \in Nat /\ ElementStart(j) <= ElementStart(j)'
    BY <1>7, <1>8
  <2> QED
    BY <1>2, <1>6, <1>7, <2>1, NestedStays
<1>10. ASSUME NEW j \in 1 .. m PROVE Counts(j)'
  <2>1. CASE j = m
    <3>1. n - (e.count - 1) + 1 = n - e.count + 2 /\ e.count - 1 <= n
      BY <1>2, EntryFields
    <3>2. stack'[j] = c /\ ElementStart(j)' = pos + 1
      BY <1>5, <1>8, <2>1
    <3> QED
      BY <1>2, <1>4, <1>n, <3>1, <3>2 DEF Counts
  <2>2. CASE j # m
    <3>1. stack'[j] = stack[j] /\ ElementStart(j)' = ElementStart(j)
      BY <1>2, <1>5, <1>8, <2>2
    <3> QED
      BY <1>2, <3>1 DEF PathInv, Counts
  <2> QED
    BY <2>1, <2>2
<1>11. RecEntries' = RecEntries /\ ProcFrames' = ProcFrames /\ Top' = Top /\ RecEntries \subseteq 1 .. m
  BY <1>2, <1>5, <1>6 DEF RecEntries, ProcFrames, Top
<1>12. ProcsMatch'
  BY <1>6, <1>11 DEF NestInv, ProcsMatch
<1>13. TopMatches'
  BY <1>2, <1>11 DEF TopMatches
<1>14. ASSUME NEW i \in ProcFrames, NEW j \in 1 .. m PROVE Got(frames[i], j)'
  <2>1. CASE j = m
    <3>1. stack[j].at # frames[i].at
      BY <1>2, <2>1, ProcBelow
    <3> QED
      BY <1>6, <3>1 DEF Got
  <2>2. CASE j # m
    <3>1. ElementStart(j)' = ElementStart(j)
      BY <1>8, <2>2
    <3> QED
      BY <1>2, <1>6, <3>1, GotStays
  <2> QED
    BY <2>1, <2>2
<1>15. NestInv' /\ PathInv'
  BY <1>5, <1>9, <1>10, <1>11, <1>12, <1>13, <1>14 DEF NestInv, PathInv
<1>16. ASSUME ~ SkipsMixIn', NEW j \in DOMAIN stack' \ RecEntries'
       PROVE  \/ Holds(stack[j])'
              \/ frames' # <<>> /\ frames'[1].op = "skip" /\ \A i \in RecEntries' : j < i
  <2>0. ~ SkipsMixIn
    BY <1>16 DEF SkipsMixIn
  <2>1. CASE j = m /\ Top.op = "read"
    <3>1. s = Stored(e, last) /\ last \in Objects
      BY <1>2, <1>3, <2>1, TypeParts DEF Filled, RestOK
    <3>2. Holds(c)
      BY <1>2, <1>3, <1>4, <1>n, <2>0, <2>1, <3>1, StoreHolds
    <3>3. stack'[j] = c
      BY <1>5, <2>1
    <3> QED
      BY <3>2, <3>3 DEF Holds
  <2>2. CASE j = m /\ Top.op # "read"
    BY <1>2, <1>11, <2>2
  <2>3. CASE j # m
    <3>1. j \in DOMAIN stack \ RecEntries /\ stack'[j] = stack[j]
      BY <1>2, <1>5, <1>11, <1>16, <2>3
    <3>2. \/ Holds(stack[j])
          \/ frames # <<>> /\ frames[1].op = "skip" /\ \A i \in RecEntries : j < i
      BY <2>0, <3>1 DEF KidsInv
    <3>3. Holds(stack[j]) => Holds(stack[j])'
      BY <3>1 DEF Holds
    <3> QED
      BY <1>11, <3>2, <3>3
  <2> QED
    BY <2>1, <2>2, <2>3
<1>17. KidsInv'
  BY <1>16 DEF KidsInv
<1>18. stack'[1].at = stack[1].at
  BY <1>2, <1>6
<1> QED
  BY <1>5, <1>15, <1>17, <1>18

\* One that is leaves the stack and is the element the entry below waits for.
LEMMA WholeNests ==
  ASSUME SoundUses, TypeOK, CallsInv, NestInv, PathInv, KidsInv, CompletedInv,
         phase = "completed", stack # <<>>, ~(Top.op = "read" /\ Last(stack).type = "rec"),
         IsFull(Filled), last' = Whole, stack' = Front(stack), Len(stack) # 1,
         UNCHANGED <<use, input, pos, hvars, frames, phase>>
  PROVE  /\ NestInv' /\ PathInv' /\ KidsInv' /\ CompletedInv'
         /\ stack' # <<>> /\ stack'[1] = stack[1]
<1>1. PICK m \in Nat : m = Len(stack)
  BY StackFacts
<1>2. /\ Whole \in Objects /\ Whole.at = Last(stack).at /\ Whole.to = pos
      /\ Whole.at \in 1 .. pos /\ EndOf(Whole.at) = pos
      /\ input[Whole.at].k # "data"
      /\ Top.op = "read" /\ ~ SkipsMixIn => Whole.kids = KidsOf(Whole.at)
  BY WholeIs
<1>3. Frontier' = Last(stack).at
  BY <1>2 DEF Frontier
<1>4. /\ m >= 1 /\ DOMAIN stack = 1 .. m /\ DOMAIN stack' = 1 .. m - 1
      /\ \A j \in 1 .. m - 1 : stack'[j] = stack[j] /\ ElementStart(j)' = ElementStart(j)
      /\ \A j \in DOMAIN stack' : Nested(j)' /\ Counts(j)'
      /\ RecEntries' = RecEntries \ {m}
  BY <1>1, <1>3, PopNests
<1>5. m \notin RecEntries /\ frames # <<>> /\ Top.op \in {"read", "skip"} /\ m # 1
  BY <1>1, EntryOnTop
<1>6. RecEntries' = RecEntries /\ ProcFrames' = ProcFrames /\ Top' = Top
  BY <1>4, <1>5 DEF ProcFrames, Top
<1>7. \A j \in RecEntries : j \in 1 .. m - 1
  <2>1. \A j \in RecEntries : j \in 1 .. m /\ j # m
    BY <1>4, <1>5 DEF RecEntries
  <2> QED
    BY <2>1
<1>8. ProcsMatch'
  <2>1. \A j \in RecEntries : stack'[j] = stack[j]
    BY <1>4, <1>7
  <2>2. ProcsMatch /\ UNCHANGED frames
    BY DEF NestInv
  <2> QED
    BY <1>6, <2>1, <2>2 DEF ProcsMatch
<1>9. TopMatches'
  BY <1>5, <1>6 DEF TopMatches
<1>10. ASSUME NEW i \in ProcFrames', NEW j \in DOMAIN stack' PROVE Got(frames[i], j)'
  <2>1. /\ i \in ProcFrames /\ frames'[i] = frames[i]
        /\ j \in DOMAIN stack /\ stack'[j].at = stack[j].at
        /\ ElementStart(j)' = ElementStart(j)
    BY <1>4, <1>6
  <2> QED
    BY <2>1, GotStays
<1>11. NestInv' /\ PathInv'
  BY <1>4, <1>8, <1>9, <1>10 DEF NestInv, PathInv
<1>12. KidsInv'
  BY <1>4, KidsStay
<1>13. CompletedInv'
  <2>1. last'.at = Whole.at /\ last'.to = pos /\ last'.kids = Whole.kids
    BY <1>2
  <2>2. EndOf(last.at)' = EndOf(Whole.at) /\ KidsOf(last.at)' = KidsOf(Whole.at)
    BY <2>1 DEF EndOf, KidsOf
  <2>3. SkipsMixIn' = SkipsMixIn
    BY DEF SkipsMixIn
  <2>4. ObjectsGenuine'
    BY <1>2, <1>6, <2>1, <2>2, <2>3 DEF ObjectsGenuine
  <2>5. ~ HeadKept' /\ raw' = 0
    BY DEF CompletedInv, HeadKept, hvars
  <2> QED
    BY <1>2, <2>1, <2>4, <2>5 DEF CompletedInv
<1>14. stack'[1] = stack[1] /\ stack' # <<>>
  <2>1. 1 \in 1 .. m - 1
    BY <1>4, <1>5
  <2>2. 1 \in DOMAIN stack'
    BY <1>4, <2>1
  <2> QED
    BY <1>4, <2>1, <2>2
<1> QED
  BY <1>11, <1>12, <1>13, <1>14

\* The proc of the entry on top waits for the object that a nested read completed.
LEMMA WaitingProc ==
  ASSUME SoundUses, TypeOK, CallsInv, NestInv, phase = "completed",
         frames # <<>>, Len(frames) # 1, Last(stack).type = "rec",
         NEW m \in Nat, m = Len(stack), NEW n \in Nat, n = Len(frames)
  PROVE  /\ m >= 1 /\ n >= 3 /\ n - 1 \in ProcFrames /\ m \in RecEntries
         /\ stack[m].at = frames[n - 1].at
         /\ \A i \in ProcFrames : i # n - 1 => i \in 1 .. n - 2 /\ frames[i].at # frames[n - 1].at
         /\ \A j \in DOMAIN stack : j # m => j \in 1 .. m - 1 /\ stack[j].at # stack[m].at
<1>1. frames # <<>> /\ DOMAIN frames = 1 .. n /\ Top.op # "proc" /\ n \notin ProcFrames
      /\ n >= 3 /\ n - 1 \in ProcFrames /\ stack # <<>>
  <2>1. Top.op \in {"read", "skip"}
    BY DEF CallsInv
  <2> QED
    BY <2>1, FrameFacts, NestedCall
<1>2. m >= 1 /\ DOMAIN stack = 1 .. m /\ m \in DOMAIN stack /\ m \in RecEntries
  <2>1. m >= 1 /\ DOMAIN stack = 1 .. m /\ Last(stack) = stack[m]
    BY <1>1, StackFacts
  <2>2. m \in DOMAIN stack
    BY <2>1
  <2> QED
    BY <2>1, <2>2 DEF RecEntries
<1>3. \A j \in DOMAIN stack : j # m => /\ j \in 1 .. m - 1 /\ stack[j].at < stack[m].at
                                       /\ stack[j].at \in Nat /\ stack[m].at \in Nat
  <2> SUFFICES ASSUME NEW j \in DOMAIN stack, j # m
               PROVE  /\ j \in 1 .. m - 1 /\ stack[j].at < stack[m].at
                      /\ stack[j].at \in Nat /\ stack[m].at \in Nat
    OBVIOUS
  <2>1. j \in 1 .. m - 1 /\ j < m
    BY <1>2
  <2>2. stack[j].at < stack[m].at
    BY <1>2, <2>1, Chain
  <2> QED
    BY <1>2, <2>1, <2>2, EntryHere, EntryFields
<1>4. \A i \in ProcFrames : i # n - 1 =>
        /\ i \in 1 .. n - 2 /\ frames[i].at < frames[n - 1].at
        /\ frames[i].at \in Nat /\ frames[n - 1].at \in Nat
  <2> SUFFICES ASSUME NEW i \in ProcFrames, i # n - 1
               PROVE  /\ i \in 1 .. n - 2 /\ frames[i].at < frames[n - 1].at
                      /\ frames[i].at \in Nat /\ frames[n - 1].at \in Nat
    OBVIOUS
  <2>1. i \in 1 .. n /\ i # n
    BY <1>1 DEF ProcFrames
  <2>2. i \in 1 .. n - 2 /\ i < n - 1
    BY <1>1, <2>1
  <2> QED
    BY <1>1, <2>2, ProcBelow DEF NestInv, ProcsMatch
<1>5. stack[m].at = frames[n - 1].at
  <2>1. PICK i \in ProcFrames : stack[m].at = frames[i].at
    BY <1>2 DEF NestInv, ProcsMatch
  <2>2. PICK j \in RecEntries : stack[j].at = frames[n - 1].at
    BY <1>1 DEF NestInv, ProcsMatch
  <2>3. j \in DOMAIN stack
    BY DEF RecEntries
  <2>4. ASSUME i # n - 1, j # m PROVE FALSE
    BY <1>3, <1>4, <2>1, <2>2, <2>3, <2>4
  <2> QED
    BY <2>1, <2>2, <2>4
<1>6. \A i \in ProcFrames : i # n - 1 => i \in 1 .. n - 2 /\ frames[i].at # frames[n - 1].at
  BY <1>4
<1>7. \A j \in DOMAIN stack : j # m => j \in 1 .. m - 1 /\ stack[j].at # stack[m].at
  BY <1>3
<1> QED
  BY <1>1, <1>2, <1>5, <1>6, <1>7

\* It gets the object.
LEMMA ReturnNests ==
  ASSUME SoundUses, TypeOK, CallsInv, HeadInv, NestInv, PathInv, KidsInv, CompletedInv,
         phase = "completed", frames # <<>>, Len(frames) # 1, Last(stack).type = "rec",
         Return(last, stack), UNCHANGED <<use, input, pos, hvars, last>>
  PROVE  /\ NestInv' /\ PathInv' /\ KidsInv' /\ UNCHANGED <<stack, outcome, out>>
         /\ phase' = "run" /\ frames' # <<>> /\ frames'[1] = frames[1] /\ Top'.op = "proc"
         /\ stack # <<>>
<1>1. PICK m \in Nat : m = Len(stack)
  BY StackFacts
<1>2. PICK n \in Nat : n = Len(frames)
  BY FrameFacts
<1>3. /\ m >= 1 /\ n >= 3 /\ n - 1 \in ProcFrames /\ m \in RecEntries
      /\ stack[m].at = frames[n - 1].at
      /\ \A i \in ProcFrames : i # n - 1 => i \in 1 .. n - 2 /\ frames[i].at # frames[n - 1].at
      /\ \A j \in DOMAIN stack : j # m => j \in 1 .. m - 1 /\ stack[j].at # stack[m].at
  BY <1>1, <1>2, WaitingProc
<1>4. /\ DOMAIN stack = 1 .. m /\ m \in DOMAIN stack /\ stack # <<>> /\ Last(stack) = stack[m]
      /\ stack[m].type = "rec"
  <2>1. m \in DOMAIN stack /\ stack[m].type = "rec"
    BY <1>3 DEF RecEntries
  <2>2. stack # <<>>
    BY <1>1, <1>3, StackFacts, EmptySeq
  <2> QED
    BY <1>1, <2>1, <2>2, StackFacts
<1>p. PICK p \in Frames : p = frames[n - 1]
  BY <1>2, <1>3, FrameFacts DEF ProcFrames
<1>5. p.op = "proc" /\ p.left > 0 /\ p.left \in Nat /\ p.got \in Seq(Nat) /\ p.at = stack[m].at
  <2>1. p.op = "proc"
    BY <1>3, <1>p DEF ProcFrames
  <2>2. p.left > 0
    <3>1. Top.op \in {"read", "skip"}
      BY DEF CallsInv
    <3> QED
      BY <1>2, <1>p, <3>1, ReturnsToProc
  <2> QED
    BY <1>3, <1>p, <2>1, <2>2, FrameFields
<1>o. last.at \in Nat
  BY FrontierIs
<1>q. PICK q \in Frames : q = [p EXCEPT !.left = @ - 1, !.got = Append(@, last.at)]
  <2>1. Append(p.got, last.at) \in Seq(Nat) /\ p.left - 1 \in Nat
    BY <1>5, <1>o, AppendIs
  <2> QED
    BY <2>1 DEF Frames
<1>6. q.op = "proc" /\ q.at = p.at /\ q.left = p.left - 1 /\ q.got = Append(p.got, last.at)
  <2> DEFINE g == Append(p.got, last.at)
             l == p.left - 1
  <2>1. q = [p EXCEPT !.left = l, !.got = g]
    BY <1>q
  <2> HIDE DEF g, l
  <2>2. q.op = p.op /\ q.at = p.at /\ q.left = l /\ q.got = g
    BY <2>1 DEF Frames
  <2> QED
    BY <1>5, <2>2 DEF g, l
<1>7. /\ frames' = Append(SubSeq(frames, 1, n - 2), q)
      /\ stack' = stack /\ phase' = "run" /\ UNCHANGED <<allocated, outcome, out>>
  <2>1. Len(frames) - 1 = n - 1 /\ Len(frames) - 2 = n - 2
    BY <1>2
  <2> QED
    BY <1>2, <1>p, <1>q, <2>1 DEF Return
<1>8. /\ frames' # <<>> /\ DOMAIN frames' = 1 .. n - 1 /\ Top' = q
      /\ \A i \in 1 .. n - 2 : frames'[i] = frames[i]
      /\ frames'[n - 1] = q
  <2>1. frames \in Seq(Frames) /\ Len(frames) >= 2
    BY <1>2, <1>3, TypeParts DEF FramesOK
  <2> DEFINE t == Append(SubSeq(frames, 1, Len(frames) - 2), q)
  <2>2. /\ t \in Seq(Frames) /\ t # <<>> /\ Len(t) = Len(frames) - 1
        /\ \A i \in 1 .. Len(frames) - 2 : t[i] = frames[i]
        /\ t[Len(frames) - 1] = q /\ Last(t) = q
    BY <2>1, PopPushIs
  <2>3. frames' = t
    BY <1>2, <1>7
  <2> HIDE DEF t
  <2>4. DOMAIN t = 1 .. n - 1
    BY <1>2, <2>2
  <2> QED
    BY <1>2, <2>2, <2>3, <2>4 DEF Top
<1>9. DOMAIN frames = 1 .. n /\ n \notin ProcFrames
  <2>1. Top.op \in {"read", "skip"}
    BY DEF CallsInv
  <2> QED
    BY <1>2, <2>1, FrameFacts DEF ProcFrames
<1>10. \A i \in 1 .. n - 1 : frames'[i].op = frames[i].op /\ frames'[i].at = frames[i].at
  <2>1. \A i \in 1 .. n - 1 : i = n - 1 \/ i \in 1 .. n - 2
    BY <1>3
  <2> QED
    BY <1>5, <1>6, <1>8, <1>p, <2>1
<1>11. ProcFrames' = ProcFrames /\ \A i \in ProcFrames : i \in 1 .. n - 1
  <2>1. \A i \in 1 .. n : i = n \/ i \in 1 .. n - 1
    BY <1>3
  <2>2. \A i \in 1 .. n - 1 : i \in 1 .. n
    BY <1>3
  <2> QED
    BY <1>8, <1>9, <1>10, <2>1, <2>2 DEF ProcFrames
<1>12. RecEntries' = RecEntries /\ DOMAIN stack' = 1 .. m
  BY <1>4, <1>7 DEF RecEntries
<1>13. ProcsMatch'
  <2>1. \A i \in ProcFrames : frames'[i].at = frames[i].at
    BY <1>10, <1>11
  <2>2. ProcsMatch
    BY DEF NestInv
  <2>3. \A j \in RecEntries : \E i \in ProcFrames : stack[j].at = frames'[i].at
    BY <2>1, <2>2 DEF ProcsMatch
  <2>4. \A i \in ProcFrames : \E j \in RecEntries : stack[j].at = frames'[i].at
    BY <2>1, <2>2 DEF ProcsMatch
  <2>5. \A i, j \in ProcFrames : i < j => frames'[i].at < frames'[j].at
    BY <2>1, <2>2 DEF ProcsMatch
  <2> QED
    BY <1>7, <1>11, <1>12, <2>3, <2>4, <2>5 DEF ProcsMatch
<1>14. ~ HeadKept /\ ~ HeadKept' /\ last.at \in 1 .. pos
  BY DEF CompletedInv, HeadKept, hvars
<1>15. TopMatches'
  BY <1>3, <1>4, <1>5, <1>6, <1>7, <1>8, <1>14 DEF TopMatches
<1>16. Frontier = last.at /\ Frontier' = pos + 1 /\ pos \in Nat
  <2>1. HAt' = pos + 1
    BY <1>14 DEF HAt
  <2> QED
    BY <1>7, <2>1, DataFacts DEF Frontier
<1>17. \A j \in 1 .. m : /\ ElementStart(j)' = IF j = m THEN pos + 1 ELSE ElementStart(j)
                         /\ ElementStart(j) \in Nat /\ (j = m => ElementStart(j) = last.at)
  <2> SUFFICES ASSUME NEW j \in 1 .. m
               PROVE  /\ ElementStart(j)' = IF j = m THEN pos + 1 ELSE ElementStart(j)
                      /\ ElementStart(j) \in Nat /\ (j = m => ElementStart(j) = last.at)
    OBVIOUS
  <2>1. ElementStart(j) \in Nat
    BY <1>4, EntryHere
  <2>2. ElementStart(j) = IF j < m THEN stack[j + 1].at ELSE last.at
    BY <1>1, <1>16 DEF ElementStart
  <2>3. ElementStart(j)' = IF j < m THEN stack[j + 1].at ELSE pos + 1
    BY <1>1, <1>7, <1>16 DEF ElementStart
  <2>4. j < m \/ j = m
    OBVIOUS
  <2> QED
    BY <2>1, <2>2, <2>3, <2>4
<1>18. ASSUME NEW j \in 1 .. m PROVE Nested(j)' /\ Counts(j)'
  <2>1. ElementStart(j)' \in Nat /\ ElementStart(j) <= ElementStart(j)'
    BY <1>14, <1>16, <1>17
  <2>2. Nested(j)'
    BY <1>4, <1>7, <1>16, <2>1, NestedStays
  <2>3. Counts(j)'
    <3>1. CASE j = m
      BY <1>4, <1>7, <3>1 DEF Counts
    <3>2. CASE j # m
      <4>1. ElementStart(j)' = ElementStart(j)
        BY <1>17, <3>2
      <4> QED
        BY <1>4, <1>7, <4>1 DEF PathInv, Counts
    <3> QED
      BY <3>1, <3>2
  <2> QED
    BY <2>2, <2>3
<1>19. ASSUME NEW i \in ProcFrames, NEW j \in 1 .. m PROVE Got(frames[i], j)'
  <2>1. CASE i = n - 1 /\ j = m
    <3>1. Got(p, m)
      BY <1>3, <1>4, <1>p DEF PathInv
    <3> DEFINE E == Elements(input[stack[m].at])
               g == Len(p.got)
    <3>2. /\ g + p.left = E
          /\ last.at = ElementAt(input, stack[m].at, g + 1)
          /\ \A k \in DOMAIN p.got : p.got[k] = ElementAt(input, stack[m].at, k)
      BY <1>3, <1>5, <1>17, <3>1 DEF Got
    <3>3. g \in Nat
      BY <1>5
    <3>4. /\ Len(q.got) = g + 1 /\ DOMAIN q.got = 1 .. g + 1
          /\ \A k \in 1 .. g : q.got[k] = p.got[k]
          /\ q.got[g + 1] = last.at
      <4>1. /\ Append(p.got, last.at) \in Seq(Nat)
            /\ Len(Append(p.got, last.at)) = Len(p.got) + 1
            /\ \A k \in 1 .. Len(p.got) : Append(p.got, last.at)[k] = p.got[k]
            /\ Append(p.got, last.at)[Len(p.got) + 1] = last.at
        BY <1>5, <1>o, AppendIs
      <4> QED
        BY <1>6, <4>1
    <3>5. ElementAt(input, stack[m].at, g + 2) = pos + 1
      <4> DEFINE k == g + 1
      <4>1. k \in Nat /\ k # 0 /\ g + 2 = k + 1
        BY <3>3
      <4>2. last.at = ElementAt(input, stack[m].at, k)
        BY <3>2
      <4> HIDE DEF k
      <4>3. ElementAt(input, stack[m].at, k + 1) = pos + 1
        BY <1>4, <4>1, <4>2, ElementOver
      <4> QED
        BY <4>1, <4>3
    <3>6. \A k \in DOMAIN q.got : q.got[k] = ElementAt(input, stack[m].at, k)
      <4>1. \A k \in 1 .. g + 1 : k = g + 1 \/ k \in 1 .. g
        BY <3>3
      <4>2. DOMAIN p.got = 1 .. g
        BY <1>5
      <4> HIDE DEF g
      <4> QED
        BY <3>2, <3>4, <4>1, <4>2
    <3>7. Len(q.got) + q.left = E /\ Len(q.got) + 1 = g + 2
      <4>1. g + p.left = E /\ Len(q.got) = g + 1 /\ q.left = p.left - 1
        BY <1>6, <3>2, <3>4
      <4>2. g \in Nat /\ p.left \in Nat
        BY <1>5, <3>3
      <4> HIDE DEF g, E
      <4> QED
        BY <4>1, <4>2
    <3>8. frames'[i] = q /\ stack'[j].at = stack[m].at /\ ElementStart(j)' = pos + 1
      BY <1>7, <1>8, <1>17, <2>1
    <3> QED
      BY <3>5, <3>6, <3>7, <3>8 DEF Got
  <2>2. CASE i = n - 1 /\ j # m
    <3>1. stack'[j].at # frames'[i].at
      BY <1>3, <1>4, <1>7, <1>10, <1>11, <2>2
    <3> QED
      BY <3>1 DEF Got
  <2>3. CASE i # n - 1 /\ j = m
    <3>1. stack'[j].at # frames'[i].at
      BY <1>3, <1>4, <1>7, <1>10, <1>11, <2>3
    <3> QED
      BY <3>1 DEF Got
  <2>4. CASE i # n - 1 /\ j # m
    <3>1. ElementStart(j)' = ElementStart(j) /\ frames'[i] = frames[i]
      BY <1>3, <1>8, <1>17, <2>4
    <3> QED
      BY <1>4, <1>7, <3>1, GotStays
  <2> QED
    BY <2>1, <2>2, <2>3, <2>4
<1>20. NestInv' /\ PathInv'
  BY <1>11, <1>12, <1>13, <1>15, <1>18, <1>19 DEF NestInv, PathInv
<1>21. frames'[1] = frames[1]
  <2>1. 1 \in 1 .. n - 2
    BY <1>3
  <2> QED
    BY <1>8, <2>1
<1>22. KidsInv'
  BY <1>7, <1>8, <1>21, KidsStay
<1> QED
  BY <1>4, <1>6, <1>7, <1>8, <1>20, <1>21, <1>22

-----------------------------------------------------------------------------
(* The invariant holds: what the decoder does within a call. *)

LEMMA OrderStays ==
  ASSUME OrderInv, UNCHANGED <<use, input, out>>,
         Streaming /\ outcome' \notin Errors => outcome \notin Errors /\ Begun' = Begun
  PROVE  OrderInv'
<1>1. Streaming' = Streaming
  BY DEF Streaming
<1>2. Delivered' = Delivered
  BY DEF Delivered
<1>3. EachInOrder => EachInOrder'
  BY DEF EachInOrder, Streaming, EndOf
<1> QED
  BY <1>1, <1>2, <1>3 DEF OrderInv

LEMMA InCall ==
  ASSUME CallsInv, frames # <<>>
  PROVE  outcome = "none" /\ outcome \notin Errors /\ outcome \notin {"unknown", "raised"}
BY DEF CallsInv, Errors

\* A call goes on.
LEMMA GoesOn ==
  ASSUME CallsInv, OrderInv, frames # <<>>, frames' # <<>>,
         Top'.op \in {"read", "skip", "proc"}, phase' \in {"run", "completed"},
         UNCHANGED <<use, input, out, outcome>>, Begun' = Begun
  PROVE  EmptyInv' /\ OrderInv' /\ EachDrains'
<1>1. outcome' = "none" /\ outcome \notin Errors
  BY InCall
<1>2. OrderInv'
  BY <1>1, OrderStays
<1>3. EachDrains'
  BY <1>1 DEF EachDrains
<1>4. EmptyInv'
  BY DEF EmptyInv, StackEmptyAfterCall, Containers
<1> QED
  BY <1>2, <1>3, <1>4

\* A call raises.
LEMMA FailKeeps ==
  ASSUME OrderInv, NEW kind \in Errors, Fail(kind), UNCHANGED <<use, input, out>>
  PROVE  /\ NestInv' /\ PathInv' /\ KidsInv' /\ CompletedInv'
         /\ EmptyInv' /\ OrderInv' /\ EachDrains'
<1>1. stack' = <<>> /\ frames' = <<>> /\ phase' = "idle" /\ outcome' = kind
  BY DEF Fail
<1>2. NestInv' /\ PathInv' /\ KidsInv'
  BY <1>1, EmptyNests
<1>3. CompletedInv'
  BY <1>1 DEF CompletedInv
<1>4. EmptyInv'
  BY <1>1 DEF EmptyInv, StackEmptyAfterCall
<1>5. OrderInv'
  BY <1>1, OrderStays
<1>6. EachDrains'
  BY <1>1 DEF EachDrains, Errors
<1> QED
  BY <1>2, <1>3, <1>4, <1>5, <1>6

\* The proc of an empty extension raises.
LEMMA RecursiveEmptyFails ==
  ASSUME Inv, UNCHANGED use, RecursiveEmpty, phase' # "completed"
  PROVE  StreamInv'
<1>1. Fail("raised") /\ UNCHANGED <<input, out>>
  BY DEF RecursiveEmpty, ObjectComplete
<1>2. HeadInv'
  BY <1>1 DEF HeadInv, Fail
<1>3. /\ NestInv' /\ PathInv' /\ KidsInv' /\ CompletedInv'
      /\ EmptyInv' /\ OrderInv' /\ EachDrains'
  BY <1>1, FailKeeps DEF Inv, StreamInv, Errors
<1> QED
  BY <1>2, <1>3 DEF StreamInv

LEMMA ScalarKeeps ==
  ASSUME SoundUses, Inv, UNCHANGED use, Scalar \/ RecursiveEmpty, phase' = "completed"
  PROVE  StreamInv'
<1>1. /\ frames # <<>> /\ Top.op \in {"read", "skip"}
      /\ UNCHANGED <<input, svars, frames, outcome, out>>
  BY DEF Scalar, RecursiveEmpty, Running, Fail
<1>2. HeadInv' /\ NestInv' /\ PathInv' /\ KidsInv' /\ CompletedInv' /\ Frontier' = Frontier
  BY ScalarNests DEF Inv, StreamInv
<1>3. Begun' = Begun
  BY <1>1, <1>2 DEF Begun, svars
<1>4. Top' = Top
  BY <1>1 DEF Top
<1>5. EmptyInv' /\ OrderInv' /\ EachDrains'
  BY <1>1, <1>3, <1>4, GoesOn DEF Inv, StreamInv
<1> QED
  BY <1>2, <1>5 DEF StreamInv

LEMMA RawBodyKeeps ==
  ASSUME SoundUses, Inv, UNCHANGED use, RawBody
  PROVE  StreamInv'
<1>0. frames # <<>> /\ Top.op \in {"read", "skip"}
  BY DEF RawBody, Running
<1>1. CASE /\ HeadInv' /\ NestInv' /\ PathInv' /\ KidsInv' /\ CompletedInv' /\ Frontier' = Frontier
           /\ phase' = "completed" /\ UNCHANGED <<input, fed, mode, out, nils, svars, frames, outcome>>
  <2>1. Begun' = Begun
    BY <1>1 DEF Begun, svars
  <2>2. Top' = Top
    BY <1>1 DEF Top
  <2>3. EmptyInv' /\ OrderInv' /\ EachDrains'
    BY <1>0, <1>1, <2>1, <2>2, GoesOn DEF Inv, StreamInv
  <2> QED
    BY <1>1, <2>3 DEF StreamInv
<1>2. CASE /\ outcome' \in {"unknown", "raised"} /\ Fail(outcome')
           /\ UNCHANGED <<input, fed, mode, out, nils>>
  <2>1. HeadInv'
    BY <1>2 DEF HeadInv
  <2>2. PICK kind \in Errors : kind \in {"unknown", "raised"} /\ Fail(kind)
    BY <1>2 DEF Errors
  <2>3. /\ NestInv' /\ PathInv' /\ KidsInv' /\ CompletedInv'
        /\ EmptyInv' /\ OrderInv' /\ EachDrains'
    BY <1>2, <2>2, FailKeeps DEF Inv, StreamInv
  <2> QED
    BY <2>1, <2>3 DEF StreamInv
<1> QED
  BY <1>1, <1>2, RawBodyNests DEF Inv, StreamInv

LEMMA ContainerKeeps ==
  ASSUME SoundUses, Inv, UNCHANGED use, Container
  PROVE  StreamInv'
<1>1. /\ frames # <<>> /\ Top.op \in {"read", "skip"} /\ phase = "run" /\ raw = 0 /\ CastReady
      /\ H.k \in Containers /\ pos' = AfterCast /\ head' = NoHead
      /\ UNCHANGED <<input, fed, raw, last, mode, out, nils>>
  BY DEF Container, Running
<1>2. CASE StackFull
  <2>1. Fail("deep") /\ "deep" \in Errors
    BY <1>2 DEF Container, Errors
  <2>2. HeadInv'
    <3>1. H.k \notin RawKinds
      BY <1>1 DEF Containers, RawKinds
    <3> QED
      BY <1>1, <3>1, HeadTaken DEF Inv, StreamInv
  <2>3. /\ NestInv' /\ PathInv' /\ KidsInv' /\ CompletedInv'
        /\ EmptyInv' /\ OrderInv' /\ EachDrains'
    BY <1>1, <2>1, FailKeeps DEF Inv, StreamInv
  <2> QED
    BY <2>2, <2>3 DEF StreamInv
<1>3. CASE ~ StackFull
  <2>1. UNCHANGED <<allocated, frames, phase, outcome>>
    BY <1>3 DEF Container
  <2>2. /\ HeadInv' /\ NestInv' /\ PathInv' /\ KidsInv'
        /\ Frontier = HAt /\ stack' # <<>> /\ stack'[1].at = IF stack = <<>> THEN HAt ELSE stack[1].at
    BY <1>3, ContainerNests DEF Inv, StreamInv
  <2>3. Begun' = Begun
    BY <2>2 DEF Begun
  <2>4. Top' = Top
    BY <2>1 DEF Top
  <2>5. EmptyInv' /\ OrderInv' /\ EachDrains'
    BY <1>1, <2>1, <2>3, <2>4, GoesOn DEF Inv, StreamInv
  <2>6. CompletedInv'
    BY <1>1, <2>1 DEF CompletedInv
  <2> QED
    BY <2>2, <2>5, <2>6 DEF StreamInv
<1> QED
  BY <1>2, <1>3

LEMMA RecursiveBeginKeeps ==
  ASSUME SoundUses, RoomForProcs, Inv, UNCHANGED use, RecursiveBegin
  PROVE  StreamInv'
<1>1. /\ frames # <<>> /\ phase = "run" /\ frames' = Append(frames, ProcFrame(HAt, H.n))
      /\ UNCHANGED <<input, phase, outcome, out>>
  BY DEF RecursiveBegin, Running
<1>2. /\ HeadInv' /\ NestInv' /\ PathInv' /\ KidsInv'
      /\ Frontier = HAt /\ stack' # <<>> /\ stack'[1].at = IF stack = <<>> THEN HAt ELSE stack[1].at
  BY RecursiveBeginNests DEF Inv, StreamInv
<1>3. Begun' = Begun
  BY <1>2 DEF Begun
<1>4. frames' # <<>> /\ Top'.op = "proc"
  <2>1. CastReady
    BY DEF RecursiveBegin
  <2>2. HAt \in Nat /\ H.n \in Nat
    BY <2>1, CastFacts DEF Inv
  <2>3. ProcFrame(HAt, H.n) \in Frames /\ ProcFrame(HAt, H.n).op = "proc"
    BY <2>2, EmptySeq DEF ProcFrame, Frames
  <2>4. frames \in Seq(Frames)
    BY TypeParts DEF Inv, FramesOK
  <2> QED
    BY <1>1, <2>3, <2>4, AppendIs DEF Top
<1>5. EmptyInv' /\ OrderInv' /\ EachDrains'
  BY <1>1, <1>3, <1>4, GoesOn DEF Inv, StreamInv
<1>6. CompletedInv'
  BY <1>1 DEF CompletedInv
<1> QED
  BY <1>2, <1>5, <1>6 DEF StreamInv

LEMMA InvalidByteKeeps ==
  ASSUME SoundUses, Inv, UNCHANGED use, InvalidByte
  PROVE  StreamInv'
<1>1. /\ frames # <<>> /\ raw = 0 /\ HeadReady /\ H.k = "bad" /\ pos' = AfterHead
      /\ Fail("malformed") /\ UNCHANGED <<input, out, hvars>> /\ "malformed" \in Errors
  BY DEF InvalidByte, Running, Errors
<1>2. /\ HAt \in 1 .. Len(input) /\ AfterHead = HAt /\ H = input[HAt] /\ ~ HeadKept
  BY <1>1, HeadHere DEF Inv, StreamInv
<1>3. Behind(input, HAt) = HAt + 1
  BY <1>1, <1>2, BadIsAlone DEF Inv
<1>4. HeadInv'
  <2>1. input[HAt].k # "data" /\ head' = NoHead /\ raw' = 0
    BY <1>1, <1>2 DEF HeadKept, hvars
  <2>2. pos' = HAt /\ pos' \in Nat
    BY <1>1, <1>2
  <2> QED
    BY <1>1, <1>2, <1>3, <2>1, <2>2, NextHead DEF Inv
<1>5. /\ NestInv' /\ PathInv' /\ KidsInv' /\ CompletedInv'
      /\ EmptyInv' /\ OrderInv' /\ EachDrains'
  BY <1>1, FailKeeps DEF Inv, StreamInv
<1> QED
  BY <1>4, <1>5 DEF StreamInv

LEMMA ProcReturnsKeeps ==
  ASSUME SoundUses, Inv, UNCHANGED use, ProcReturns
  PROVE  StreamInv'
<1>1. /\ frames # <<>> /\ phase = "run" /\ phase' = "completed" /\ stack # <<>>
      /\ UNCHANGED <<input, outcome, out>>
  BY DEF ProcReturns, Running, ObjectComplete
<1>2. /\ HeadInv' /\ NestInv' /\ PathInv' /\ KidsInv' /\ CompletedInv'
      /\ Frontier' = Last(stack).at /\ (stack' # <<>> => stack'[1] = stack[1])
      /\ (stack' = <<>> => stack[1] = Last(stack))
  BY ProcReturnsNests DEF Inv, StreamInv
<1>3. Begun' = Begun
  <2>1. CASE stack' = <<>>
    BY <1>1, <1>2, <2>1 DEF Begun
  <2>2. CASE stack' # <<>>
    BY <1>1, <1>2, <2>2 DEF Begun
  <2> QED
    BY <2>1, <2>2
<1>4. frames' # <<>> /\ Top'.op \in {"read", "skip"}
  <2>1. TypeOK' /\ CallsInv'
    BY ProcReturnsTypes DEF Inv
  <2>2. phase' \notin {"idle", "yield"} /\ (phase' = "completed" => Top'.op \in {"read", "skip"})
    BY <1>1, <2>1 DEF CallsInv
  <2> QED
    BY <1>1, <2>1, <2>2 DEF TypeOK
<1>5. EmptyInv' /\ OrderInv' /\ EachDrains'
  BY <1>1, <1>3, <1>4, GoesOn DEF Inv, StreamInv
<1> QED
  BY <1>2, <1>5 DEF StreamInv

LEMMA ProcFailsKeeps ==
  ASSUME SoundUses, Inv, UNCHANGED use, ProcFails
  PROVE  StreamInv'
<1>1. /\ frames # <<>> /\ Fail("rec_raised") /\ "rec_raised" \in Errors
      /\ UNCHANGED <<input, pos, hvars, out>>
  BY DEF ProcFails, Running, Errors
<1>2. HeadInv'
  BY <1>1, InCall, HeadStays DEF Inv, StreamInv
<1>3. /\ NestInv' /\ PathInv' /\ KidsInv' /\ CompletedInv'
      /\ EmptyInv' /\ OrderInv' /\ EachDrains'
  BY <1>1, FailKeeps DEF Inv, StreamInv
<1> QED
  BY <1>2, <1>3 DEF StreamInv

\* The owner gets what comes next.
LEMMA OrderGrows ==
  ASSUME UNCHANGED <<use, input>>, EachInOrder, Streaming, out \in Seq(Results),
         NEW r \in Results, out' = Append(out, r), r.at = Delivered + 1,
         r.whole => r.to = EndOf(r.at)
  PROVE  EachInOrder' /\ Delivered' = r.to
<1>n. PICK n \in Nat : n = Len(out)
  OBVIOUS
<1>1. /\ out' # <<>> /\ DOMAIN out' = 1 .. n + 1 /\ DOMAIN out = 1 .. n
      /\ \A i \in 1 .. n : out'[i] = out[i]
      /\ out'[n + 1] = r /\ Last(out') = r
  <2>1. /\ Append(out, r) \in Seq(Results) /\ Append(out, r) # <<>>
        /\ Len(Append(out, r)) = Len(out) + 1
        /\ \A i \in 1 .. Len(out) : Append(out, r)[i] = out[i]
        /\ Append(out, r)[Len(out) + 1] = r
        /\ Last(Append(out, r)) = r
    BY AppendIs
  <2>2. /\ out' \in Seq(Results) /\ out' # <<>> /\ Len(out') = n + 1
        /\ \A i \in 1 .. n : out'[i] = out[i]
        /\ out'[n + 1] = r /\ Last(out') = r
    BY <1>n, <2>1
  <2> QED
    BY <1>n, <2>2
<1>2. Delivered' = r.to
  BY <1>1 DEF Delivered
<1>3. Delivered = IF n = 0 THEN 0 ELSE out[n].to
  <2>1. CASE n = 0
    BY <1>n, <2>1, EmptySeq DEF Delivered
  <2>2. CASE n # 0
    <3>1. out # <<>>
      BY <1>n, <2>2
    <3> QED
      BY <1>n, <2>2, <3>1, FrontIs DEF Delivered
  <2> QED
    BY <2>1, <2>2
<1>4. EachInOrder'
  <2> SUFFICES ASSUME NEW i \in 1 .. n + 1
               PROVE  /\ out'[i].at = (IF i = 1 THEN 0 ELSE out'[i - 1].to) + 1
                      /\ out'[i].whole => out'[i].to = ObjectsEnd(input, out'[i].at, 1)
    BY <1>1 DEF EachInOrder, EndOf
  <2>1. CASE i \in 1 .. n
    <3>1. /\ out[i].at = (IF i = 1 THEN 0 ELSE out[i - 1].to) + 1
          /\ out[i].whole => out[i].to = EndOf(out[i].at)
      BY <1>1, <2>1 DEF EachInOrder
    <3>2. i # 1 => out'[i - 1] = out[i - 1]
      <4>1. i # 1 => i - 1 \in 1 .. n
        BY <2>1
      <4> QED
        BY <1>1, <4>1
    <3>3. out'[i] = out[i]
      BY <1>1, <2>1
    <3> QED
      BY <3>1, <3>2, <3>3 DEF EndOf
  <2>2. CASE i = n + 1
    <3>1. out'[i] = r /\ (i # 1 => n # 0 /\ i - 1 = n /\ n \in 1 .. n)
      BY <1>1, <2>2
    <3>2. r.at = (IF i = 1 THEN 0 ELSE out'[i - 1].to) + 1
      <4>1. CASE i = 1
        <5>1. n = 0
          BY <2>2, <4>1
        <5> QED
          BY <1>3, <4>1, <5>1
      <4>2. CASE i # 1
        BY <1>1, <1>3, <3>1, <4>2
      <4> QED
        BY <4>1, <4>2
    <3>3. r.whole => r.to = ObjectsEnd(input, r.at, 1)
      BY DEF EndOf
    <3> QED
      BY <3>1, <3>2, <3>3
  <2>3. i \in 1 .. n \/ i = n + 1
    OBVIOUS
  <2> QED
    BY <2>1, <2>2, <2>3
<1> QED
  BY <1>2, <1>4

\* The owner's call returns.
LEMMA ReturnKeeps ==
  ASSUME SoundUses, Inv, phase = "completed", Len(frames) = 1, frames # <<>>,
         NEW o \in Objects, o.at = Begun, o.to = pos, EndOf(o.at) = pos,
         NEW st \in Seq(Entries), st = <<>>, Return(o, st),
         UNCHANGED <<use, input, fed, pos, hvars, mode>>
  PROVE  StreamInv'
<1>1. /\ frames' = <<>> /\ stack' = <<>> /\ phase' \in {"yield", "idle"}
      /\ IF mode = "full" /\ Avail > 0
         THEN outcome' = "extra" /\ UNCHANGED out
         ELSE outcome' = "ok" /\ out' = Append(out, [at |-> o.at, to |-> o.to, whole |-> TRUE])
  BY DEF Return
<1>2. HeadInv' /\ HAt' = HAt /\ HAt = pos + 1
  <2>1. ~ HeadKept
    BY DEF Inv, StreamInv, CompletedInv
  <2> QED
    BY <2>1, InCall, HeadStays DEF Inv, StreamInv, HAt
<1>3. NestInv' /\ PathInv' /\ KidsInv'
  BY <1>1, EmptyNests
<1>4. CompletedInv'
  BY <1>1 DEF CompletedInv
<1>5. EmptyInv'
  BY <1>1 DEF EmptyInv, StackEmptyAfterCall
<1>6. EachDrains'
  BY <1>1 DEF EachDrains
<1>7. OrderInv'
  <2> SUFFICES ASSUME Streaming' PROVE EachInOrder' /\ Delivered' + 1 = Begun'
    BY DEF OrderInv
  <2>1. Streaming
    BY DEF Streaming
  <2>2. mode # "full"
    BY <2>1, TypeParts DEF Inv, RestOK, Streaming
  <2>3. outcome \notin Errors /\ EachInOrder /\ Delivered + 1 = Begun
    BY <2>1, InCall DEF Inv, StreamInv, OrderInv
  <2>r. PICK r \in Results : r = [at |-> o.at, to |-> o.to, whole |-> TRUE]
    BY DEF Objects, Results
  <2>4. r.at = o.at /\ r.to = o.to
    BY <2>r
  <2>5. EachInOrder' /\ Delivered' = pos
    <3>1. out' = Append(out, r) /\ out \in Seq(Results)
      BY <1>1, <2>2, <2>r, TypeParts DEF Inv, RestOK
    <3>2. r.at = Delivered + 1 /\ r.to = EndOf(r.at)
      BY <2>3, <2>4
    <3> QED
      BY <2>1, <2>3, <2>4, <3>1, <3>2, OrderGrows
  <2>6. Begun' = pos + 1
    BY <1>1, <1>2 DEF Begun, Frontier
  <2> QED
    BY <2>5, <2>6
<1> QED
  BY <1>2, <1>3, <1>4, <1>5, <1>6, <1>7 DEF StreamInv

\* An object that was completed is stored, handed to a proc or returned.
LEMMA CompletedKeeps ==
  ASSUME SoundUses, Inv, UNCHANGED use, Completed
  PROVE  StreamInv'
<1>1. /\ phase = "completed" /\ UNCHANGED <<input, fed, pos, hvars, mode, nils>>
      /\ frames # <<>> /\ Top.op \in {"read", "skip"}
  <2>1. phase = "completed" /\ UNCHANGED <<input, fed, pos, hvars, mode, nils>>
    BY CompletedCases
  <2> QED
    BY <2>1, TypeParts DEF Inv, FramesOK, CallsInv
<1>2. /\ last \in Objects /\ last.to = pos /\ EndOf(last.at) = pos /\ Frontier = last.at
      /\ <<>> \in Seq(Entries) /\ stack \in Seq(Entries)
  <2>1. last \in Objects
    BY TypeParts DEF Inv, RestOK
  <2> QED
    BY <1>1, <2>1, EmptySeq, StackFacts DEF Inv, StreamInv, CompletedInv, ObjectsGenuine, Frontier
<1>3. HeadInv'
  BY <1>1, InCall, HeadStays DEF Inv, StreamInv
<1>4. ASSUME stack = <<>> \/ (Top.op = "read" /\ Last(stack).type = "rec"),
             Return(last, stack), UNCHANGED last
      PROVE  StreamInv'
  <2>1. CASE Len(frames) = 1
    <3>1. stack = <<>>
      <4>1. RecEntries = {}
        BY <1>1, <2>1, OneCall DEF Inv, StreamInv
      <4>2. stack # <<>> => Last(stack) = stack[Len(stack)] /\ Len(stack) \in DOMAIN stack
        <5>1. stack # <<>> => Len(stack) >= 1 /\ Last(stack) = stack[Len(stack)]
          BY StackFacts DEF Inv
        <5>2. Len(stack) \in Nat /\ DOMAIN stack = 1 .. Len(stack)
          BY StackFacts DEF Inv
        <5> QED
          BY <5>1, <5>2
      <4> QED
        BY <1>4, <4>1, <4>2 DEF RecEntries
    <3>2. Begun = last.at
      BY <1>2, <3>1 DEF Begun
    <3> QED
      BY <1>1, <1>2, <1>4, <2>1, <3>1, <3>2, ReturnKeeps
  <2>2. CASE Len(frames) # 1
    <3>1. Top.op # "proc" /\ stack # <<>> /\ Last(stack).type = "rec"
      <4>1. stack # <<>>
        BY <1>1, <2>2, NestedCall DEF Inv, StreamInv
      <4> QED
        BY <1>1, <1>4, <4>1
    <3>2. /\ NestInv' /\ PathInv' /\ KidsInv' /\ UNCHANGED <<stack, outcome, out>>
          /\ phase' = "run" /\ frames' # <<>> /\ Top'.op = "proc"
      BY <1>1, <1>4, <2>2, <3>1, ReturnNests DEF Inv, StreamInv
    <3>3. Begun' = Begun
      BY <3>1, <3>2 DEF Begun
    <3>4. EmptyInv' /\ OrderInv' /\ EachDrains'
      BY <1>1, <3>2, <3>3, GoesOn DEF Inv, StreamInv
    <3>5. CompletedInv'
      BY <3>2 DEF CompletedInv
    <3> QED
      BY <1>3, <3>2, <3>4, <3>5 DEF StreamInv
  <2> QED
    BY <2>1, <2>2
<1>5. ASSUME stack # <<>>, ~(Top.op = "read" /\ Last(stack).type = "rec"), ~ IsFull(Filled),
             stack' = Push(stack, Counted), phase' = "run",
             UNCHANGED <<allocated, frames, last, outcome, out>>
      PROVE  StreamInv'
  <2>1. NestInv' /\ PathInv' /\ KidsInv' /\ stack' # <<>> /\ stack'[1].at = stack[1].at
    BY <1>1, <1>5, StoreNests DEF Inv, StreamInv
  <2>2. Begun' = Begun
    BY <1>5, <2>1 DEF Begun
  <2>3. Top' = Top
    BY <1>5 DEF Top
  <2>4. EmptyInv' /\ OrderInv' /\ EachDrains'
    BY <1>1, <1>5, <2>2, <2>3, GoesOn DEF Inv, StreamInv
  <2>5. CompletedInv'
    BY <1>5 DEF CompletedInv
  <2> QED
    BY <1>3, <2>1, <2>4, <2>5 DEF StreamInv
<1>6. ASSUME stack # <<>>, ~(Top.op = "read" /\ Last(stack).type = "rec"), IsFull(Filled),
             last' = Whole, Len(stack) = 1, Return(Whole, <<>>)
      PROVE  StreamInv'
  <2>1. /\ Whole \in Objects /\ Whole.at = Last(stack).at /\ Whole.to = pos
        /\ EndOf(Whole.at) = pos
    BY <1>1, <1>6, WholeIs DEF Inv, StreamInv
  <2>2. Begun = Whole.at
    BY <1>6, <2>1, StackFacts DEF Inv, Begun
  <2>3. Len(frames) = 1
    <3>1. 1 \notin RecEntries /\ DOMAIN stack = 1 .. 1
      BY <1>1, <1>6, EntryOnTop DEF Inv, StreamInv
    <3>2. RecEntries = {}
      BY <3>1 DEF RecEntries
    <3> QED
      BY <1>1, <3>2, NestedCall DEF Inv, StreamInv
  <2> QED
    BY <1>1, <1>2, <1>6, <2>1, <2>2, <2>3, ReturnKeeps
<1>7. ASSUME stack # <<>>, ~(Top.op = "read" /\ Last(stack).type = "rec"), IsFull(Filled),
             last' = Whole, Len(stack) # 1, stack' = Front(stack),
             UNCHANGED <<allocated, frames, phase, outcome, out>>
      PROVE  StreamInv'
  <2>1. NestInv' /\ PathInv' /\ KidsInv' /\ CompletedInv' /\ stack' # <<>> /\ stack'[1] = stack[1]
    BY <1>1, <1>7, WholeNests DEF Inv, StreamInv
  <2>2. Begun' = Begun
    BY <1>7, <2>1 DEF Begun
  <2>3. Top' = Top
    BY <1>7 DEF Top
  <2>4. EmptyInv' /\ OrderInv' /\ EachDrains'
    BY <1>1, <1>7, <2>2, <2>3, GoesOn DEF Inv, StreamInv
  <2> QED
    BY <1>3, <2>1, <2>4 DEF StreamInv
<1> QED
  BY <1>4, <1>5, <1>6, <1>7, CompletedCases

-----------------------------------------------------------------------------
(* The invariant holds: what the owner, its IO and the procs do. *)

LEMMA ReadFrameIs ==
  ASSUME NEW op \in {"read", "skip", "skip_nil"} \cup Containers, NEW own \in BOOLEAN
  PROVE  ReadFrame(op, own) \in Frames /\ ReadFrame(op, own).op = op
BY EmptySeq DEF ReadFrame, Frames

LEMMA SingleIs ==
  ASSUME NEW f \in Frames
  PROVE  /\ <<f>> # <<>> /\ Len(<<f>>) = 1 /\ <<f>> \in Seq(Frames) /\ <<f>>[1] = f
         /\ Last(<<f>>) = f
<1>1. <<f>> # <<>> /\ Len(<<f>>) = 1 /\ <<f>> \in Seq(Frames) /\ <<f>>[1] = f
  OBVIOUS
<1>2. Last(<<f>>) = <<f>>[Len(<<f>>)]
  BY <1>1, FrontIs
<1> QED
  BY <1>1, <1>2

\* A call of the owner that has not read a byte, or the end of one.
LEMMA OwnerKeeps ==
  ASSUME Inv, frames = <<>>, UNCHANGED <<use, input, pos, hvars, stack, out>>,
         frames' = <<>> \/ (Len(frames') = 1 /\ frames' \in Seq(Frames) /\ frames'[1].op # "proc"),
         phase' # "completed",
         outcome' \notin {"unknown", "raised"} => outcome \notin {"unknown", "raised"},
         Streaming /\ outcome' \notin Errors => outcome \notin Errors
  PROVE  HeadInv' /\ NestInv' /\ PathInv' /\ KidsInv' /\ CompletedInv' /\ OrderInv'
<1>1. HeadInv'
  <2>1. CASE outcome' \in {"unknown", "raised"}
    BY <2>1 DEF HeadInv
  <2>2. CASE outcome' \notin {"unknown", "raised"}
    BY <2>2, HeadStays DEF Inv, StreamInv
  <2> QED
    BY <2>1, <2>2
<1>2. phase # "completed"
  BY TypeParts DEF Inv, FramesOK
<1>3. Frontier' = Frontier
  BY <1>2 DEF Frontier, HAt, HeadKept, hvars
<1>4. ProcFrames = {} /\ ProcFrames' = {}
  <2>1. ProcFrames = {}
    BY NoCall DEF Inv, StreamInv
  <2>2. DOMAIN frames' \subseteq {1} /\ (1 \in DOMAIN frames' => frames'[1].op # "proc")
    <3>1. CASE frames' = <<>>
      BY <3>1
    <3>2. CASE frames' # <<>>
      <4>1. DOMAIN frames' = 1 .. 1
        BY <3>2
      <4> QED
        BY <3>2, <4>1
    <3> QED
      BY <3>1, <3>2
  <2> QED
    BY <2>1, <2>2 DEF ProcFrames
<1>5. ~(frames' # <<>> /\ Top'.op = "proc")
  <2> SUFFICES ASSUME frames' # <<>> PROVE Top'.op # "proc"
    OBVIOUS
  <2>1. Last(frames') = frames'[Len(frames')]
    BY FrontIs
  <2> QED
    BY <2>1 DEF Top
<1>6. pos \in Nat
  BY DataFacts DEF Inv
<1>7. NestInv' /\ PathInv'
  BY <1>3, <1>4, <1>5, <1>6, StillNests DEF Inv, StreamInv
<1>8. KidsInv'
  BY KidsStay DEF Inv, StreamInv
<1>9. CompletedInv'
  BY DEF CompletedInv
<1>10. Begun' = Begun
  BY <1>3 DEF Begun
<1>11. OrderInv'
  BY <1>10, OrderStays DEF Inv, StreamInv
<1> QED
  BY <1>1, <1>7, <1>8, <1>9, <1>11

LEMMA AtRest ==
  ASSUME TypeOK
  PROVE  phase \in {"idle", "yield"} <=> frames = <<>>
BY TypeParts DEF FramesOK

\* Errors after which the owner goes on.
LEMMA UsableIs ==
  ASSUME SoundUses, Inv, Usable
  PROVE  /\ outcome \notin {"unknown", "raised"}
         /\ Streaming => outcome \notin Errors
<1>1. use.go_on \subseteq Errors \ {"unknown", "raised"}
  BY UseFacts DEF Inv
<1>2. outcome \notin {"unknown", "raised"}
  BY <1>1 DEF Usable, Errors
<1>3. Streaming => outcome \notin Errors
  BY DEF Usable, Streaming
<1> QED
  BY <1>2, <1>3

LEMMA FeedKeeps ==
  ASSUME SoundUses, Inv, UNCHANGED use, NEW n \in 1 .. Len(input), Feed(n)
  PROVE  StreamInv'
<1>1. /\ frames = <<>> /\ frames' = <<>> /\ outcome' = "none" /\ phase' # "completed"
      /\ UNCHANGED <<use, input, pos, hvars, stack, out>>
  BY AtRest DEF Feed, Inv, svars
<1>2. HeadInv' /\ NestInv' /\ PathInv' /\ KidsInv' /\ CompletedInv' /\ OrderInv'
  <2>1. Usable
    BY DEF Feed
  <2> QED
    BY <1>1, <2>1, UsableIs, OwnerKeeps
<1>3. EmptyInv'
  BY <1>1 DEF Inv, StreamInv, EmptyInv, StackEmptyAfterCall, KeepsStack, Errors
<1>4. EachDrains'
  BY <1>1 DEF EachDrains
<1> QED
  BY <1>2, <1>3, <1>4 DEF StreamInv

LEMMA BreakKeeps ==
  ASSUME SoundUses, Inv, UNCHANGED use, Break
  PROVE  StreamInv'
<1>1. /\ phase = "yield" /\ frames = <<>> /\ frames' = <<>> /\ phase' = "idle"
      /\ UNCHANGED <<use, input, pos, hvars, stack, out, outcome, mode>>
  BY AtRest DEF Break, Inv, svars
<1>2. HeadInv' /\ NestInv' /\ PathInv' /\ KidsInv' /\ CompletedInv' /\ OrderInv'
  BY <1>1, OwnerKeeps
<1>3. EmptyInv'
  BY <1>1 DEF Inv, StreamInv, EmptyInv, StackEmptyAfterCall, KeepsStack
<1>4. EachDrains'
  BY <1>1 DEF Inv, CallsInv, EachDrains
<1> QED
  BY <1>2, <1>3, <1>4 DEF StreamInv

\* Call and NextTurn.
LEMMA BeginKeeps ==
  ASSUME SoundUses, Inv, UNCHANGED use, NEW op \in {"read", "each", "skip", "full"},
         op \in use.ops, Begin(op), frames = <<>>,
         outcome \notin {"unknown", "raised"}, Streaming => outcome \notin Errors
  PROVE  StreamInv'
<1>f. PICK f \in Frames : /\ f = ReadFrame(IF op = "skip" THEN "skip" ELSE "read", ~ allocated)
                          /\ f.op \in {"read", "skip"}
  <2> DEFINE o == IF op = "skip" THEN "skip" ELSE "read"
             w == ~ allocated
  <2>1. w \in BOOLEAN /\ o \in {"read", "skip"}
    BY TypeParts DEF Inv, StackOK
  <2> HIDE DEF o, w
  <2>2. ReadFrame(o, w) \in Frames /\ ReadFrame(o, w).op = o
    BY <2>1, ReadFrameIs
  <2> QED
    BY <2>1, <2>2 DEF o, w
<1>1. /\ frames' = <<f>> /\ phase' = "run" /\ outcome' = "none" /\ stack' = stack
      /\ UNCHANGED <<use, input, pos, hvars, stack, out>>
  BY <1>f, BeginTypes DEF Begin, Inv
<1>2. frames' # <<>> /\ Len(frames') = 1 /\ frames' \in Seq(Frames) /\ frames'[1] = f /\ Top' = f
  BY <1>1, SingleIs DEF Top
<1>3. HeadInv' /\ NestInv' /\ PathInv' /\ KidsInv' /\ CompletedInv' /\ OrderInv'
  BY <1>f, <1>1, <1>2, OwnerKeeps
<1>4. EmptyInv'
  BY <1>f, <1>1, <1>2 DEF EmptyInv, StackEmptyAfterCall, Containers
<1>5. EachDrains'
  BY <1>1 DEF EachDrains
<1> QED
  BY <1>3, <1>4, <1>5 DEF StreamInv

LEMMA CallKeeps ==
  ASSUME SoundUses, Inv, UNCHANGED use, NEW op \in {"read", "each", "skip", "full"}, Call(op)
  PROVE  StreamInv'
BY UsableIs, AtRest, BeginKeeps DEF Call, Inv

LEMMA NextTurnKeeps ==
  ASSUME SoundUses, Inv, UNCHANGED use, NextTurn
  PROVE  StreamInv'
<1>1. Begin("each") /\ "each" \in use.ops /\ phase = "yield"
  BY NextTurnIs DEF Inv
<1>2. outcome \notin {"unknown", "raised"} /\ outcome \notin Errors /\ frames = <<>>
  BY <1>1, AtRest DEF Inv, CallsInv, Errors
<1> QED
  BY <1>1, <1>2, BeginKeeps

LEMMA CallHeaderKeeps ==
  ASSUME SoundUses, Inv, UNCHANGED use, NEW op \in Containers \cup {"skip_nil"}, CallHeader(op)
  PROVE  StreamInv'
<1>f. PICK f \in Frames : f = ReadFrame(op, FALSE) /\ f.op = op
  BY ReadFrameIs
<1>1. /\ phase = "idle" /\ Usable /\ frames = <<>>
      /\ frames' = <<f>> /\ phase' = "run" /\ outcome' = "none"
      /\ UNCHANGED <<use, input, pos, hvars, stack, out>>
      /\ op # "skip_nil" => "header" \in use.ops /\ (HasIo => stack = <<>>)
  BY <1>f, AtRest DEF CallHeader, Inv, svars
<1>2. frames' # <<>> /\ Len(frames') = 1 /\ frames' \in Seq(Frames) /\ frames'[1] = f /\ Top' = f
  BY <1>1, SingleIs DEF Top
<1>3. HeadInv' /\ NestInv' /\ PathInv' /\ KidsInv' /\ CompletedInv' /\ OrderInv'
  <2>1. f.op # "proc"
    BY <1>f DEF Containers
  <2> QED
    BY <1>1, <1>2, <2>1, UsableIs, OwnerKeeps
<1>4. ~ KeepsStack(use) => stack = <<>>
  BY <1>1 DEF Inv, StreamInv, EmptyInv
<1>5. op # "skip_nil" => stack = <<>>
  <2>1. "header" \in use.ops /\ "each" \in use.ops => use.io
    BY UseFacts DEF Inv
  <2> QED
    BY <1>1, <1>4, <2>1 DEF KeepsStack, HasIo
<1>6. EmptyInv'
  BY <1>f, <1>1, <1>2, <1>4, <1>5 DEF EmptyInv, StackEmptyAfterCall, Containers, KeepsStack
<1>7. EachDrains'
  BY <1>1 DEF EachDrains
<1> QED
  BY <1>3, <1>6, <1>7 DEF StreamInv

\* Another stream.
LEMMA FreshStream ==
  ASSUME SoundUses, use' \in Uses, input' \in use'.streams, fed' = 0, pos' = 0,
         head' = NoHead, head_at' = 0, raw' = 0, stack' = <<>>, frames' = <<>>,
         phase' = "idle", out' = <<>>, outcome' = "none"
  PROVE  StreamInv'
<1>1. WellFormed(input') /\ Len(input') \in Nat
  BY UnpackerAssumption DEF SoundUses, SoundUse
<1>2. HeadInv'
  <2>1. 0 < Len(input') => input'[1].k # "data"
    BY <1>1, EmptySeq DEF WellFormed
  <2> QED
    BY <2>1 DEF HeadInv, HeadKept
<1>3. NestInv' /\ PathInv' /\ KidsInv'
  BY EmptyNests
<1>4. CompletedInv' /\ EmptyInv' /\ EachDrains'
  BY DEF CompletedInv, EmptyInv, StackEmptyAfterCall, EachDrains
<1>5. OrderInv'
  BY DEF OrderInv, EachInOrder, Delivered, Begun, Frontier, HAt, HeadKept
<1> QED
  BY <1>2, <1>3, <1>4, <1>5 DEF StreamInv

LEMMA ResetKeeps ==
  ASSUME SoundUses, Inv, UNCHANGED use, Reset
  PROVE  StreamInv'
<1>1. frames = <<>> /\ use \in Uses
  BY AtRest, TypeParts DEF Reset, Inv
<1> QED
  BY <1>1, FreshStream DEF Reset

LEMMA IoDeliversKeeps ==
  ASSUME SoundUses, Inv, UNCHANGED use, NEW n \in 1 .. Len(input), IoDelivers(n)
  PROVE  StreamInv'
<1>1. /\ frames # <<>> /\ phase = "run" /\ Top.op \in {"read", "skip", "skip_nil"} \cup Containers
      /\ UNCHANGED <<use, input, pos, hvars, svars, stack, frames, phase, last, mode, outcome, out>>
  BY DEF IoDelivers, Running, svars
<1>2. HeadInv' /\ Frontier' = Frontier /\ outcome = "none"
  BY <1>1, InCall, HeadStays DEF Inv, StreamInv, Frontier
<1>3. Top' = Top /\ ProcFrames' = ProcFrames /\ pos \in Nat /\ pos' = pos
  BY <1>1, DataFacts DEF Inv, Top, ProcFrames
<1>4. NestInv' /\ PathInv'
  BY <1>1, <1>2, <1>3, StillNests DEF Inv, StreamInv, Containers
<1>5. KidsInv'
  BY <1>1, KidsStay DEF Inv, StreamInv
<1>6. CompletedInv'
  BY <1>1 DEF CompletedInv
<1>7. Begun' = Begun
  BY <1>1, <1>2 DEF Begun
<1>8. OrderInv'
  BY <1>1, <1>2, <1>7, InCall, OrderStays DEF Inv, StreamInv
<1>9. EmptyInv'
  BY <1>1, <1>3 DEF Inv, StreamInv, EmptyInv, StackEmptyAfterCall, KeepsStack
<1>10. EachDrains'
  BY <1>1, <1>2 DEF EachDrains
<1> QED
  BY <1>2, <1>4, <1>5, <1>6, <1>8, <1>9, <1>10 DEF StreamInv

\* The proc calls read.
LEMMA ProcCallsKeeps ==
  ASSUME SoundUses, Inv, UNCHANGED use, NEW op \in {"read", "skip"}, ProcCalls(op)
  PROVE  StreamInv'
<1>f. PICK f \in Frames : f = ReadFrame(op, ~ allocated) /\ f.op = op
  <2> DEFINE w == ~ allocated
  <2>1. w \in BOOLEAN
    BY TypeParts DEF Inv, StackOK
  <2> HIDE DEF w
  <2>2. ReadFrame(op, w) \in Frames /\ ReadFrame(op, w).op = op
    BY <2>1, ReadFrameIs
  <2> QED
    BY <2>2 DEF w
<1>1. /\ frames # <<>> /\ phase = "run" /\ frames' = Append(frames, f)
      /\ UNCHANGED <<use, input, pos, hvars, stack, phase, last, outcome, out>>
  BY <1>f DEF ProcCalls, Running, svars
<1>2. PICK n \in Nat : n = Len(frames)
  BY <1>1, FrameFacts DEF Inv
<1>3. /\ frames' # <<>> /\ DOMAIN frames = 1 .. n /\ DOMAIN frames' = 1 .. n + 1 /\ n >= 1
      /\ \A i \in 1 .. n : frames'[i] = frames[i]
      /\ frames'[n + 1] = f /\ Top' = f
  <2>1. frames \in Seq(Frames) /\ DOMAIN frames = 1 .. n /\ n >= 1
    BY <1>1, <1>2, FrameFacts, TypeParts DEF Inv, FramesOK
  <2>2. /\ frames' \in Seq(Frames) /\ frames' # <<>> /\ Len(frames') = n + 1
        /\ \A i \in 1 .. n : frames'[i] = frames[i]
        /\ frames'[n + 1] = f /\ Last(frames') = f
    BY <1>1, <1>2, <2>1, AppendIs
  <2> QED
    BY <2>1, <2>2 DEF Top
<1>4. ProcFrames' = ProcFrames /\ \A i \in ProcFrames : frames'[i] = frames[i]
  <2>1. \A i \in 1 .. n + 1 : i = n + 1 \/ i \in 1 .. n
    OBVIOUS
  <2>2. \A i \in 1 .. n : i \in 1 .. n + 1
    OBVIOUS
  <2> QED
    BY <1>f, <1>3, <2>1, <2>2 DEF ProcFrames
<1>5. HeadInv' /\ Frontier' = Frontier
  BY <1>1, InCall, HeadStays DEF Inv, StreamInv, Frontier
<1>6. NestInv' /\ PathInv'
  <2>1. ~(frames' # <<>> /\ Top'.op = "proc")
    BY <1>f, <1>3
  <2>2. pos' \in Nat /\ pos <= pos'
    BY <1>1, DataFacts DEF Inv
  <2> QED
    BY <1>1, <1>4, <1>5, <2>1, <2>2, StillNests DEF Inv, StreamInv
<1>7. KidsInv'
  <2>1. frames'[1] = frames[1]
    BY <1>3
  <2> QED
    BY <1>1, <1>3, <2>1, KidsStay DEF Inv, StreamInv
<1>8. CompletedInv'
  BY <1>1 DEF CompletedInv
<1>9. Begun' = Begun
  BY <1>1, <1>5 DEF Begun
<1>10. EmptyInv' /\ OrderInv' /\ EachDrains'
  BY <1>f, <1>1, <1>3, <1>9, GoesOn DEF Inv, StreamInv
<1> QED
  BY <1>5, <1>6, <1>7, <1>8, <1>10 DEF StreamInv

\* The objects that an object lies in end where it ends, or later.
LEMMA CutOff ==
  ASSUME TypeOK, NestInv, PathInv, RecEntries = {},
         Frontier \in 1 .. Len(input) + 1, EndOf(Frontier) > fed
  PROVE  EndOf(Begun) > fed
<1>1. PICK m \in Nat : m = Len(stack)
  BY StackFacts
<1>2. DOMAIN stack = 1 .. m /\ input \in Seq(Byte) /\ fed \in Nat /\ Len(input) \in Nat
  BY <1>1, StackFacts, DataFacts
<1> DEFINE B == {j \in 1 .. m : ~(EndOf(stack[j].at) > fed)}
<1>3. \A j \in 1 .. m : (\A k \in j + 1 .. m : k \notin B) => j \notin B
  <2> SUFFICES ASSUME NEW j \in 1 .. m, \A k \in j + 1 .. m : k \notin B
               PROVE  EndOf(stack[j].at) > fed
    OBVIOUS
  <2>e. PICK e \in Entries : e = stack[j]
    BY <1>2, EntryHere
  <2>n. PICK n \in Nat : n = Elements(input[e.at])
    BY <1>2, <2>e, EntryHere
  <2>1. /\ e.at \in 1 .. Len(input) /\ IsOpen(input, e.at) /\ ElementStart(j) \in Nat
    BY <1>2, <2>e, EntryHere
  <2>2. e.type # "rec"
    BY <1>2, <2>e DEF RecEntries
  <2>3. e.count <= n /\ ElementStart(j) = ElementAt(input, e.at, n - e.count + 1)
    BY <1>2, <2>2, <2>e, <2>n DEF PathInv, Counts
  <2>k. PICK k \in Nat : k = n - e.count + 1 /\ k # 0 /\ k <= n
    BY <2>3, EntryFields
  <2>4. ElementStart(j) \in 1 .. Len(input) + 1 /\ EndOf(ElementStart(j)) > fed
    <3>1. CASE j < m
      <4>1. j + 1 \in j + 1 .. m /\ j + 1 \in 1 .. m
        BY <3>1
      <4>2. ElementStart(j) = stack[j + 1].at
        BY <1>1, <3>1 DEF ElementStart
      <4>3. EndOf(stack[j + 1].at) > fed
        BY <4>1
      <4>4. stack[j + 1].at \in 1 .. Len(input)
        BY <1>2, <4>1, EntryHere
      <4> QED
        BY <1>2, <4>2, <4>3, <4>4
    <3>2. CASE ~(j < m)
      <4>1. ElementStart(j) = Frontier
        BY <1>1, <3>2 DEF ElementStart
      <4> QED
        BY <4>1
    <3> QED
      BY <3>1, <3>2
  <2>5. ObjectsEnd(input, ElementAt(input, e.at, k), 1) <= ObjectsEnd(input, e.at, 1)
    BY <1>2, <2>1, <2>3, <2>4, <2>k, <2>n, EndInside
  <2>6. EndOf(ElementStart(j)) <= EndOf(e.at)
    BY <2>3, <2>5, <2>k DEF EndOf
  <2>7. EndOf(ElementStart(j)) \in Nat /\ EndOf(e.at) \in Nat
    <3>1. ElementStart(j) \in 1 .. Len(input) + 1 /\ e.at \in 1 .. Len(input) + 1 /\ 1 \in Nat /\ 1 # 0
      BY <1>2, <2>1, <2>4
    <3>2. /\ ObjectsEnd(input, ElementStart(j), 1) \in ElementStart(j) .. Len(input) + 1
          /\ ObjectsEnd(input, e.at, 1) \in e.at .. Len(input) + 1
      BY <1>2, <3>1, EndRange
    <3>3. ElementStart(j) \in Nat /\ e.at \in Nat
      BY <1>2, <3>1
    <3> QED
      BY <1>2, <3>2, <3>3 DEF EndOf
  <2> DEFINE a == EndOf(ElementStart(j))
             b == EndOf(e.at)
  <2>8. a \in Nat /\ b \in Nat /\ a > fed /\ a <= b
    BY <2>4, <2>6, <2>7
  <2> HIDE DEF a, b
  <2>9. b > fed
    BY <1>2, <2>8
  <2> QED
    BY <2>9, <2>e DEF b
<1>4. B = {}
  <2>1. B \subseteq 1 .. m
    OBVIOUS
  <2> HIDE DEF B
  <2> QED
    BY <1>3, <2>1, Descend
<1>5. CASE stack = <<>>
  BY <1>5 DEF Begun
<1>6. CASE stack # <<>>
  <2>1. 1 \in 1 .. m
    BY <1>1, <1>6, StackFacts
  <2>2. EndOf(stack[1].at) > fed
    BY <1>4, <2>1
  <2> QED
    BY <1>6, <2>2 DEF Begun
<1> QED
  BY <1>5, <1>6

LEMMA OnlyCall ==
  ASSUME SoundUses, Inv, frames # <<>>, Top.op \in {"skip_nil"} \cup Containers
  PROVE  Len(frames) = 1 /\ Top = frames[1] /\ RecEntries = {} /\ ProcFrames = {}
<1>1. Top.op # "proc" /\ Top.op # "read"
  BY DEF Containers
<1>2. Len(frames) = 1
  BY <1>1, NestedCall DEF Inv, StreamInv
<1> QED
  BY <1>2, OneCall DEF Inv, StreamInv

\* The call of the owner ends with the stack as it was or an empty one, what
\* it read of an object is kept.
LEMMA EndKeeps ==
  ASSUME Inv, frames # <<>>, Len(frames) = 1, phase = "run", UNCHANGED <<use, input, out>>,
         frames' = <<>>, phase' = "idle", pos' \in Nat, pos <= pos',
         outcome' \in {"eof", "drained", "type", "ok"},
         HeadInv',
         stack' = stack \/ stack' = <<>>,
         stack' = stack => HAt' = HAt,
         stack' = stack /\ stack # <<>> /\ frames[1].op = "skip" => SkipsMixIn,
         Streaming => stack' = stack
  PROVE  HeadInv' /\ NestInv' /\ PathInv' /\ KidsInv' /\ CompletedInv' /\ OrderInv'
<1>1. stack' = stack => Frontier' = Frontier
  BY DEF Frontier
<1>2. NestInv' /\ PathInv' /\ KidsInv'
  <2>1. CASE stack' = <<>>
    BY <2>1, EmptyNests
  <2>2. CASE stack' = stack /\ stack # <<>>
    <3>1. ProcFrames = {} /\ ProcFrames' = {}
      <4>1. ProcFrames = {}
        BY OneCall DEF Inv, StreamInv
      <4> QED
        BY <4>1 DEF ProcFrames
    <3>2. NestInv' /\ PathInv'
      BY <1>1, <2>2, <3>1, StillNests DEF Inv, StreamInv
    <3>3. KidsInv'
      BY <2>2, KidsStay DEF Inv, StreamInv
    <3> QED
      BY <3>2, <3>3
  <2> QED
    BY <2>1, <2>2
<1>3. CompletedInv'
  BY DEF CompletedInv
<1>4. Streaming => Begun' = Begun
  BY <1>1 DEF Begun
<1>5. OrderInv'
  BY <1>4, InCall, OrderStays DEF Inv, StreamInv
<1> QED
  BY <1>2, <1>3, <1>5

\* The data ran out.
LEMMA StarvesKeeps ==
  ASSUME SoundUses, Inv, UNCHANGED use, Starves
  PROVE  StreamInv'
<1>1. /\ frames # <<>> /\ phase = "run" /\ Top.op \in {"read", "skip"}
      /\ TakePart /\ OutOfData /\ UNCHANGED <<input, fed, last, mode, out, nils>>
  BY DEF Starves, Running
<1>2. HeadInv' /\ HAt' = HAt
  BY <1>1, TakePartHead DEF Inv, StreamInv
<1>3. CASE Len(frames) # 1
  <2>1. Fail("eof_in_proc") /\ "eof_in_proc" \in Errors
    <3>1. Len(frames) > 1
      BY <1>1, <1>3, FrameFacts DEF Inv
    <3> QED
      BY <1>1, <3>1 DEF OutOfData, Errors
  <2>2. /\ NestInv' /\ PathInv' /\ KidsInv' /\ CompletedInv'
        /\ EmptyInv' /\ OrderInv' /\ EachDrains'
    BY <1>1, <2>1, FailKeeps DEF Inv, StreamInv
  <2> QED
    BY <1>2, <2>2 DEF StreamInv
<1>4. CASE Len(frames) = 1
  <2>1. /\ frames' = <<>> /\ phase' = "idle"
        /\ outcome' = (IF mode = "each" THEN "drained" ELSE "eof")
        /\ stack' = (IF StackKept THEN stack ELSE <<>>)
    BY <1>1, <1>4 DEF OutOfData
  <2>2. Top = frames[1] /\ RecEntries = {} /\ ProcFrames = {}
    BY <1>1, <1>4, OneCall DEF Inv, StreamInv
  <2>3. mode \in use.ops
    <3>1. mode # "none"
      BY <1>1, <2>2 DEF Inv, CallsInv
    <3> QED
      BY <3>1, TypeParts DEF Inv, RestOK
  <2>4. Streaming => StackKept
    BY <2>3 DEF Streaming, StackKept, HasIo
  <2>5. StackKept => KeepsStack(use)
    BY <2>3 DEF StackKept, KeepsStack, HasIo
  <2>6. StackKept /\ frames[1].op = "skip" => SkipsMixIn
    BY <1>1, <2>3 DEF Inv, CallsInv, StackKept, SkipsMixIn, HasIo
  <2>7. pos' \in Nat /\ pos <= pos'
    <3>1. DataOK' /\ pos <= pos'
      BY <1>1, TakePartTypes DEF Inv
    <3> QED
      BY <1>1, <3>1, DataFacts DEF Inv, DataOK
  <2>8. HeadInv' /\ NestInv' /\ PathInv' /\ KidsInv' /\ CompletedInv' /\ OrderInv'
    BY <1>1, <1>2, <1>4, <2>1, <2>4, <2>6, <2>7, EndKeeps
  <2>9. EmptyInv'
    <3>1. KeepsStack(use)' = KeepsStack(use)
      BY DEF KeepsStack
    <3>2. outcome' \notin Errors \cup {"ok", "extra"}
      BY <2>1 DEF Errors
    <3> QED
      BY <2>1, <2>5, <3>1, <3>2 DEF EmptyInv, StackEmptyAfterCall
  <2>10. EachDrains'
    <3> SUFFICES ASSUME Streaming' PROVE EndOf(Delivered + 1)' > fed'
      BY DEF EachDrains
    <3>1. Streaming
      BY DEF Streaming
    <3>2. Delivered + 1 = Begun
      BY <1>1, <3>1, InCall DEF Inv, StreamInv, OrderInv
    <3>3. Frontier = HAt
      BY <1>1 DEF Frontier
    <3>4. HAt \in 1 .. Len(input) + 1 /\ EndOf(HAt) > fed
      BY <1>1, TakePartCut DEF Inv, StreamInv
    <3>5. EndOf(Begun) > fed
      BY <2>2, <3>3, <3>4, CutOff DEF Inv, StreamInv
    <3>6. EndOf(Delivered + 1)' = EndOf(Delivered + 1)
      BY <1>1 DEF EndOf, Delivered
    <3> QED
      BY <1>1, <3>2, <3>5, <3>6
  <2> QED
    BY <2>8, <2>9, <2>10 DEF StreamInv
<1> QED
  BY <1>3, <1>4

\* A header call or skip_nil that finds no header keeps the head.
LEMMA HeaderKeepsHead ==
  ASSUME SoundUses, Inv, UNCHANGED <<use, input, fed, raw, out>>, frames # <<>>, phase = "run",
         Top.op \in {"skip_nil"} \cup Containers,
         \/ ~ HeadReady /\ UNCHANGED <<pos, head, head_at>>
         \/ HeadReady /\ KeepHead,
         frames' = <<>>, phase' = "idle", outcome' \in {"eof", "type", "ok"},
         stack' = stack \/ stack' = <<>>,
         outcome' = "ok" /\ mode' # "skip_nil" => stack' = <<>>,
         Streaming => stack' = stack
  PROVE  StreamInv'
<1>1. Len(frames) = 1 /\ Top = frames[1] /\ RecEntries = {} /\ ProcFrames = {}
  BY OnlyCall
<1>2. "header" \in use.ops \/ "skip_nil" \in use.ops
  <2>1. mode \in {"header", "skip_nil"}
    BY <1>1 DEF Inv, CallsInv
  <2> QED
    BY <2>1, TypeParts DEF Inv, RestOK
<1>3. KeepsStack(use) => \A i \in DOMAIN input : input[i].k # "bad"
  BY <1>2, UseFacts DEF Inv
<1>4. ~ KeepsStack(use) => stack = <<>>
  BY DEF Inv, StreamInv, EmptyInv
<1>5. HeadInv' /\ pos' \in Nat /\ pos <= pos' /\ (KeepsStack(use) => HAt' = HAt)
  <2>1. CASE ~ HeadReady /\ UNCHANGED <<pos, head, head_at>>
    <3>1. UNCHANGED <<input, pos, hvars>>
      BY <2>1 DEF hvars
    <3> QED
      BY <3>1, InCall, HeadStays, DataFacts DEF Inv, StreamInv
  <2>2. CASE HeadReady /\ KeepHead
    <3>1. HeadInv' /\ (H.k # "bad" => HAt' = HAt)
      BY <2>2, KeepHeadHead DEF Inv, StreamInv
    <3>2. AfterHead \in Nat /\ pos <= AfterHead /\ pos' = AfterHead
      BY <2>2, HeadFacts DEF Inv, KeepHead
    <3>3. KeepsStack(use) => H.k # "bad"
      <4>1. CASE HeadKept
        BY <4>1, InCall DEF Inv, StreamInv, HeadInv, H
      <4>2. CASE ~ HeadKept
        <5>1. raw = 0
          BY <4>2, InCall DEF Inv, StreamInv, HeadInv
        <5>2. HAt \in 1 .. Len(input) /\ H = input[HAt]
          BY <2>2, <5>1, HeadHere DEF Inv, StreamInv
        <5>3. DOMAIN input = 1 .. Len(input)
          BY DataFacts DEF Inv
        <5> QED
          BY <1>3, <5>2, <5>3
      <4> QED
        BY <4>1, <4>2
    <3> QED
      BY <3>1, <3>2, <3>3
  <2> QED
    BY <2>1, <2>2
<1>6. stack # <<>> => HAt' = HAt
  BY <1>4, <1>5
<1>7. Streaming => HAt' = HAt
  BY <1>2, <1>5 DEF Streaming, KeepsStack
<1>8. HeadInv' /\ NestInv' /\ PathInv' /\ KidsInv' /\ CompletedInv' /\ OrderInv'
  <2>1. CASE stack' = <<>> /\ ~ Streaming
    <3>1. ~ Streaming'
      BY <2>1 DEF Streaming
    <3> QED
      BY <1>5, <2>1, <3>1, EmptyNests DEF CompletedInv, OrderInv
  <2>2. CASE stack # <<>> \/ Streaming
    <3>1. HAt' = HAt
      BY <1>6, <1>7, <2>2
    <3>2. frames[1].op # "skip"
      BY <1>1 DEF Containers
    <3>3. outcome' \in {"eof", "drained", "type", "ok"}
      OBVIOUS
    <3> QED
      BY <1>1, <1>5, <3>1, <3>2, <3>3, EndKeeps
  <2> QED
    BY <2>1, <2>2
<1>9. EmptyInv'
  <2>1. KeepsStack(use)' = KeepsStack(use)
    BY DEF KeepsStack
  <2>2. outcome' \notin Errors /\ outcome' # "extra"
    BY DEF Errors
  <2> QED
    BY <1>4, <2>1, <2>2 DEF EmptyInv, StackEmptyAfterCall
<1>10. EachDrains'
  BY DEF EachDrains
<1> QED
  BY <1>8, <1>9, <1>10 DEF StreamInv

LEMMA SkipNilKeeps ==
  ASSUME SoundUses, Inv, UNCHANGED use, SkipNil
  PROVE  StreamInv'
<1>1. /\ frames # <<>> /\ phase = "run" /\ Top.op = "skip_nil"
  BY DEF SkipNil, Running
<1>2. /\ frames' = <<>> /\ phase' = "idle" /\ UNCHANGED <<input, fed, raw, out, mode>>
      /\ outcome' \in {"eof", "ok"}
      /\ \/ ~ HeadReady /\ UNCHANGED <<pos, head, head_at>>
         \/ HeadReady /\ KeepHead
      /\ stack' = stack \/ (stack' = <<>> /\ ~ HasIo)
  <2>1. CASE ~ HeadReady /\ Raise("eof") /\ UNCHANGED <<pos, head, head_at>>
    BY <2>1 DEF Raise, EndHeader
  <2>2. CASE /\ HeadReady /\ KeepHead /\ EndHeader("ok") /\ UNCHANGED <<stack, out>>
    BY <2>2 DEF EndHeader
  <2> QED
    BY <2>1, <2>2 DEF SkipNil
<1>3. mode = "skip_nil" /\ mode \in use.ops
  <2>1. frames[1] = Top
    BY <1>1, OnlyCall
  <2> QED
    BY <1>1, <2>1, TypeParts DEF Inv, CallsInv, RestOK
<1>4. Streaming => stack' = stack
  BY <1>2, <1>3 DEF Streaming, HasIo
<1> QED
  BY <1>1, <1>2, <1>3, <1>4, HeaderKeepsHead

\* A header is delivered.
LEMMA HeaderTaken ==
  ASSUME SoundUses, Inv, UNCHANGED <<use, input, fed, raw, mode>>, frames # <<>>, phase = "run",
         NEW kind \in Containers, Top.op = kind, CastReady, H.k = kind, stack = <<>>,
         head' = NoHead, pos' = AfterCast,
         out' = Append(out, [at |-> HAt, to |-> AfterCast, whole |-> FALSE]),
         frames' = <<>>, phase' = "idle", outcome' = "ok", stack' = <<>>
  PROVE  StreamInv'
<1>1. H.k \notin RawKinds /\ HeadReady
  BY DEF Containers, RawKinds, CastReady
<1>2. raw = 0
  BY <1>1, InCall DEF Inv, StreamInv, HeadInv, H
<1>3. HeadInv' /\ HAt' = AfterCast + 1
  BY <1>1, <1>2, HeadTaken DEF Inv, StreamInv
<1>4. NestInv' /\ PathInv' /\ KidsInv'
  BY EmptyNests
<1>5. CompletedInv' /\ EmptyInv' /\ EachDrains'
  BY DEF CompletedInv, EmptyInv, StackEmptyAfterCall, EachDrains
<1>6. OrderInv'
  <2> SUFFICES ASSUME Streaming' PROVE EachInOrder' /\ Delivered' + 1 = Begun'
    BY DEF OrderInv
  <2>1. Streaming
    BY DEF Streaming
  <2>2. EachInOrder /\ Delivered + 1 = HAt
    <3>1. Begun = HAt
      BY DEF Begun, Frontier
    <3> QED
      BY <2>1, <3>1, InCall DEF Inv, StreamInv, OrderInv
  <2>r. PICK r \in Results : r = [at |-> HAt, to |-> AfterCast, whole |-> FALSE]
    BY CastFacts DEF Inv, Results
  <2>3. EachInOrder' /\ Delivered' = r.to
    BY <2>1, <2>2, <2>r, TypeParts, OrderGrows DEF Inv, RestOK
  <2>4. Begun' = AfterCast + 1
    BY <1>3 DEF Begun, Frontier
  <2> QED
    BY <2>3, <2>4, <2>r
<1> QED
  BY <1>3, <1>4, <1>5, <1>6 DEF StreamInv

LEMMA ReadHeaderKeeps ==
  ASSUME SoundUses, Inv, UNCHANGED use, NEW kind \in Containers, ReadHeader(kind)
  PROVE  StreamInv'
<1>1. /\ frames # <<>> /\ phase = "run" /\ Top.op = kind
  BY DEF ReadHeader, Running
<1>2. stack = <<>>
  BY <1>1 DEF Inv, StreamInv, EmptyInv
<1>3. CASE \/ ~ HeadReady /\ Raise("eof") /\ UNCHANGED <<pos, head, head_at>>
           \/ HeadReady /\ KeepHead /\ (Raise("eof") \/ Raise("type"))
  <2>1. /\ frames' = <<>> /\ phase' = "idle" /\ UNCHANGED <<input, fed, raw, out>>
        /\ outcome' \in {"eof", "type"}
        /\ stack' = stack
    BY <1>2, <1>3 DEF Raise, EndHeader
  <2>2. \/ ~ HeadReady /\ UNCHANGED <<pos, head, head_at>>
        \/ HeadReady /\ KeepHead
    BY <1>3
  <2> QED
    BY <1>1, <2>1, <2>2, HeaderKeepsHead
<1>4. CASE /\ CastReady /\ H.k = kind
           /\ head' = NoHead /\ head_at' = 0 /\ pos' = AfterCast
           /\ out' = Append(out, [at |-> HAt, to |-> AfterCast, whole |-> FALSE])
           /\ EndHeader("ok") /\ UNCHANGED <<stack, nils>>
  <2>1. /\ frames' = <<>> /\ phase' = "idle" /\ UNCHANGED <<input, fed, raw, mode>>
        /\ outcome' = "ok" /\ stack' = <<>>
    BY <1>2, <1>4 DEF EndHeader
  <2> QED
    BY <1>1, <1>2, <1>4, <2>1, HeaderTaken
<1> QED
  BY <1>3, <1>4 DEF ReadHeader

-----------------------------------------------------------------------------
(* The theorems. *)

LEMMA StreamKeeps ==
  ASSUME SoundUses, RoomForProcs, Inv, Next
  PROVE  StreamInv'
<1>1. UNCHANGED use
  BY DEF Next
<1>2. CASE Decode
  <2>1. CASE Starves
    BY <1>1, <2>1, StarvesKeeps
  <2>2. CASE Scalar \/ RecursiveEmpty
    <3>1. Scalar => phase' = "completed"
      BY DEF Scalar, ObjectComplete
    <3> QED
      BY <1>1, <2>2, <3>1, ScalarKeeps, RecursiveEmptyFails
  <2>3. CASE Container
    BY <1>1, <2>3, ContainerKeeps
  <2>4. CASE RawBody
    BY <1>1, <2>4, RawBodyKeeps
  <2>5. CASE RecursiveBegin
    BY <1>1, <2>5, RecursiveBeginKeeps
  <2>6. CASE InvalidByte
    BY <1>1, <2>6, InvalidByteKeeps
  <2>7. CASE Completed
    BY <1>1, <2>7, CompletedKeeps
  <2>8. CASE ProcReturns
    BY <1>1, <2>8, ProcReturnsKeeps
  <2>9. CASE \E op \in {"read", "skip"} : ProcCalls(op)
    BY <1>1, <2>9, ProcCallsKeeps
  <2>10. CASE \E kind \in Containers : ReadHeader(kind)
    BY <1>1, <2>10, ReadHeaderKeeps
  <2>11. CASE SkipNil
    BY <1>1, <2>11, SkipNilKeeps
  <2> QED
    BY <1>2, <2>1, <2>2, <2>3, <2>4, <2>5, <2>6, <2>7, <2>8, <2>9, <2>10, <2>11 DEF Decode
<1>3. CASE ProcFails
  BY <1>1, <1>3, ProcFailsKeeps
<1>4. CASE \E n \in 1 .. Len(input) : Feed(n) \/ IoDelivers(n)
  BY <1>1, <1>4, FeedKeeps, IoDeliversKeeps
<1>5. CASE \E op \in {"read", "each", "skip", "full"} : Call(op)
  BY <1>1, <1>5, CallKeeps
<1>6. CASE NextTurn
  BY <1>1, <1>6, NextTurnKeeps
<1>7. CASE Break
  BY <1>1, <1>7, BreakKeeps
<1>8. CASE \E op \in Containers \cup {"skip_nil"} : CallHeader(op)
  BY <1>1, <1>8, CallHeaderKeeps
<1>9. CASE Reset
  BY <1>1, <1>9, ResetKeeps
<1> QED
  BY <1>2, <1>3, <1>4, <1>5, <1>6, <1>7, <1>8, <1>9 DEF Next, Step

LEMMA InvHoldsInitially ==
  ASSUME SoundUses, Init
  PROVE  Inv
<1>1. TypeOK /\ CallsInv
  BY InitTypes
<1>2. HeadInv
  <2>1. WellFormed(input)
    BY DEF Init, SoundUses, SoundUse
  <2>2. Len(input) \in Nat
    BY <1>1, DataFacts
  <2>3. 0 < Len(input) => input[1].k # "data"
    BY <2>1, <2>2, EmptySeq DEF WellFormed
  <2> QED
    BY <2>3 DEF Init, HeadInv, HeadKept
<1>3. RecEntries = {} /\ ProcFrames = {}
  BY DEF Init, RecEntries, ProcFrames
<1>4. NestInv /\ PathInv /\ KidsInv
  BY <1>3 DEF Init, NestInv, ProcsMatch, TopMatches, PathInv, KidsInv
<1>5. CompletedInv /\ EmptyInv /\ EachDrains
  BY DEF Init, CompletedInv, EmptyInv, StackEmptyAfterCall, EachDrains
<1>6. OrderInv
  BY DEF Init, OrderInv, EachInOrder, Delivered, Begun, Frontier, HAt, HeadKept
<1> QED
  BY <1>1, <1>2, <1>4, <1>5, <1>6 DEF Inv, StreamInv

LEMMA InvStays ==
  ASSUME SoundUses, RoomForProcs, Inv, [Next]_vars
  PROVE  Inv'
<1>1. TypeOK' /\ CallsInv'
  BY NextTypes DEF Inv
<1>2. CASE Next
  BY <1>1, <1>2, StreamKeeps DEF Inv
<1>3. CASE UNCHANGED vars
  <2>1. StreamInv'
    <3>1. HeadInv'
      BY <1>3 DEF vars, hvars, svars, Inv, StreamInv, HeadInv, HeadKept
    <3>2. HAt' = HAt /\ Top' = Top /\ ProcFrames' = ProcFrames /\ RecEntries' = RecEntries
      BY <1>3 DEF vars, hvars, svars, HAt, HeadKept, Top, ProcFrames, RecEntries
    <3>3. Frontier' = Frontier
      BY <1>3, <3>2 DEF vars, svars, Frontier
    <3>4. NestInv'
      <4>1. UNCHANGED <<input, pos, head, stack, frames, phase>>
        BY <1>3 DEF vars, hvars, svars
      <4>2. \A j \in DOMAIN stack : Nested(j)'
        <5> SUFFICES ASSUME NEW j \in DOMAIN stack PROVE Nested(j)'
          OBVIOUS
        <5>1. ElementStart(j)' = ElementStart(j) /\ ElementStart(j) \in Nat
          BY <3>3, <4>1, EntryHere DEF Inv, StreamInv, ElementStart
        <5>2. pos \in Nat
          BY DataFacts DEF Inv
        <5> QED
          BY <4>1, <5>1, <5>2, NestedStays DEF Inv, StreamInv
      <4>3. ProcsMatch'
        BY <3>2, <4>1 DEF Inv, StreamInv, NestInv, ProcsMatch
      <4>4. TopMatches'
        BY <3>2, <4>1 DEF Inv, StreamInv, NestInv, TopMatches, HeadKept
      <4> QED
        BY <4>1, <4>2, <4>3, <4>4 DEF NestInv
    <3>5. PathInv'
      BY <1>3, <3>2, <3>3 DEF vars, hvars, svars, Inv, StreamInv, PathInv, Counts, Got, ElementStart
    <3>6. KidsInv'
      BY <1>3, <3>2 DEF vars, hvars, svars, Inv, StreamInv, KidsInv, Holds, SkipsMixIn
    <3>7. CompletedInv'
      BY <1>3, <3>2 DEF vars, hvars, svars, Inv, StreamInv, CompletedInv, ObjectsGenuine, HeadKept, EndOf,
           KidsOf, SkipsMixIn
    <3>8. EmptyInv'
      BY <1>3, <3>2 DEF vars, hvars, svars, Inv, StreamInv, EmptyInv, StackEmptyAfterCall, KeepsStack
    <3>9. Begun' = Begun /\ UNCHANGED <<use, input, out, outcome>>
      BY <1>3, <3>3 DEF vars, svars, Begun
    <3>10. OrderInv'
      BY <3>9 DEF Inv, StreamInv, OrderInv, EachInOrder, Streaming, Delivered, EndOf
    <3>11. EachDrains'
      BY <1>3, <3>9 DEF vars, Inv, StreamInv, EachDrains, Streaming, Delivered, EndOf
    <3> QED
      BY <3>1, <3>4, <3>5, <3>6, <3>7, <3>8, <3>10, <3>11 DEF StreamInv
  <2> QED
    BY <1>1, <2>1 DEF Inv
<1> QED
  BY <1>2, <1>3

\* The entries of the procs and the procs, one to one.
LEMMA EntriesAreProcs ==
  ASSUME TypeOK, NestInv
  PROVE  StackMatchesCalls
<1>1. {stack[i].at : i \in RecEntries} = {frames[i].at : i \in ProcFrames}
  BY DEF NestInv, ProcsMatch
<1>2. \A i, j \in RecEntries : i < j => stack[i].at < stack[j].at
  BY Chain DEF RecEntries
<1>3. \A i, j \in ProcFrames : i < j => frames[i].at < frames[j].at
  BY DEF NestInv, ProcsMatch
<1> QED
  BY <1>1, <1>2, <1>3 DEF StackMatchesCalls

LEMMA LevelsCounted ==
  ASSUME TypeOK, NestInv
  PROVE  DeepRefused
<1>1. PICK m \in Nat : m = Len(stack)
  BY StackFacts
<1>2. DOMAIN stack = 1 .. m /\ m <= Capacity /\ Capacity \in Nat
  BY <1>1, StackFacts
<1>3. IsFiniteSet(1 .. m) /\ Cardinality(1 .. m) = m
  BY FS_Interval
<1> DEFINE R == RecEntries
           P == ProcFrames
           N == DOMAIN stack \ R
<1>4. R \subseteq 1 .. m /\ N \subseteq 1 .. m /\ R \cap N = {} /\ R \cup N = 1 .. m
  BY <1>2 DEF RecEntries
<1>5. IsFiniteSet(R) /\ IsFiniteSet(N)
  BY <1>3, <1>4, FS_Subset
<1>6. Cardinality(R) + Cardinality(N) = m /\ Cardinality(R) \in Nat /\ Cardinality(N) \in Nat
  <2>1. Cardinality(R \cup N) = Cardinality(R) + Cardinality(N) - Cardinality(R \cap N)
    BY <1>5, FS_Union
  <2>2. Cardinality(R \cap N) = 0
    BY <1>4, FS_EmptySet
  <2>3. Cardinality(R) \in Nat /\ Cardinality(N) \in Nat
    BY <1>5, FS_CardinalityType
  <2>4. Cardinality(R \cup N) = m
    BY <1>3, <1>4
  <2> HIDE DEF R, N
  <2> QED
    BY <2>1, <2>2, <2>3, <2>4
<1>7. Cardinality(P) <= Cardinality(R) /\ Cardinality(P) \in Nat
  <2> DEFINE f == [i \in P |-> CHOOSE j \in R : stack[j].at = frames[i].at]
  <2>1. \A i \in P : f[i] \in R /\ stack[f[i]].at = frames[i].at
    BY DEF NestInv, ProcsMatch
  <2>2. \A i, j \in P : i # j => frames[i].at # frames[j].at
    <3> SUFFICES ASSUME NEW i \in P, NEW j \in P, i # j PROVE frames[i].at # frames[j].at
      OBVIOUS
    <3>1. /\ i < j => frames[i].at < frames[j].at
          /\ j < i => frames[j].at < frames[i].at
      BY DEF NestInv, ProcsMatch
    <3>2. frames[i].at \in Nat /\ frames[j].at \in Nat
      BY ProcBelow
    <3>3. i \in Nat /\ j \in Nat
      BY TypeParts DEF ProcFrames, FramesOK
    <3>4. i < j \/ j < i
      BY <3>3
    <3> QED
      BY <3>1, <3>2, <3>4
  <2>3. f \in [P -> R]
    BY <2>1
  <2>4. f \in Injection(P, R)
    <3>1. \A i, j \in P : f[i] = f[j] => i = j
      BY <2>1, <2>2
    <3> HIDE DEF f
    <3>2. IsInjective(f)
      BY <2>3, <3>1 DEF IsInjective
    <3> QED
      BY <2>3, <3>2 DEF Injection
  <2> QED
    BY <1>5, <2>4, FS_Injection, FS_CardinalityType
<1>8. Cardinality(N) + Cardinality(P) <= Capacity
  <2> HIDE DEF R, N, P
  <2> QED
    BY <1>2, <1>6, <1>7
<1> QED
  BY <1>8 DEF DeepRefused

LEMMA InvAlways == SoundUses /\ Spec /\ []RoomForProcs => []Inv
<1>1. SoundUses /\ Init => Inv
  BY InvHoldsInitially
<1>2. SoundUses /\ RoomForProcs /\ Inv /\ [Next]_vars => Inv'
  BY InvStays
<1>3. SoundUses => SoundUses'
  OBVIOUS
<1> QED
  BY <1>1, <1>2, <1>3, PTL DEF Spec

\* Every object that is completed is one of the stream, at any depth, whatever
\* the pieces the data came in and the calls that were cut short before.
THEOREM ObjectsAreGenuine == SoundUses /\ Spec /\ []RoomForProcs => []ObjectsGenuine
<1>1. Inv => ObjectsGenuine
  BY DEF Inv, StreamInv, CompletedInv, ObjectsGenuine
<1> QED
  BY <1>1, InvAlways, PTL

\* What the owner gets are the objects and headers of the stream, one after the
\* other.
THEOREM ObjectsComeInOrder == SoundUses /\ Spec /\ []RoomForProcs => []EachInOrder
<1>1. Inv => EachInOrder
  BY DEF Inv, StreamInv, OrderInv, EachInOrder
<1> QED
  BY <1>1, InvAlways, PTL

\* each gives up only when the object that comes next is not all there.
THEOREM EachDrainsTheBuffer == SoundUses /\ Spec /\ []RoomForProcs => []EachDrains
<1>1. Inv => EachDrains
  BY DEF Inv, StreamInv
<1> QED
  BY <1>1, InvAlways, PTL

\* The entries of the stack that stand for procs are those of the procs that run.
THEOREM EntriesMatchCalls == SoundUses /\ Spec /\ []RoomForProcs => []StackMatchesCalls
<1>1. Inv => StackMatchesCalls
  BY EntriesAreProcs DEF Inv, StreamInv
<1> QED
  BY <1>1, InvAlways, PTL

\* The stack never holds more levels than its capacity, the procs counted, and
\* nothing after a call that ended for good.
THEOREM StackIsBounded == SoundUses /\ Spec /\ []RoomForProcs => []StackBounded
<1>1. Inv => StackBounded
  BY LevelsCounted DEF Inv, StreamInv, EmptyInv, StackBounded
<1> QED
  BY <1>1, InvAlways, PTL
=============================================================================
