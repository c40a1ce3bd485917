---------------------------- MODULE RmemProofs ----------------------------
(***************************************************************************)
(* Proofs about Rmem, for any number of regions, any chunk size and any    *)
(* capacity of the array.                                                  *)
(***************************************************************************)
EXTENDS Rmem, TLAPS

\* A page of a region is held only while the region belongs to the pool.
LiveInHeap ==
    \A r \in Regions : \A pos \in Positions : live[<<r, pos>>] > 0 => r \in heap

\* What holds between the two halves of _msgpack_rmem_alloc2.
Windows ==
    /\ pc = "realloc" => /\ length = array_last
                         /\ array_last = capacity
                         /\ head.mask = {}
    /\ pc = "malloc" => head = [mask |-> FirstTaken, pages |-> NULL]

\* Page 0 of the null pointer is never offered: a chunk left behind by an
\* xmalloc that raised starts with its first page taken.
NullChunks ==
    /\ live[<<NULL, 0>>] = 0
    /\ head.pages = NULL => 0 \notin head.mask
    /\ \A i \in InUse : array[i].pages = NULL => 0 \notin array[i].mask

\* The inductive invariant.
IInv ==
    /\ TypeOK
    /\ NoSharedPages
    /\ LiveInHeap
    /\ RegionsOwnedOnce
    /\ MasksExact
    /\ OneSpareChunk
    /\ Windows
    /\ NullChunks

\* As long as xmalloc has not raised, no chunk is cut from the null pointer.
NoNull ==
    raises = 0 =>
      /\ pc # "malloc" => head.pages # NULL
      /\ \A i \in InUse : array[i].pages # NULL
      /\ \A pos \in Positions : live[<<NULL, pos>>] = 0
-----------------------------------------------------------------------------
(* The type invariant, whatever the collector and xmalloc do. *)

TypeInv == TypeOK /\ (pc = "realloc" => length = capacity)

LEMMA TypeInvInit == Init => TypeInv
<1> SUFFICES ASSUME Init PROVE TypeInv
  OBVIOUS
<1> USE RmemAssumption DEF Init, TypeInv
<1>1. head \in Chunk /\ heap \subseteq Regions
  BY DEF Chunk, AllFree, Address
<1>2. array \in [0 .. capacity - 1 -> Chunk]
  BY DEF Chunk, Blank, Address
<1>3. live \in [Page -> Nat]
  OBVIOUS
<1> QED
  BY <1>1, <1>2, <1>3 DEF TypeOK

\* A chunk stays a chunk when a page is taken from it or given back.
LEMMA ChunkTypes ==
  ASSUME NEW c \in Chunk, NEW pos \in Positions
  PROVE  Take(c, pos) \in Chunk /\ Give(c, pos) \in Chunk
BY DEF Chunk, Take, Give

LEMMA TypeInvStep == TypeInv /\ [Next]_vars => TypeInv'
<1> SUFFICES ASSUME TypeInv, [Next]_vars PROVE TypeInv'
  OBVIOUS
<1> USE RmemAssumption
<1>t. /\ head \in Chunk
      /\ capacity \in Nat
      /\ array \in [0 .. capacity - 1 -> Chunk]
      /\ array_last \in 0 .. capacity
      /\ live \in [Page -> Nat]
      /\ \A i \in InUse : i \in 0 .. capacity - 1 /\ array[i] \in Chunk
  BY DEF TypeInv, TypeOK, InUse
<1>m. \A c \in Chunk : c.mask \subseteq Positions /\ c.pages \in Address
  BY DEF Chunk
<1>h. ASSUME NEW p \in Page, HandOut(p) PROVE live' \in [Page -> Nat]
  BY <1>t, <1>h DEF HandOut
<1>mv. ASSUME NEW c \in Nat, NEW i \in 0 .. c - 1,
              NEW arr \in [0 .. c - 1 -> Chunk],
              MoveHead(i, arr), capacity' = c
       PROVE  /\ head' \in Chunk
              /\ array' \in [0 .. capacity' - 1 -> Chunk]
              /\ array_last' \in 0 .. capacity'
              /\ pc' = "malloc"
  BY <1>t, <1>mv DEF MoveHead, Chunk, FirstTaken, Address
<1>1. CASE AllocFromHead
  <2>1. PICK pos \in head.mask : head' = Take(head, pos)
                                 /\ HandOut(<<head.pages, pos>>)
    BY <1>1 DEF AllocFromHead
  <2>2. pos \in Positions /\ <<head.pages, pos>> \in Page
    BY <1>t, <1>m DEF Page
  <2> QED
    BY <1>1, <1>t, <1>h, <2>1, <2>2, ChunkTypes
    DEF AllocFromHead, TypeInv, TypeOK
<1>2. CASE AllocFromArray
  <2>1. PICK i \in InUse : \E pos \in array[i].mask :
               /\ head' = Take(array[i], pos)
               /\ array' = [array EXCEPT ![i] = head]
               /\ HandOut(<<array[i].pages, pos>>)
    BY <1>2 DEF AllocFromArray
  <2>2. PICK pos \in array[i].mask :
               /\ head' = Take(array[i], pos)
               /\ array' = [array EXCEPT ![i] = head]
               /\ HandOut(<<array[i].pages, pos>>)
    BY <2>1
  <2>3. pos \in Positions /\ <<array[i].pages, pos>> \in Page
    BY <1>t, <1>m DEF Page
  <2>4. head' \in Chunk /\ array' \in [0 .. capacity - 1 -> Chunk]
    BY <1>t, <2>2, <2>3, ChunkTypes
  <2> QED
    BY <1>2, <1>t, <1>h, <2>2, <2>3, <2>4 DEF AllocFromArray, TypeInv, TypeOK
<1>3. CASE BeginChunk
  <2>1. MoveHead(array_last, array) /\ capacity' = capacity
        /\ array_last \in 0 .. capacity - 1
    BY <1>3, <1>t DEF BeginChunk
  <2> QED
    BY <1>3, <1>t, <1>mv, <2>1 DEF BeginChunk, TypeInv, TypeOK
<1>4. CASE BeginGrow
  BY <1>4, <1>t DEF BeginGrow, TypeInv, TypeOK
<1>5. CASE EndGrow
  <2>1. MoveHead(length, GrownArray) /\ capacity' = GrownCapacity
        /\ length = capacity
    BY <1>5 DEF EndGrow, TypeInv
  <2>2. GrownCapacity \in Nat /\ length \in 0 .. GrownCapacity - 1
    BY <1>t, <2>1 DEF GrownCapacity
  <2>3. GrownArray \in [0 .. GrownCapacity - 1 -> Chunk]
    <3>1. Blank \in Chunk
      BY DEF Blank, Chunk, Address
    <3>2. \A i \in 0 .. GrownCapacity - 1 : i < capacity => array[i] \in Chunk
      BY <1>t, <2>2
    <3> QED
      BY <3>1, <3>2 DEF GrownArray
  <2> QED
    BY <1>5, <1>t, <1>mv, <2>1, <2>2, <2>3 DEF EndGrow, TypeInv, TypeOK
<1>6. CASE EndChunk
  <2>1. PICK r \in Regions \ heap : /\ head' = [head EXCEPT !.pages = r]
                                   /\ heap' = heap \cup {r}
                                   /\ HandOut(<<r, 0>>)
    BY <1>6 DEF EndChunk
  <2>2. <<r, 0>> \in Page /\ head' \in Chunk
    <3>1. r \in Address /\ 0 \in Positions
      BY <2>1 DEF Address, Positions
    <3>2. head \in Chunk => [head EXCEPT !.pages = r] \in Chunk
      BY <3>1 DEF Chunk
    <3> QED
      BY <1>t, <2>1, <3>1, <3>2 DEF Page
  <2> QED
    BY <1>6, <1>t, <1>h, <2>1, <2>2 DEF EndChunk, TypeInv, TypeOK
<1>7. CASE MallocRaises
  BY <1>7, <1>t DEF MallocRaises, TypeInv, TypeOK
<1>8. ASSUME NEW p \in Page, Free(p) PROVE TypeInv'
  <2>1. p[1] \in Address /\ p[2] \in Positions
    BY DEF Page
  <2>2. live' \in [Page -> Nat]
    BY <1>8, <1>t DEF Free
  <2>3. CASE FreeToHead(p)
    BY <1>8, <1>t, <2>1, <2>2, <2>3, ChunkTypes
    DEF FreeToHead, Free, TypeInv, TypeOK
  <2>4. CASE FreeToArray(p)
    <3>1. CASE SlotsOf(p[1]) = {}
      BY <1>8, <1>t, <2>2, <2>4, <3>1 DEF FreeToArray, Free, TypeInv, TypeOK
    <3>2. CASE SlotsOf(p[1]) # {}
      <4> DEFINE arr(i) == [array EXCEPT ![i] = Give(array[i], p[2])]
      <4>1. PICK i \in InUse : IF i # 0 /\ arr(i)[i].mask = AllFree
                    THEN ChunkFree(i, arr(i))
                    ELSE array' = arr(i) /\ UNCHANGED <<array_last, heap>>
        BY <2>4, <3>2 DEF FreeToArray, SlotsOf
      <4>2. arr(i) \in [0 .. capacity - 1 -> Chunk]
        BY <1>t, <2>1, ChunkTypes
      <4>3. array_last > 0 /\ 0 \in 0 .. capacity - 1
            /\ array_last - 1 \in 0 .. capacity - 1
            /\ i \in 0 .. capacity - 1
        BY <1>t DEF InUse
      <4>4. /\ array' \in [0 .. capacity - 1 -> Chunk]
            /\ array_last' \in 0 .. capacity
            /\ heap' \subseteq Regions
        <5> HIDE DEF arr
        <5>1. heap \subseteq Regions
          BY DEF TypeInv, TypeOK
        <5>2. CASE ~ (i # 0 /\ arr(i)[i].mask = AllFree)
          BY <1>t, <4>1, <4>2, <5>1, <5>2
        <5>3. CASE ChunkFree(i, arr(i)) /\ arr(i)[0].mask = AllFree
          BY <1>t, <4>2, <4>3, <5>1, <5>3 DEF ChunkFree
        <5>4. CASE ChunkFree(i, arr(i)) /\ arr(i)[0].mask # AllFree
          BY <1>t, <4>2, <4>3, <5>1, <5>4 DEF ChunkFree
        <5> QED
          BY <4>1, <5>2, <5>3, <5>4
      <4> QED
        BY <1>8, <1>t, <2>2, <2>4, <4>4
        DEF FreeToArray, Free, TypeInv, TypeOK
    <3> QED
      BY <3>1, <3>2
  <2> QED
    BY <1>8, <2>3, <2>4 DEF Free
<1>9. CASE UNCHANGED vars
  BY <1>9 DEF vars, TypeInv, TypeOK
<1> QED
  BY <1>1, <1>2, <1>3, <1>4, <1>5, <1>6, <1>7, <1>8, <1>9 DEF Next

\* Every variable of the pool keeps its type: in particular the index of
\* the last chunk stays inside the array that xrealloc returned.
THEOREM TypeCorrect == Spec => []TypeOK
<1>1. TypeInv => TypeOK
  BY DEF TypeInv
<1> QED
  BY TypeInvInit, TypeInvStep, <1>1, PTL DEF Spec
-----------------------------------------------------------------------------
(* The inductive invariant, when the collector does not run inside xrealloc. *)

LEMMA IInvInit == Init => IInv
<1> SUFFICES ASSUME Init PROVE IInv
  OBVIOUS
<1>1. TypeOK
  BY TypeInvInit DEF TypeInv
<1>2. /\ \A p \in Page : live[p] = 0
      /\ InUse = {}
      /\ pc = "idle"
  BY DEF Init, InUse
<1>3. PICK r \in Regions : head = [mask |-> AllFree, pages |-> r] /\ heap = {r}
  BY DEF Init
<1>4. NoSharedPages /\ LiveInHeap
  BY <1>2 DEF NoSharedPages, LiveInHeap, Page, Address
<1>5. RegionsOwnedOnce /\ OneSpareChunk /\ Windows
  BY <1>2, <1>3 DEF RegionsOwnedOnce, OneSpareChunk, Windows
<1>6. MasksExact
  BY <1>2, <1>3 DEF MasksExact, AllFree, Page, Address
<1>7. NullChunks
  BY <1>2, <1>3, RmemAssumption DEF NullChunks, Page, Address, Positions
<1> QED
  BY <1>1, <1>4, <1>5, <1>6, <1>7 DEF IInv

\* The types of the parts of a state, in the form the steps below use.
LEMMA Parts ==
  ASSUME TypeOK
  PROVE  /\ head.mask \subseteq Positions /\ head.pages \in Address
         /\ \A i \in InUse : /\ i \in 0 .. capacity - 1
                             /\ array[i] \in Chunk
                             /\ array[i].mask \subseteq Positions
                             /\ array[i].pages \in Address
         /\ array_last \in Nat /\ capacity \in Nat /\ array_last <= capacity
         /\ \A r \in Address, pos \in Positions :
              <<r, pos>> \in Page /\ live[<<r, pos>>] \in Nat
<1>1. /\ head \in Chunk
      /\ array_last \in Nat /\ capacity \in Nat /\ array_last <= capacity
      /\ \A i \in InUse : i \in 0 .. capacity - 1 /\ array[i] \in Chunk
      /\ \A r \in Address, pos \in Positions :
           <<r, pos>> \in Page /\ live[<<r, pos>>] \in Nat
  BY DEF TypeOK, InUse, Page
<1>2. \A c \in Chunk : c.mask \subseteq Positions /\ c.pages \in Address
  BY DEF Chunk
<1> QED
  BY <1>1, <1>2

LEMMA AllocFromHeadStep ==
  ASSUME IInv, AllocFromHead, TypeOK'
  PROVE  IInv'
<1> USE RmemAssumption
<1>1. PICK pos \in head.mask : /\ head' = Take(head, pos)
                              /\ HandOut(<<head.pages, pos>>)
  BY DEF AllocFromHead
<1>2. TypeOK
  BY DEF IInv
<1>p. /\ pos \in Positions
      /\ head'.mask = head.mask \ {pos}
      /\ head'.pages = head.pages
      /\ UNCHANGED <<array, array_last, capacity, length, pc, heap, InUse>>
      /\ pc = "idle"
      /\ \A r \in Address, q \in Positions :
           live'[<<r, q>>] = IF r = head.pages /\ q = pos
                             THEN live[<<r, q>>] + 1 ELSE live[<<r, q>>]
  BY <1>1, <1>2, Parts DEF AllocFromHead, Take, HandOut, TypeOK, Chunk, InUse
<1> USE <1>p, <1>2, Parts
<1>3. NoSharedPages'
  BY DEF IInv, NoSharedPages, MasksExact, Address
<1>4. LiveInHeap'
  BY DEF IInv, LiveInHeap, RegionsOwnedOnce, Address
<1>5. RegionsOwnedOnce'
  BY DEF IInv, RegionsOwnedOnce, SlotsOf
<1>6. MasksExact'
  BY DEF IInv, MasksExact, RegionsOwnedOnce, Address
<1>7. OneSpareChunk' /\ Windows'
  BY DEF IInv, OneSpareChunk, Windows
<1>8. NullChunks'
  BY DEF IInv, NullChunks, Address, Positions
<1> QED
  BY <1>3, <1>4, <1>5, <1>6, <1>7, <1>8 DEF IInv

LEMMA AllocFromArrayStep ==
  ASSUME IInv, AllocFromArray, TypeOK'
  PROVE  IInv'
<1> USE RmemAssumption
<1>1. PICK i \in InUse : \E pos \in array[i].mask :
               /\ head' = Take(array[i], pos)
               /\ array' = [array EXCEPT ![i] = head]
               /\ HandOut(<<array[i].pages, pos>>)
  BY DEF AllocFromArray
<1>2. PICK pos \in array[i].mask :
               /\ head' = Take(array[i], pos)
               /\ array' = [array EXCEPT ![i] = head]
               /\ HandOut(<<array[i].pages, pos>>)
  BY <1>1
<1>3. TypeOK
  BY DEF IInv
<1>p. /\ pos \in Positions
      /\ head'.mask = array[i].mask \ {pos}
      /\ head'.pages = array[i].pages
      /\ head.mask = {}
      /\ array'[i] = head
      /\ \A j \in InUse : j # i => array'[j] = array[j]
      /\ UNCHANGED <<array_last, capacity, length, pc, heap, InUse>>
      /\ pc = "idle"
      /\ \A r \in Address, q \in Positions :
           live'[<<r, q>>] = IF r = array[i].pages /\ q = pos
                             THEN live[<<r, q>>] + 1 ELSE live[<<r, q>>]
  BY <1>2, <1>3, Parts, ZenonT(60)
  DEF AllocFromArray, Available, Take, HandOut, TypeOK, Chunk, InUse
<1> USE <1>p, <1>3, Parts
<1>4. NoSharedPages'
  BY DEF IInv, NoSharedPages, MasksExact, Address
<1>5. LiveInHeap'
  BY DEF IInv, LiveInHeap, RegionsOwnedOnce, Address
<1>6. RegionsOwnedOnce'
  BY DEF IInv, RegionsOwnedOnce, SlotsOf
<1>7. MasksExact'
  BY DEF IInv, MasksExact, RegionsOwnedOnce, Address
<1>8. OneSpareChunk' /\ Windows'
  BY DEF IInv, OneSpareChunk, Windows, AllFree, Positions
<1>9. NullChunks'
  BY DEF IInv, NullChunks, Address, Positions
<1> QED
  BY <1>4, <1>5, <1>6, <1>7, <1>8, <1>9 DEF IInv

\* Moving the exhausted head to the first unused slot, before xmalloc.
LEMMA MoveHeadStep ==
  ASSUME IInv, TypeOK', head.mask = {}, pc # "malloc",
         NEW arr, MoveHead(array_last, arr),
         \A i \in InUse : arr[i] = array[i],
         array_last \in DOMAIN arr,
         UNCHANGED <<heap, live>>
  PROVE  IInv'
<1> USE RmemAssumption
<1>1. TypeOK
  BY DEF IInv
<1>p. /\ head'.mask = FirstTaken /\ head'.pages = NULL
      /\ InUse' = InUse \cup {array_last} /\ array_last \notin InUse
      /\ array'[array_last] = head
      /\ \A i \in InUse : array'[i] = array[i]
      /\ pc' = "malloc"
      /\ UNCHANGED <<heap, live>>
  <2>1. array_last' = array_last + 1
    BY DEF MoveHead
  <2>2. InUse' = InUse \cup {array_last} /\ array_last \notin InUse
    BY <1>1, <2>1, Parts DEF InUse
  <2> QED
    BY <2>2 DEF MoveHead
<1> USE <1>p, <1>1, Parts
<1>2. NoSharedPages' /\ LiveInHeap'
  BY DEF IInv, NoSharedPages, LiveInHeap
<1>3. RegionsOwnedOnce'
  <2>1. \A r \in heap : \E i \in InUse' : array'[i].pages = r
    BY DEF IInv, RegionsOwnedOnce, SlotsOf
  <2>2. \A i \in InUse' : array'[i].pages \in heap \cup {NULL}
    BY DEF IInv, RegionsOwnedOnce
  <2>3. \A i, j \in InUse' : i # j /\ array'[i].pages # NULL =>
                              array'[i].pages # array'[j].pages
    BY DEF IInv, RegionsOwnedOnce
  <2> QED
    BY <2>1, <2>2, <2>3 DEF RegionsOwnedOnce, SlotsOf
<1>4. MasksExact'
  BY DEF IInv, MasksExact
<1>5. OneSpareChunk'
  <2>1. 0 \in AllFree
    BY DEF AllFree, Positions
  <2> QED
    BY <2>1 DEF IInv, OneSpareChunk
<1>6. Windows'
  BY DEF MoveHead, Windows
<1>7. NullChunks'
  BY DEF IInv, NullChunks, FirstTaken
<1> QED
  BY <1>2, <1>3, <1>4, <1>5, <1>6, <1>7 DEF IInv

\* xmalloc returns a region that the pool does not own.
LEMMA EndChunkStep ==
  ASSUME IInv, EndChunk, TypeOK'
  PROVE  IInv'
<1> USE RmemAssumption
<1>1. PICK r \in Regions \ heap : /\ head' = [head EXCEPT !.pages = r]
                                 /\ heap' = heap \cup {r}
                                 /\ HandOut(<<r, 0>>)
  BY DEF EndChunk
<1>2. TypeOK
  BY DEF IInv
<1>p. /\ head.pages = NULL /\ head'.mask = FirstTaken /\ head'.pages = r
      /\ UNCHANGED <<array, array_last, InUse>>
      /\ pc' = "idle"
      /\ 0 \in Positions /\ r \in Address
      /\ \A s \in Address, q \in Positions :
           live'[<<s, q>>] = IF s = r /\ q = 0
                             THEN live[<<s, q>>] + 1 ELSE live[<<s, q>>]
  <2>1. head = [mask |-> FirstTaken, pages |-> NULL]
    BY DEF EndChunk, IInv, Windows
  <2>2. head'.mask = FirstTaken /\ head'.pages = r /\ head.pages = NULL
    BY <2>1, <1>1
  <2>3. 0 \in Positions /\ r \in Address
    BY <1>1 DEF Positions, Address
  <2>4. UNCHANGED <<array, array_last, InUse>> /\ pc' = "idle"
    BY DEF EndChunk, InUse
  <2>5. \A s \in Address, q \in Positions :
           live'[<<s, q>>] = IF s = r /\ q = 0
                             THEN live[<<s, q>>] + 1 ELSE live[<<s, q>>]
    BY <1>1, <1>2, <2>3, Parts DEF HandOut, TypeOK
  <2> QED
    BY <2>2, <2>3, <2>4, <2>5
<1>n. \A q \in Positions : live[<<r, q>>] = 0
  BY <1>1, <1>2, Parts DEF IInv, LiveInHeap, Address
<1> USE <1>p, <1>n, <1>1, <1>2, Parts
<1>3. NoSharedPages'
  BY DEF IInv, NoSharedPages, Address
<1>4. LiveInHeap'
  BY DEF IInv, LiveInHeap, Address
<1>5. RegionsOwnedOnce'
  <2>1. ASSUME NEW s \in heap PROVE \E i \in InUse : array[i].pages = s
    <3>1. s # head.pages
      BY DEF TypeOK
    <3>2. SlotsOf(s) # {}
      BY <3>1 DEF IInv, RegionsOwnedOnce
    <3> QED
      BY <3>2 DEF SlotsOf
  <2>2. \A i \in InUse : array[i].pages \in heap \cup {NULL}
    BY DEF IInv, RegionsOwnedOnce
  <2>3. \A i, j \in InUse : i # j /\ array[i].pages # NULL =>
                             array[i].pages # array[j].pages
    BY DEF IInv, RegionsOwnedOnce
  <2> QED
    BY <2>1, <2>2, <2>3 DEF RegionsOwnedOnce, SlotsOf
<1>6. MasksExact'
  <2>1. \A i \in InUse : array[i].pages # r
    BY DEF IInv, RegionsOwnedOnce
  <2>2. \A q \in Positions : q \in FirstTaken <=> q # 0
    BY DEF FirstTaken
  <2>3. \A q \in Positions : q \in head'.mask <=> live'[<<head'.pages, q>>] = 0
    BY <2>2
  <2>4. \A i \in InUse : array[i].pages # NULL => \A q \in Positions :
          q \in array'[i].mask <=> live'[<<array'[i].pages, q>>] = 0
    BY <2>1 DEF IInv, MasksExact
  <2> QED
    BY <2>3, <2>4 DEF MasksExact
<1>7. OneSpareChunk' /\ Windows'
  BY DEF IInv, OneSpareChunk, Windows
<1>8. NullChunks'
  BY DEF IInv, NullChunks, Address
<1> QED
  BY <1>3, <1>4, <1>5, <1>6, <1>7, <1>8 DEF IInv

\* A page of the head chunk comes back.
LEMMA FreeToHeadStep ==
  ASSUME IInv, NEW p \in Page, Free(p), FreeToHead(p), ~ GcInRealloc, TypeOK'
  PROVE  IInv'
<1> USE RmemAssumption
<1>1. TypeOK
  BY DEF IInv
<1>2. PICK pos \in Positions : p = <<head.pages, pos>>
  BY DEF Page, FreeToHead
<1>p. /\ head'.mask = head.mask \cup {pos}
      /\ head'.pages = head.pages
      /\ UNCHANGED <<array, array_last, capacity, length, pc, heap, InUse>>
      /\ pc # "realloc"
      /\ live[<<head.pages, pos>>] > 0
      /\ \A r \in Address, q \in Positions :
           live'[<<r, q>>] = IF r = head.pages /\ q = pos
                             THEN live[<<r, q>>] - 1 ELSE live[<<r, q>>]
  BY <1>1, <1>2, Parts
  DEF Free, FreeToHead, MayFree, Give, TypeOK, Chunk, InUse
<1> USE <1>p, <1>1, Parts
<1>3. NoSharedPages'
  BY DEF IInv, NoSharedPages, Address
<1>4. LiveInHeap'
  BY DEF IInv, LiveInHeap, Address
<1>5. RegionsOwnedOnce'
  BY DEF IInv, RegionsOwnedOnce, SlotsOf
<1>6. MasksExact'
  BY DEF IInv, MasksExact, NoSharedPages, RegionsOwnedOnce, Address
<1>7. OneSpareChunk'
  BY DEF IInv, OneSpareChunk
<1>8. Windows'
  <2>1. CASE pc = "malloc"
    <3>1. head.pages = NULL /\ head.mask = FirstTaken
      BY <2>1 DEF IInv, Windows
    <3>2. pos \in FirstTaken
      BY <3>1 DEF IInv, NullChunks, FirstTaken
    <3>3. head' = head
      BY <3>2, <3>1, <1>2, SMTT(30) DEF FreeToHead, Give, TypeOK, Chunk
    <3> QED
      BY <3>3, <2>1 DEF IInv, Windows
  <2> QED
    BY <2>1 DEF Windows
<1>9. NullChunks'
  BY DEF IInv, NullChunks, Address, Positions
<1> QED
  BY <1>3, <1>4, <1>5, <1>6, <1>7, <1>8, <1>9 DEF IInv

\* A page comes back to slot i.  arr is the array with the page marked free,
\* before a chunk that became entirely free is moved or removed.
LEMMA GiveToSlot ==
  ASSUME IInv, NEW p \in Page, Free(p), FreeToArray(p), ~ GcInRealloc,
         NEW i \in SlotsOf(p[1]),
         NEW arr, arr = [array EXCEPT ![i] = Give(array[i], p[2])]
  PROVE  /\ i \in InUse
         /\ arr \in [0 .. capacity - 1 -> Chunk]
         /\ \A j \in InUse : /\ arr[j].pages = array[j].pages
                             /\ j # i => arr[j] = array[j]
         /\ \A j \in InUse : arr[j].pages # NULL => \A q \in Positions :
              q \in arr[j].mask <=> live'[<<arr[j].pages, q>>] = 0
         /\ \A j \in InUse : arr[j].pages = NULL => 0 \notin arr[j].mask
         /\ head.pages # NULL => \A q \in Positions :
              q \in head.mask <=> live'[<<head.pages, q>>] = 0
         /\ \A r \in Regions, q \in Positions :
              live'[<<r, q>>] <= 1 /\ (live'[<<r, q>>] > 0 => r \in heap)
         /\ live'[<<NULL, 0>>] = 0
<1> USE RmemAssumption
<1>1. TypeOK
  BY DEF IInv
<1>2. PICK pos \in Positions : p = <<array[i].pages, pos>>
  BY DEF Page, SlotsOf
<1>3. i \in InUse /\ i \in 0 .. capacity - 1 /\ array[i] \in Chunk
      /\ array[i].pages # head.pages
  BY <1>1, <1>2, Parts DEF SlotsOf, FreeToArray
<1>4. /\ arr \in [0 .. capacity - 1 -> Chunk]
      /\ arr[i] = Give(array[i], pos)
      /\ \A j \in InUse : j # i => arr[j] = array[j]
  BY <1>1, <1>2, <1>3, Parts, ChunkTypes DEF TypeOK
<1>5. arr[i].mask = array[i].mask \cup {pos} /\ arr[i].pages = array[i].pages
  BY <1>3, <1>4 DEF Give, Chunk
<1>6. /\ live[<<array[i].pages, pos>>] > 0
      /\ \A r \in Address, q \in Positions :
           live'[<<r, q>>] = IF r = array[i].pages /\ q = pos
                             THEN live[<<r, q>>] - 1 ELSE live[<<r, q>>]
  BY <1>1, <1>2, Parts DEF Free, TypeOK
<1> USE <1>1, <1>3, <1>4, <1>5, <1>6, Parts
<1>7. \A j \in InUse : arr[j].pages # NULL => \A q \in Positions :
        q \in arr[j].mask <=> live'[<<arr[j].pages, q>>] = 0
  <2>1. array[i].pages # NULL => live[<<array[i].pages, pos>>] = 1
    BY DEF IInv, NoSharedPages, Address
  <2>2. arr[i].pages # NULL => \A q \in Positions :
          q \in arr[i].mask <=> live'[<<arr[i].pages, q>>] = 0
    <3> SUFFICES ASSUME array[i].pages # NULL, NEW q \in Positions
                 PROVE  q \in array[i].mask \cup {pos}
                        <=> live'[<<array[i].pages, q>>] = 0
      OBVIOUS
    <3>1. q \in array[i].mask <=> live[<<array[i].pages, q>>] = 0
      BY DEF IInv, MasksExact
    <3>2. CASE q = pos
      BY <2>1, <3>2
    <3>3. CASE q # pos
      BY <3>1, <3>3
    <3> QED
      BY <3>2, <3>3
  <2>3. \A j \in InUse \ {i} : arr[j].pages # NULL => \A q \in Positions :
          q \in arr[j].mask <=> live'[<<arr[j].pages, q>>] = 0
    BY DEF IInv, MasksExact, RegionsOwnedOnce
  <2> QED
    BY <2>2, <2>3
<1>8. /\ live'[<<NULL, 0>>] = 0
      /\ \A j \in InUse : arr[j].pages = NULL => 0 \notin arr[j].mask
  <2>1. 0 \in Positions /\ NULL \in Address
    BY DEF Positions, Address
  <2>2. live[<<NULL, 0>>] = 0
    BY DEF IInv, NullChunks
  <2>3. array[i].pages = NULL => pos # 0
    <3> SUFFICES ASSUME array[i].pages = NULL, pos = 0 PROVE FALSE
      OBVIOUS
    <3>1. live[p] > 0
      BY DEF Free
    <3>2. p = <<NULL, 0>>
      BY <1>2, Zenon
    <3>3. live[p] = 0
      BY <2>2, <3>2, Zenon
    <3> QED
      BY <3>1, <3>3
  <2>4. live'[<<NULL, 0>>] = 0
    BY <2>1, <2>2, <2>3
  <2>5. \A j \in InUse : array[j].pages = NULL => 0 \notin array[j].mask
    BY DEF IInv, NullChunks
  <2> QED
    BY <2>3, <2>4, <2>5
<1>9. head.pages # NULL => \A q \in Positions :
         q \in head.mask <=> live'[<<head.pages, q>>] = 0
  BY DEF IInv, MasksExact
<1>10. \A r \in Regions, q \in Positions :
         live'[<<r, q>>] <= 1 /\ (live'[<<r, q>>] > 0 => r \in heap)
  <2> SUFFICES ASSUME NEW r \in Regions, NEW q \in Positions
               PROVE  live'[<<r, q>>] <= 1 /\ (live'[<<r, q>>] > 0 => r \in heap)
    OBVIOUS
  <2>1. r \in Address /\ live[<<r, q>>] <= 1
        /\ (live[<<r, q>>] > 0 => r \in heap)
    BY DEF IInv, NoSharedPages, LiveInHeap, Address
  <2>2. live[<<r, q>>] \in Nat
    BY <2>1
  <2>3. live'[<<r, q>>] = live[<<r, q>>] \/ live'[<<r, q>>] = live[<<r, q>>] - 1
    BY <2>1
  <2> QED
    BY <2>1, <2>2, <2>3
<1> QED
  BY <1>7, <1>8, <1>9, <1>10

LEMMA FreeToArrayStep ==
  ASSUME IInv, NEW p \in Page, Free(p), FreeToArray(p), ~ GcInRealloc, TypeOK'
  PROVE  IInv'
<1> USE RmemAssumption
<1>1. TypeOK
  BY DEF IInv
<1>2. /\ UNCHANGED <<head, capacity, length, pc>>
      /\ pc # "realloc"
      /\ p[1] \in Address
  BY DEF Free, FreeToArray, MayFree, Page
<1>w. Windows'
  BY <1>2 DEF IInv, Windows
<1>3. CASE SlotsOf(p[1]) = {}
  <2>1. UNCHANGED <<array, array_last, heap, InUse>>
    BY <1>3 DEF FreeToArray, InUse
  <2>2. p[1] = NULL
    <3>1. PICK pos \in Positions : p = <<p[1], pos>>
      BY DEF Page
    <3>2. live[<<p[1], pos>>] > 0
      BY <3>1 DEF Free
    <3>3. p[1] \in Regions => p[1] \in heap
      BY <3>2 DEF IInv, LiveInHeap
    <3>4. p[1] \notin heap
      BY <1>3 DEF IInv, RegionsOwnedOnce, FreeToArray
    <3> QED
      BY <1>2, <3>3, <3>4 DEF Address
  <2>3. \A r \in Regions, q \in Positions : live'[<<r, q>>] = live[<<r, q>>]
    <3>1. \A r \in Regions, q \in Positions : <<r, q>> \in Page /\ <<r, q>> # p
      BY <2>2 DEF Page, Address
    <3> QED
      BY <1>1, <3>1 DEF Free, TypeOK
  <2>4. live'[<<NULL, 0>>] = 0
    BY <1>1, <2>2 DEF Free, TypeOK, IInv, NullChunks
  <2>5. NoSharedPages' /\ LiveInHeap'
    BY <2>1, <2>3 DEF IInv, NoSharedPages, LiveInHeap
  <2>6. RegionsOwnedOnce' /\ OneSpareChunk'
    BY <1>2, <2>1 DEF IInv, RegionsOwnedOnce, OneSpareChunk, SlotsOf
  <2>7. MasksExact'
    BY <1>1, <1>2, <2>1, <2>3, Parts DEF IInv, MasksExact, Address
  <2>8. NullChunks'
    BY <1>2, <2>1, <2>4 DEF IInv, NullChunks
  <2> QED
    BY <1>w, <2>5, <2>6, <2>7, <2>8 DEF IInv
<1>4. CASE SlotsOf(p[1]) # {}
  <2>1. PICK i \in SlotsOf(p[1]) :
          LET arr == [array EXCEPT ![i] = Give(array[i], p[2])]
          IN  IF i # 0 /\ arr[i].mask = AllFree
              THEN ChunkFree(i, arr)
              ELSE array' = arr /\ UNCHANGED <<array_last, heap>>
    BY <1>4 DEF FreeToArray
  <2> DEFINE arr == [array EXCEPT ![i] = Give(array[i], p[2])]
  <2>2. \/ /\ ~ (i # 0 /\ arr[i].mask = AllFree)
           /\ array' = arr /\ UNCHANGED <<array_last, heap>>
        \/ i # 0 /\ arr[i].mask = AllFree /\ ChunkFree(i, arr)
    BY <2>1
  <2>g. /\ i \in InUse
        /\ arr \in [0 .. capacity - 1 -> Chunk]
        /\ \A j \in InUse : /\ arr[j].pages = array[j].pages
                            /\ j # i => arr[j] = array[j]
        /\ \A j \in InUse : arr[j].pages # NULL => \A q \in Positions :
             q \in arr[j].mask <=> live'[<<arr[j].pages, q>>] = 0
        /\ \A j \in InUse : arr[j].pages = NULL => 0 \notin arr[j].mask
        /\ head.pages # NULL => \A q \in Positions :
             q \in head.mask <=> live'[<<head.pages, q>>] = 0
        /\ \A r \in Regions, q \in Positions :
             live'[<<r, q>>] <= 1 /\ (live'[<<r, q>>] > 0 => r \in heap)
        /\ live'[<<NULL, 0>>] = 0
    BY GiveToSlot
  <2> HIDE DEF arr
  <2>r. /\ \A r \in heap : head.pages = r \/ \E j \in InUse : arr[j].pages = r
        /\ head.pages \in heap \cup {NULL}
        /\ \A j \in InUse : arr[j].pages \in heap \cup {NULL}
        /\ \A j \in InUse : arr[j].pages # NULL =>
             /\ arr[j].pages # head.pages
             /\ \A k \in InUse \ {j} : arr[k].pages # arr[j].pages
    BY <2>g DEF IInv, RegionsOwnedOnce, SlotsOf
  <2>s. \A j \in InUse : j # i /\ arr[j].mask = AllFree => j = 0
    BY <2>g DEF IInv, OneSpareChunk
  <2>n. NoSharedPages'
    BY <2>g DEF NoSharedPages
  <2> USE <1>1, <1>2, <2>g, Parts
  <2>3. CASE /\ ~ (i # 0 /\ arr[i].mask = AllFree)
             /\ array' = arr /\ UNCHANGED <<array_last, heap>>
    <3>1. InUse' = InUse
      BY <2>3 DEF InUse
    <3>2. LiveInHeap' /\ NullChunks'
      BY <2>3, <3>1 DEF IInv, LiveInHeap, NullChunks
    <3>4. MasksExact'
      BY <2>3, <3>1 DEF MasksExact
    <3>3. RegionsOwnedOnce' /\ OneSpareChunk'
      BY <2>3, <3>1, <2>r, <2>s DEF RegionsOwnedOnce, SlotsOf, OneSpareChunk
    <3> QED
      BY <1>w, <2>n, <3>2, <3>3, <3>4 DEF IInv
  <2>4. CASE i # 0 /\ arr[0].mask # AllFree /\ arr[i].mask = AllFree
             /\ ChunkFree(i, arr)
    <3>1. /\ InUse' = InUse /\ 0 \in InUse
          /\ UNCHANGED heap
          /\ array'[0] = arr[i] /\ array'[i] = arr[0]
          /\ \A j \in InUse : j # 0 /\ j # i => array'[j] = arr[j]
      BY <2>4 DEF ChunkFree, InUse
    <3> HIDE <2>4
    <3>2. LiveInHeap' /\ NullChunks'
      BY <3>1 DEF IInv, LiveInHeap, NullChunks
    <3>5. MasksExact'
      BY <3>1, SMTT(30) DEF MasksExact
    <3>3. RegionsOwnedOnce'
      <4>1. \A r \in heap' : head.pages = r \/ \E j \in InUse' : array'[j].pages = r
        BY <3>1, <2>r
      <4>2. head'.pages \in heap' \cup {NULL}
        BY <3>1, <2>r
      <4>3. \A j \in InUse' : array'[j].pages \in heap' \cup {NULL}
        BY <3>1, <2>r
      <4>4. \A j \in InUse' : array'[j].pages # NULL =>
                              array'[j].pages # head'.pages
        BY <3>1, <2>r, SMTT(30)
      <4>5. \A j, k \in InUse : j # k /\ array'[j].pages # NULL =>
                               array'[k].pages # array'[j].pages
        <5> DEFINE twin(j) == IF j = 0 THEN i ELSE IF j = i THEN 0 ELSE j
        <5>1. \A j \in InUse : twin(j) \in InUse /\ array'[j] = arr[twin(j)]
          BY <3>1
        <5>2. \A j, k \in InUse : j # k => twin(j) # twin(k)
          OBVIOUS
        <5>3. \A j, k \in InUse : j # k /\ arr[j].pages # NULL =>
                                 arr[k].pages # arr[j].pages
          BY <2>r
        <5> HIDE DEF twin
        <5> SUFFICES ASSUME NEW j \in InUse, NEW k \in InUse, j # k,
                            array'[j].pages # NULL
                     PROVE  array'[k].pages # array'[j].pages
          OBVIOUS
        <5>4. /\ twin(j) \in InUse /\ array'[j] = arr[twin(j)]
              /\ twin(k) \in InUse /\ array'[k] = arr[twin(k)]
              /\ twin(j) # twin(k)
          BY <5>1, <5>2, Zenon
        <5>5. arr[twin(j)].pages # NULL
          BY <5>4, Zenon
        <5>6. arr[twin(k)].pages # arr[twin(j)].pages
          BY <5>3, <5>4, <5>5, Zenon
        <5> QED
          BY <5>4, <5>6, Zenon
      <4> QED
        BY <3>1, <4>1, <4>2, <4>3, <4>4, <4>5 DEF RegionsOwnedOnce, SlotsOf
    <3>4. OneSpareChunk'
      BY <3>1, <2>4, <2>s DEF OneSpareChunk
    <3> QED
      BY <1>w, <2>n, <3>2, <3>3, <3>4, <3>5 DEF IInv
  <2>5. CASE i # 0 /\ arr[0].mask = AllFree /\ arr[i].mask = AllFree
             /\ ChunkFree(i, arr)
    <3> DEFINE last == array_last - 1
    <3>1. /\ InUse' = InUse \ {last} /\ last \in InUse
          /\ heap' = heap \ {arr[i].pages}
          /\ array'[i] = arr[last]
          /\ \A j \in InUse : j # i => array'[j] = arr[j]
      BY <2>5 DEF ChunkFree, InUse
    <3>2. arr[i].pages # NULL
      BY <2>5 DEF AllFree, Positions
    <3>3. \A q \in Positions : live'[<<arr[i].pages, q>>] = 0
      BY <2>5, <3>2 DEF AllFree
    <3> HIDE DEF last
    <3>4. LiveInHeap'
      BY <3>1, <3>3 DEF LiveInHeap
    <3>5. MasksExact'
      BY <3>1 DEF MasksExact
    <3>8. NullChunks'
      BY <3>1 DEF IInv, NullChunks
    <3>6. RegionsOwnedOnce'
      <4>1. \A r \in heap' : head.pages = r \/ \E j \in InUse' : array'[j].pages = r
        BY <3>1, <2>r, SMTT(30)
      <4>2. head'.pages \in heap' \cup {NULL}
        BY <3>1, <3>2, <2>r
      <4>3. \A j \in InUse' : array'[j].pages \in heap' \cup {NULL}
        BY <3>1, <3>2, <2>r
      <4>4. \A j \in InUse' : array'[j].pages # NULL =>
             /\ array'[j].pages # head'.pages
             /\ \A k \in InUse' \ {j} : array'[k].pages # array'[j].pages
        BY <3>1, <2>r, SMTT(30)
      <4> QED
        BY <4>1, <4>2, <4>3, <4>4 DEF RegionsOwnedOnce, SlotsOf
    <3>7. OneSpareChunk'
      <4>1. last # i => (arr[last].mask = AllFree => last = 0)
        BY <3>1, <2>s
      <4>2. last # 0
        BY <2>5 DEF last, InUse
      <4> QED
        BY <3>1, <4>1, <4>2, <2>s DEF OneSpareChunk
    <3> QED
      BY <1>w, <2>n, <3>4, <3>5, <3>6, <3>7, <3>8 DEF IInv
  <2> QED
    BY <2>2, <2>3, <2>4, <2>5
<1> QED
  BY <1>3, <1>4

LEMMA IInvStep ==
  ASSUME ~ GcInRealloc, TypeInv, IInv, [Next]_vars
  PROVE  IInv'
<1> USE RmemAssumption
<1>t. TypeOK /\ TypeOK'
  BY TypeInvStep DEF TypeInv
<1>1. CASE AllocFromHead
  BY <1>t, <1>1, AllocFromHeadStep
<1>2. CASE AllocFromArray
  BY <1>t, <1>2, AllocFromArrayStep
<1>3. CASE BeginChunk
  <2>1. head.mask = {} /\ pc # "malloc" /\ MoveHead(array_last, array)
        /\ UNCHANGED <<heap, live>>
    BY <1>3 DEF BeginChunk, Exhausted, Available
  <2>2. array_last \in DOMAIN array
    BY <1>3, <1>t DEF BeginChunk, TypeOK
  <2> QED
    BY <1>t, <2>1, <2>2, MoveHeadStep
<1>4. CASE BeginGrow
  <2>1. /\ UNCHANGED <<head, array, array_last, capacity, heap, live, InUse>>
        /\ pc' = "realloc" /\ length' = array_last /\ array_last = capacity
        /\ head.mask = {}
    BY <1>4 DEF BeginGrow, Exhausted, Available, InUse
  <2>2. NoSharedPages' /\ LiveInHeap' /\ OneSpareChunk' /\ NullChunks'
    BY <2>1 DEF IInv, NoSharedPages, LiveInHeap, OneSpareChunk, NullChunks
  <2>3. RegionsOwnedOnce' /\ MasksExact'
    BY <2>1 DEF IInv, RegionsOwnedOnce, MasksExact, SlotsOf
  <2>4. Windows'
    BY <2>1 DEF Windows
  <2> QED
    BY <1>t, <2>2, <2>3, <2>4 DEF IInv
<1>5. CASE EndGrow
  <2>1. head.mask = {} /\ pc # "malloc" /\ MoveHead(array_last, GrownArray)
        /\ UNCHANGED <<heap, live>> /\ array_last = capacity
    BY <1>5 DEF EndGrow, IInv, Windows
  <2>2. GrownCapacity \in Nat /\ GrownCapacity > capacity
    BY <1>t DEF GrownCapacity, TypeOK
  <2>3. /\ \A i \in InUse : GrownArray[i] = array[i]
        /\ array_last \in DOMAIN GrownArray
    BY <1>t, <2>1, <2>2 DEF GrownArray, InUse, TypeOK
  <2> QED
    BY <1>t, <2>1, <2>3, MoveHeadStep
<1>6. CASE EndChunk
  BY <1>t, <1>6, EndChunkStep
<1>7. CASE MallocRaises
  <2>1. /\ UNCHANGED <<head, array, array_last, capacity, heap, live, InUse>>
        /\ pc' = "idle"
    BY <1>7 DEF MallocRaises, InUse
  <2>2. NoSharedPages' /\ LiveInHeap' /\ OneSpareChunk' /\ NullChunks'
    BY <2>1 DEF IInv, NoSharedPages, LiveInHeap, OneSpareChunk, NullChunks
  <2>3. RegionsOwnedOnce' /\ MasksExact'
    BY <2>1 DEF IInv, RegionsOwnedOnce, MasksExact, SlotsOf
  <2>4. Windows'
    BY <2>1 DEF Windows
  <2> QED
    BY <1>t, <2>2, <2>3, <2>4 DEF IInv
<1>8. ASSUME NEW p \in Page, Free(p) PROVE IInv'
  BY <1>t, <1>8, FreeToHeadStep, FreeToArrayStep DEF Free
<1>9. CASE UNCHANGED vars
  BY <1>9 DEF vars, IInv, TypeOK, NoSharedPages, LiveInHeap, RegionsOwnedOnce,
     MasksExact, OneSpareChunk, Windows, NullChunks, InUse, SlotsOf
<1> QED
  BY <1>1, <1>2, <1>3, <1>4, <1>5, <1>6, <1>7, <1>8, <1>9 DEF Next

\* As long as the collector does not run inside xrealloc, msgpack_rmem_alloc
\* never hands out a page that some buffer still holds, collections inside
\* xmalloc and allocations abandoned by NoMemoryError included.
THEOREM PagesNeverShared ==
  ASSUME ~ GcInRealloc
  PROVE  Spec => []NoSharedPages
<1>1. Init => TypeInv /\ IInv
  BY TypeInvInit, IInvInit
<1>2. TypeInv /\ IInv /\ [Next]_vars => (TypeInv /\ IInv)'
  BY TypeInvStep, IInvStep
<1>3. IInv => NoSharedPages
  BY DEF IInv
<1> QED
  BY <1>1, <1>2, <1>3, PTL DEF Spec

\* Under the same condition the regions of the pool are neither leaked nor
\* owned twice when chunks move between the head and the array.
THEOREM RegionsOwned ==
  ASSUME ~ GcInRealloc
  PROVE  Spec => []RegionsOwnedOnce
<1>1. Init => TypeInv /\ IInv
  BY TypeInvInit, IInvInit
<1>2. TypeInv /\ IInv /\ [Next]_vars => (TypeInv /\ IInv)'
  BY TypeInvStep, IInvStep
<1>3. IInv => RegionsOwnedOnce
  BY DEF IInv
<1> QED
  BY <1>1, <1>2, <1>3, PTL DEF Spec

\* Under the same condition the pool keeps at most one entirely free chunk
\* in its array, the first: every other one went back to malloc.
THEOREM SpareChunkBound ==
  ASSUME ~ GcInRealloc
  PROVE  Spec => []OneSpareChunk
<1>1. Init => TypeInv /\ IInv
  BY TypeInvInit, IInvInit
<1>2. TypeInv /\ IInv /\ [Next]_vars => (TypeInv /\ IInv)'
  BY TypeInvStep, IInvStep
<1>3. IInv => OneSpareChunk
  BY DEF IInv
<1> QED
  BY <1>1, <1>2, <1>3, PTL DEF Spec

\* Under the same condition the masks tell which pages the buffers hold.
THEOREM MasksTrue ==
  ASSUME ~ GcInRealloc
  PROVE  Spec => []MasksExact
<1>1. Init => TypeInv /\ IInv
  BY TypeInvInit, IInvInit
<1>2. TypeInv /\ IInv /\ [Next]_vars => (TypeInv /\ IInv)'
  BY TypeInvStep, IInvStep
<1>3. IInv => MasksExact
  BY DEF IInv
<1> QED
  BY <1>1, <1>2, <1>3, PTL DEF Spec
-----------------------------------------------------------------------------
(* Null pages, and the refinement of the abstract allocator. *)

LEMMA NoNullInit == Init => NoNull
BY RmemAssumption DEF Init, NoNull, InUse, Page, Address

LEMMA NoNullStep ==
  ASSUME ~ GcInRealloc, TypeInv, IInv, NoNull, [Next]_vars
  PROVE  NoNull'
<1> USE RmemAssumption
<1>0. raises' = raises \/ MallocRaises
  BY DEF Next, AllocFromHead, AllocFromArray, BeginChunk, BeginGrow, EndGrow,
         EndChunk, Free, vars
<1>r. raises' # 0 => NoNull'
  BY DEF NoNull
<1>m. MallocRaises => raises' # 0
  BY DEF MallocRaises, TypeInv, TypeOK
<1> SUFFICES ASSUME raises = 0, ~ MallocRaises PROVE NoNull'
  BY <1>0, <1>r, <1>m
<1>t. TypeOK /\ TypeOK' /\ raises = 0
  BY TypeInvStep DEF TypeInv, TypeOK
<1>n. /\ pc # "malloc" => head.pages # NULL
      /\ \A i \in InUse : array[i].pages # NULL
      /\ \A pos \in Positions : live[<<NULL, pos>>] = 0
  BY <1>t DEF NoNull
<1>l. ASSUME NEW r \in Regions, NEW q \in Positions, HandOut(<<r, q>>)
      PROVE  \A pos \in Positions : live'[<<NULL, pos>>] = 0
  <2>1. \A pos \in Positions : <<NULL, pos>> \in Page /\ <<NULL, pos>> # <<r, q>>
    BY DEF Page, Address
  <2> QED
    BY <1>t, <1>n, <1>l, <2>1 DEF HandOut, TypeOK
<1>1. CASE AllocFromHead
  <2>1. PICK pos \in head.mask : head' = Take(head, pos)
                                 /\ HandOut(<<head.pages, pos>>)
    BY <1>1 DEF AllocFromHead
  <2>2. /\ head.pages \in Regions /\ pos \in Positions
        /\ head'.pages = head.pages
        /\ UNCHANGED <<array, InUse>>
    BY <1>1, <1>t, <1>n, <2>1, Parts
    DEF AllocFromHead, Address, Take, TypeOK, Chunk, InUse
  <2> QED
    BY <1>n, <1>l, <2>1, <2>2 DEF NoNull
<1>2. CASE AllocFromArray
  <2>1. PICK i \in InUse : \E pos \in array[i].mask :
               /\ head' = Take(array[i], pos)
               /\ array' = [array EXCEPT ![i] = head]
               /\ HandOut(<<array[i].pages, pos>>)
    BY <1>2 DEF AllocFromArray
  <2>2. PICK pos \in array[i].mask :
               /\ head' = Take(array[i], pos)
               /\ array' = [array EXCEPT ![i] = head]
               /\ HandOut(<<array[i].pages, pos>>)
    BY <2>1
  <2>3. /\ array[i].pages \in Regions /\ pos \in Positions
        /\ head'.pages = array[i].pages
        /\ InUse' = InUse
        /\ \A j \in InUse : array'[j] = IF j = i THEN head ELSE array[j]
        /\ head.pages # NULL
    BY <1>2, <1>t, <1>n, <2>2, Parts
    DEF AllocFromArray, Address, Take, TypeOK, Chunk, InUse
  <2> QED
    BY <1>n, <1>l, <2>2, <2>3 DEF NoNull
<1>3. ASSUME NEW arr, MoveHead(array_last, arr), pc # "malloc", live' = live,
             \A i \in InUse : arr[i] = array[i], array_last \in DOMAIN arr
      PROVE  NoNull'
  <2>1. /\ InUse' = InUse \cup {array_last} /\ array_last \notin InUse
        /\ array'[array_last] = head
        /\ \A i \in InUse : array'[i] = array[i]
        /\ pc' = "malloc"
    <3>1. array_last' = array_last + 1
      BY <1>3 DEF MoveHead
    <3>2. InUse' = InUse \cup {array_last} /\ array_last \notin InUse
      BY <1>t, <3>1, Parts DEF InUse
    <3> QED
      BY <1>3, <3>2 DEF MoveHead
  <2> QED
    BY <1>n, <1>3, <2>1 DEF NoNull
<1>4. CASE BeginChunk
  <2>1. array_last \in DOMAIN array
    BY <1>4, <1>t DEF BeginChunk, TypeOK
  <2> QED
    BY <1>3, <1>4, <2>1 DEF BeginChunk
<1>5. CASE BeginGrow
  BY <1>5, <1>n DEF BeginGrow, NoNull, InUse
<1>6. CASE EndGrow
  <2>1. MoveHead(array_last, GrownArray) /\ array_last = capacity
        /\ pc # "malloc" /\ live' = live
    BY <1>6 DEF EndGrow, IInv, Windows
  <2>2. GrownCapacity \in Nat /\ GrownCapacity > capacity
    BY <1>t DEF GrownCapacity, TypeOK
  <2>3. /\ \A i \in InUse : GrownArray[i] = array[i]
        /\ array_last \in DOMAIN GrownArray
    BY <1>t, <2>1, <2>2 DEF GrownArray, InUse, TypeOK
  <2> QED
    BY <1>3, <2>1, <2>3
<1>7. CASE EndChunk
  <2>1. PICK r \in Regions \ heap : /\ head' = [head EXCEPT !.pages = r]
                                   /\ HandOut(<<r, 0>>)
    BY <1>7 DEF EndChunk
  <2>2. head'.pages = r /\ 0 \in Positions /\ UNCHANGED <<array, InUse>>
    BY <1>7, <1>t, <2>1 DEF EndChunk, TypeOK, Chunk, Positions, InUse
  <2> QED
    BY <1>n, <1>l, <2>1, <2>2 DEF NoNull
<1>8. CASE MallocRaises
  BY <1>8
<1>9. ASSUME NEW p \in Page, Free(p) PROVE NoNull'
  <2>1. \A pos \in Positions : live'[<<NULL, pos>>] = 0
    <3>1. \A pos \in Positions : <<NULL, pos>> \in Page /\ p # <<NULL, pos>>
      BY <1>9, <1>n DEF Free, Page, Address
    <3> QED
      BY <1>9, <1>t, <1>n, <3>1 DEF Free, TypeOK
  <2>2. pc' = pc
    BY <1>9 DEF Free
  <2>3. CASE FreeToHead(p)
    BY <1>9, <1>t, <1>n, <2>1, <2>2, <2>3
    DEF FreeToHead, Give, NoNull, TypeOK, Chunk, InUse
  <2>4. CASE FreeToArray(p)
    <3>1. head' = head
      BY <2>4 DEF FreeToArray
    <3>2. \A j \in InUse' : array'[j].pages # NULL
      <4>1. CASE SlotsOf(p[1]) = {}
        BY <1>n, <2>4, <4>1 DEF FreeToArray, InUse
      <4>2. CASE SlotsOf(p[1]) # {}
        <5>1. PICK i \in SlotsOf(p[1]) :
                LET arr == [array EXCEPT ![i] = Give(array[i], p[2])]
                IN  IF i # 0 /\ arr[i].mask = AllFree
                    THEN ChunkFree(i, arr)
                    ELSE array' = arr /\ UNCHANGED <<array_last, heap>>
          BY <2>4, <4>2 DEF FreeToArray
        <5> DEFINE arr == [array EXCEPT ![i] = Give(array[i], p[2])]
        <5>2. /\ i \in InUse /\ arr \in [0 .. capacity - 1 -> Chunk]
              /\ \A j \in InUse : arr[j].pages = array[j].pages
          <6>1. i \in InUse /\ p[2] \in Positions
            BY DEF SlotsOf, Page
          <6> QED
            <7>1. array \in [0 .. capacity - 1 -> Chunk] /\ InUse \subseteq 0 .. capacity - 1
              BY <1>t, Parts DEF TypeOK
            <7>2. array[i] \in Chunk
              BY <6>1, <7>1
            <7>3. Give(array[i], p[2]) \in Chunk /\ Give(array[i], p[2]).pages = array[i].pages
              BY <6>1, <7>2, ChunkTypes DEF Give, Chunk
            <7> QED
              BY <6>1, <7>1, <7>3
        <5>3. \/ array' = arr /\ UNCHANGED <<array_last, heap>>
              \/ i # 0 /\ ChunkFree(i, arr)
          BY <5>1
        <5>4. array_last \in 0 .. capacity /\ capacity \in Nat
          BY <1>t DEF TypeOK
        <5> HIDE DEF arr
        <5>5. CASE array' = arr /\ UNCHANGED <<array_last, heap>>
          BY <1>n, <5>2, <5>5 DEF InUse
        <5>6. CASE ChunkFree(i, arr) /\ arr[0].mask = AllFree
          <6>1. /\ InUse' \subseteq InUse /\ array_last - 1 \in InUse
                /\ array' = [arr EXCEPT ![i] = arr[array_last - 1]]
            BY <5>2, <5>4, <5>6 DEF ChunkFree, InUse
          <6> QED
            BY <1>n, <5>2, <5>4, <6>1 DEF InUse
        <5>7. CASE ChunkFree(i, arr) /\ arr[0].mask # AllFree
          <6>1. /\ InUse' = InUse /\ 0 \in InUse
                /\ array' = [arr EXCEPT ![0] = arr[i], ![i] = arr[0]]
            BY <5>2, <5>4, <5>7 DEF ChunkFree, InUse
          <6>2. \A j \in InUse : \E k \in InUse : array'[j] = arr[k]
            BY <5>2, <5>4, <6>1 DEF InUse
          <6>3. \A k \in InUse : arr[k].pages # NULL
            BY <1>n, <5>2
          <6> QED
            BY <6>1, <6>2, <6>3, Zenon
        <5> QED
          BY <5>3, <5>5, <5>6, <5>7
      <4> QED
        BY <4>1, <4>2
    <3> QED
      BY <1>n, <2>1, <2>2, <3>1, <3>2 DEF NoNull
  <2> QED
    BY <1>9, <2>3, <2>4 DEF Free
<1>10. CASE UNCHANGED vars
  BY <1>10 DEF vars, NoNull, InUse
<1> QED
  BY <1>1, <1>2, <1>4, <1>5, <1>6, <1>7, <1>8, <1>9, <1>10 DEF Next

\* Under the same condition a buffer never holds a page of memory that the
\* pool gave back or never had, null pages after a NoMemoryError excepted.
THEOREM LivePagesStayAllocated ==
  ASSUME ~ GcInRealloc
  PROVE  Spec => []LivePagesAllocated
<1>1. Init => TypeInv /\ IInv /\ NoNull
  BY TypeInvInit, IInvInit, NoNullInit
<1>2. TypeInv /\ IInv /\ NoNull /\ [Next]_vars => (TypeInv /\ IInv /\ NoNull)'
  BY TypeInvStep, IInvStep, NoNullStep
<1>3. TypeInv /\ IInv /\ NoNull => LivePagesAllocated
  <2> SUFFICES ASSUME TypeInv, IInv, NoNull, NEW p \in Page, live[p] > 0
               PROVE  p[1] \in heap \/ (p[1] = NULL /\ raises > 0)
    BY DEF LivePagesAllocated
  <2>1. p = <<p[1], p[2]>> /\ p[1] \in Address /\ p[2] \in Positions
    BY DEF Page
  <2>2. raises \in Nat
    BY RmemAssumption DEF TypeInv, TypeOK
  <2>3. CASE p[1] \in Regions
    BY <2>1, <2>3 DEF IInv, LiveInHeap
  <2>4. CASE p[1] = NULL
    BY <2>1, <2>2, <2>4 DEF NoNull
  <2> QED
    BY <2>1, <2>3, <2>4 DEF Address
<1> QED
  BY <1>1, <1>2, <1>3, PTL DEF Spec

LEMMA AllocatorInit == Init => Allocator!Init
<1> SUFFICES ASSUME Init PROVE Allocator!Init
  OBVIOUS
<1>1. PICK r \in Regions : heap = {r}
  BY DEF Init
<1>2. <<r, 0>> \in RealPage /\ <<r, 0>>[1] = r
  BY RmemAssumption DEF RealPage, Positions
<1>3. RealLive = [p \in RealPage |-> 0]
  BY DEF Init, RealLive, RealPage, Page, Address
<1> QED
  BY <1>1, <1>2, <1>3 DEF Allocator!Init

\* Free of a page of the array gives back no region but that of the page.
LEMMA FreeToArrayHeap ==
  ASSUME TypeInv, NEW p \in Page, FreeToArray(p)
  PROVE  heap' = heap \/ heap' = heap \ {p[1]}
<1> USE RmemAssumption
<1>1. CASE SlotsOf(p[1]) = {}
  BY <1>1 DEF FreeToArray
<1>2. CASE SlotsOf(p[1]) # {}
  <2>1. PICK i \in SlotsOf(p[1]) :
          LET arr == [array EXCEPT ![i] = Give(array[i], p[2])]
          IN  IF i # 0 /\ arr[i].mask = AllFree
              THEN ChunkFree(i, arr)
              ELSE array' = arr /\ UNCHANGED <<array_last, heap>>
    BY <1>2 DEF FreeToArray
  <2> DEFINE arr == [array EXCEPT ![i] = Give(array[i], p[2])]
  <2>2. arr[i].pages = p[1]
    <3>1. TypeOK /\ i \in InUse /\ array[i].pages = p[1]
      BY DEF SlotsOf, TypeInv
    <3>2. array[i] \in Chunk /\ arr[i] = Give(array[i], p[2])
      BY <3>1, Parts DEF TypeOK, InUse
    <3> QED
      BY <3>1, <3>2 DEF Give, Chunk
  <2>3. UNCHANGED heap \/ ChunkFree(i, arr)
    BY <2>1
  <2> HIDE DEF arr
  <2> QED
    BY <2>2, <2>3 DEF ChunkFree
<1> QED
  BY <1>1, <1>2

\* What a change of one counter looks like to the abstract allocator.
LEMMA RealLiveChange ==
  ASSUME TypeOK, NEW p \in Page, NEW n, live' = [live EXCEPT ![p] = n]
  PROVE  /\ p \in RealPage => RealLive' = [RealLive EXCEPT ![p] = n]
         /\ p \notin RealPage => RealLive' = RealLive
<1>1. RealPage \subseteq Page /\ \A q \in RealPage :
        live'[q] = IF q = p THEN n ELSE live[q]
  BY DEF RealPage, Page, Address, TypeOK
<1>2. RealLive' = [q \in RealPage |-> live'[q]]
  BY DEF RealLive
<1> QED
  BY <1>1, <1>2 DEF RealLive

LEMMA AllocatorStep ==
  ASSUME ~ GcInRealloc, TypeInv, IInv, [Next]_vars
  PROVE  [Allocator!Next]_<<RealLive, heap>>
<1> USE RmemAssumption
<1>t. TypeOK /\ IInv'
  BY IInvStep DEF TypeInv
<1>n. NULL \notin heap
  BY <1>t DEF TypeOK
<1>a. ASSUME NEW r \in Regions, NEW pos \in Positions,
             HandOut(<<r, pos>>), live[<<r, pos>>] = 0,
             heap' = heap \cup {r}
      PROVE  Allocator!Next
  <2>1. <<r, pos>> \in RealPage /\ <<r, pos>> \in Page /\ <<r, pos>>[1] = r
    BY DEF RealPage, Page, Address
  <2>2. live' = [live EXCEPT ![<<r, pos>>] = 1]
    BY <1>a DEF HandOut
  <2>3. RealLive' = [RealLive EXCEPT ![<<r, pos>>] = 1]
    BY <1>t, <2>1, <2>2, RealLiveChange
  <2>4. RealLive[<<r, pos>>] = 0
    BY <1>a, <2>1 DEF RealLive
  <2>5. heap' = heap \cup {<<r, pos>>[1]}
    BY <1>a, <2>1
  <2>6. Allocator!Alloc(<<r, pos>>)
    BY <2>3, <2>4, <2>5, Zenon DEF Allocator!Alloc
  <2> QED
    BY <2>1, <2>6, Zenon DEF Allocator!Next
<1>b. ASSUME NEW pos \in Positions, HandOut(<<NULL, pos>>), heap' = heap
      PROVE  UNCHANGED <<RealLive, heap>>
  <2>1. <<NULL, pos>> \in Page /\ <<NULL, pos>> \notin RealPage
    BY DEF RealPage, Page, Address
  <2>2. live' = [live EXCEPT ![<<NULL, pos>>] = live[<<NULL, pos>>] + 1]
    BY <1>b DEF HandOut
  <2> QED
    BY <1>b, <1>t, <2>1, <2>2, RealLiveChange
<1>f. ASSUME NEW p \in Page, Free(p)
      PROVE  [Allocator!Next]_<<RealLive, heap>>
  <2>1. p = <<p[1], p[2]>> /\ p[1] \in Address /\ p[2] \in Positions
    BY DEF Page
  <2>2. heap' = heap \/ heap' = heap \ {p[1]}
    BY <1>f, FreeToArrayHeap DEF Free, FreeToHead
  <2>3. live' = [live EXCEPT ![p] = live[p] - 1]
    BY <1>f DEF Free
  <2>4. CASE p[1] = NULL
    <3>1. p \notin RealPage
      BY <2>4 DEF RealPage
    <3> QED
      BY <1>n, <1>t, <2>2, <2>3, <2>4, <3>1, RealLiveChange
  <2>5. CASE p[1] \in Regions
    <3>1. p \in RealPage
      BY <2>1, <2>5 DEF RealPage
    <3>2. live[p] = 1
      <4>1. live[p] <= 1
        BY <3>1 DEF IInv, NoSharedPages, RealPage
      <4>2. live[p] \in Nat /\ live[p] > 0
        BY <1>f, <1>t DEF Free, TypeOK
      <4> QED
        BY <4>1, <4>2
    <3>3. RealLive[p] = 1 /\ RealLive' = [RealLive EXCEPT ![p] = 0]
      <4>1. live' = [live EXCEPT ![p] = 0]
        BY <2>3, <3>2
      <4>2. RealLive' = [RealLive EXCEPT ![p] = 0]
        BY <1>t, <3>1, <4>1, RealLiveChange
      <4> QED
        BY <3>1, <3>2, <4>2 DEF RealLive
    <3>4. heap' = heap \ {p[1]} => Allocator!Idle(p[1])
      <4> SUFFICES ASSUME heap' = heap \ {p[1]}, NEW q \in RealPage, q[1] = p[1]
                   PROVE  RealLive'[q] = 0
        BY DEF Allocator!Idle
      <4>1. q = <<p[1], q[2]>> /\ q[2] \in Positions /\ q \in Page
        BY DEF RealPage, Page, Address
      <4>2. live'[q] \in Nat
        BY <1>t, <4>1 DEF IInv, TypeOK
      <4>3. ~ (live'[q] > 0)
        BY <1>t, <2>5, <4>1 DEF IInv, LiveInHeap
      <4> QED
        BY <4>2, <4>3 DEF RealLive
    <3>5. Allocator!Free(p)
      BY <2>2, <3>3, <3>4 DEF Allocator!Free
    <3> QED
      BY <3>1, <3>5 DEF Allocator!Next
  <2> QED
    BY <2>1, <2>4, <2>5 DEF Address
<1>1. CASE AllocFromHead
  <2>1. PICK pos \in head.mask : HandOut(<<head.pages, pos>>)
    BY <1>1 DEF AllocFromHead
  <2>2. head.pages \in Address /\ pos \in Positions /\ heap' = heap
    BY <1>1, <1>t, Parts DEF AllocFromHead
  <2>3. CASE head.pages = NULL
    BY <1>b, <2>1, <2>2, <2>3
  <2>4. CASE head.pages \in Regions
    <3>1. live[<<head.pages, pos>>] = 0
      BY <2>2, <2>4 DEF IInv, MasksExact
    <3>2. heap' = heap \cup {head.pages}
      BY <2>2, <2>4 DEF IInv, RegionsOwnedOnce
    <3> QED
      BY <1>a, <2>1, <2>2, <2>4, <3>1, <3>2
  <2> QED
    BY <2>2, <2>3, <2>4 DEF Address
<1>2. CASE AllocFromArray
  <2>1. PICK i \in InUse : \E pos \in array[i].mask :
               HandOut(<<array[i].pages, pos>>)
    BY <1>2 DEF AllocFromArray
  <2>2. PICK pos \in array[i].mask : HandOut(<<array[i].pages, pos>>)
    BY <2>1
  <2>3. array[i].pages \in Address /\ pos \in Positions /\ heap' = heap
    BY <1>2, <1>t, Parts DEF AllocFromArray
  <2>4. CASE array[i].pages = NULL
    BY <1>b, <2>2, <2>3, <2>4
  <2>5. CASE array[i].pages \in Regions
    <3>1. live[<<array[i].pages, pos>>] = 0
      BY <2>3, <2>5 DEF IInv, MasksExact
    <3>2. heap' = heap \cup {array[i].pages}
      BY <2>3, <2>5 DEF IInv, RegionsOwnedOnce
    <3> QED
      BY <1>a, <2>2, <2>3, <2>5, <3>1, <3>2
  <2> QED
    BY <2>3, <2>4, <2>5 DEF Address
<1>3. CASE EndChunk
  <2>1. PICK r \in Regions \ heap : /\ HandOut(<<r, 0>>)
                                    /\ heap' = heap \cup {r}
    BY <1>3 DEF EndChunk
  <2>2. 0 \in Positions
    BY DEF Positions
  <2>3. live[<<r, 0>>] = 0
    BY <1>t, <2>2, Parts DEF IInv, LiveInHeap, Address
  <2> QED
    BY <1>a, <2>1, <2>2, <2>3
<1>4. CASE live' = live /\ heap' = heap
  BY <1>4 DEF RealLive
<1> QED
  BY <1>1, <1>2, <1>3, <1>4, <1>f
  DEF Next, BeginChunk, BeginGrow, EndGrow, MallocRaises, vars

\* The pool implements the abstract allocator: whatever moves between head
\* and array, and whenever the collector runs outside xrealloc, a step hands
\* out a page nobody holds, takes one page back, or changes nothing a buffer
\* can see, and no region goes back to malloc under a page still held.
THEOREM PoolImplementsAllocator ==
  ASSUME ~ GcInRealloc
  PROVE  Spec => AllocatorSpec
<1>1. Init => TypeInv /\ IInv
  BY TypeInvInit, IInvInit
<1>2. TypeInv /\ IInv /\ [Next]_vars => (TypeInv /\ IInv)'
  BY TypeInvStep, IInvStep
<1>3. TypeInv /\ IInv /\ [Next]_vars => [Allocator!Next]_<<RealLive, heap>>
  BY AllocatorStep
<1> QED
  BY <1>1, <1>2, <1>3, AllocatorInit, PTL
  DEF Spec, AllocatorSpec, Allocator!Spec
=============================================================================
