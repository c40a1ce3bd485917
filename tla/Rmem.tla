-------------------------------- MODULE Rmem --------------------------------
(***************************************************************************)
(* The page pool that every MessagePack::Buffer of the process shares      *)
(* (ext/msgpack/rmem.h, ext/msgpack/rmem.c).                               *)
(*                                                                         *)
(* The pool is a head chunk and an array of chunks; a chunk is a region of *)
(* NPages pages and the mask of its free pages.  All callers hold the VM   *)
(* lock, so operations do not interleave with each other, with one         *)
(* exception: xmalloc and xrealloc may run the garbage collector, which    *)
(* frees dead buffers and calls msgpack_rmem_free in the middle of         *)
(* _msgpack_rmem_alloc2.  The two calls are the two program points         *)
(* "realloc" and "malloc" below.                                           *)
(***************************************************************************)
EXTENDS Integers

CONSTANTS
    Regions,        \* the addresses xmalloc may return for a chunk's pages
    NULL,           \* the null pointer
    NPages,         \* pages in a chunk (32 in the code)
    InitCapacity,   \* first size of the array (8 in the code)
    GcInRealloc,    \* may the collector run inside xrealloc?
    MaxRaises       \* how often xmalloc may raise NoMemoryError (a bound)

ASSUME RmemAssumption ==
    /\ NULL \notin Regions
    /\ NPages \in Nat /\ NPages > 1
    /\ InitCapacity \in Nat /\ InitCapacity > 0
    /\ GcInRealloc \in BOOLEAN
    /\ MaxRaises \in Nat

Positions == 0 .. NPages - 1
Address   == Regions \cup {NULL}
Page      == Address \X Positions
Chunk     == [mask : SUBSET Positions, pages : Address]

AllFree    == Positions                     \* 0xffffffff
FirstTaken == Positions \ {0}               \* 0xffffffff & (~1)
Blank      == [mask |-> {}, pages |-> NULL] \* memory nobody has written yet

VARIABLES
    head,        \* pm->head
    array,       \* the chunks behind pm->array_first; its tail is stale
    array_last,  \* pm->array_last - pm->array_first: chunks in use
    capacity,    \* pm->array_end - pm->array_first
    length,      \* the local of _msgpack_rmem_alloc2 kept across xrealloc
    pc,          \* where an unfinished _msgpack_rmem_alloc2 stands
    raises,      \* how often xmalloc has raised
    heap,        \* the regions xmalloc returned and xfree did not take
    live         \* how many buffers hold each page

pool == <<head, array, array_last, capacity>>
vars == <<head, array, array_last, capacity, length, pc, raises, heap, live>>

TypeOK ==
    /\ head \in Chunk
    /\ capacity \in Nat
    /\ array \in [0 .. capacity - 1 -> Chunk]
    /\ array_last \in 0 .. capacity
    /\ length \in Nat
    /\ pc \in {"idle", "realloc", "malloc"}
    /\ raises \in 0 .. MaxRaises
    /\ heap \subseteq Regions
    /\ live \in [Page -> Nat]

\* msgpack_rmem_init: one chunk, all of it free, and no array.
Init ==
    /\ \E r \in Regions : /\ head = [mask |-> AllFree, pages |-> r]
                          /\ heap = {r}
    /\ capacity = 0
    /\ array = [i \in 0 .. -1 |-> Blank]
    /\ array_last = 0
    /\ length = 0
    /\ pc = "idle"
    /\ raises = 0
    /\ live = [p \in Page |-> 0]

Available(c) == c.mask # {}
InUse == 0 .. array_last - 1
SlotsOf(r) == {i \in InUse : array[i].pages = r}

HandOut(p) == live' = [live EXCEPT ![p] = @ + 1]

\* _msgpack_rmem_chunk_alloc takes the lowest free page of a chunk.
IsLowest(pos, mask) == /\ pos \in mask
                       /\ \A q \in mask : pos <= q
Take(c, pos) == [c EXCEPT !.mask = @ \ {pos}]

\* msgpack_rmem_alloc, the inlined fast path.
AllocFromHead ==
    /\ pc = "idle"
    /\ \E pos \in head.mask :
         /\ IsLowest(pos, head.mask)
         /\ head' = Take(head, pos)
         /\ HandOut(<<head.pages, pos>>)
    /\ UNCHANGED <<array, array_last, capacity, length, pc, raises, heap>>

\* Mutant: the exhausted head is forgotten instead of changing places.
AllocFromArrayDropsHead ==
    /\ pc = "idle"
    /\ ~ Available(head)
    /\ \E i \in InUse : \E pos \in array[i].mask :
         /\ \A j \in 0 .. i - 1 : ~ Available(array[j])
         /\ IsLowest(pos, array[i].mask)
         /\ head' = Take(array[i], pos)
         /\ array' = [array EXCEPT ![i] = Take(array[i], pos)]
         /\ HandOut(<<array[i].pages, pos>>)
    /\ UNCHANGED <<array_last, capacity, length, pc, raises, heap>>

\* _msgpack_rmem_alloc2: the first chunk of the array with a free page gives
\* it and changes places with the exhausted head.
AllocFromArray ==
    /\ pc = "idle"
    /\ ~ Available(head)
    /\ \E i \in InUse : \E pos \in array[i].mask :
         /\ \A j \in 0 .. i - 1 : ~ Available(array[j])
         /\ IsLowest(pos, array[i].mask)
         /\ head' = Take(array[i], pos)
         /\ array' = [array EXCEPT ![i] = head]
         /\ HandOut(<<array[i].pages, pos>>)
    /\ UNCHANGED <<array_last, capacity, length, pc, raises, heap>>

Exhausted == ~ Available(head) /\ \A i \in InUse : ~ Available(array[i])

\* Mutant: the region stays behind the head while xmalloc runs.
MoveHeadKeepsRegion(i, arr) ==
    /\ array' = [arr EXCEPT ![i] = head]
    /\ array_last' = i + 1
    /\ head' = [mask |-> FirstTaken, pages |-> head.pages]
    /\ pc' = "malloc"

\* The head goes to slot i of the array and is emptied before xmalloc, so
\* that a collection inside xmalloc does not see its region twice.
MoveHead(i, arr) ==
    /\ array' = [arr EXCEPT ![i] = head]
    /\ array_last' = i + 1
    /\ head' = [mask |-> FirstTaken, pages |-> NULL]
    /\ pc' = "malloc"

\* Mutant: the array is taken to have room when it is full.
BeginChunkOffByOne ==
    /\ pc = "idle"
    /\ Exhausted
    /\ array_last <= capacity
    /\ MoveHead(array_last, array)
    /\ UNCHANGED <<capacity, length, raises, heap, live>>

\* _msgpack_rmem_alloc2 with room in the array, up to the call of xmalloc.
BeginChunk ==
    /\ pc = "idle"
    /\ Exhausted
    /\ array_last < capacity
    /\ MoveHead(array_last, array)
    /\ UNCHANGED <<capacity, length, raises, heap, live>>

\* _msgpack_rmem_alloc2 with a full array, up to the call of xrealloc:
\* length is read before the call and used after it.
BeginGrow ==
    /\ pc = "idle"
    /\ Exhausted
    /\ array_last = capacity
    /\ length' = array_last
    /\ pc' = "realloc"
    /\ UNCHANGED <<head, array, array_last, capacity, raises, heap, live>>

GrownCapacity == IF capacity = 0 THEN InitCapacity ELSE 2 * capacity
GrownArray == [i \in 0 .. GrownCapacity - 1 |->
                 IF i < capacity THEN array[i] ELSE Blank]

\* xrealloc returns; the code goes on up to the call of xmalloc.
EndGrow ==
    /\ pc = "realloc"
    /\ capacity' = GrownCapacity
    /\ MoveHead(length, GrownArray)
    /\ UNCHANGED <<length, raises, heap, live>>

\* xmalloc returns a region and its first page goes to the caller.
EndChunk ==
    /\ pc = "malloc"
    /\ \E r \in Regions \ heap :
         /\ head' = [head EXCEPT !.pages = r]
         /\ heap' = heap \cup {r}
         /\ HandOut(<<r, 0>>)
    /\ pc' = "idle"
    /\ UNCHANGED <<array, array_last, capacity, length, raises>>

\* xmalloc raises NoMemoryError out of _msgpack_rmem_alloc2.
MallocRaises ==
    /\ pc = "malloc"
    /\ raises < MaxRaises
    /\ raises' = raises + 1
    /\ pc' = "idle"
    /\ UNCHANGED <<head, array, array_last, capacity, length, heap, live>>

\* Mutants: the region of the chunk that moves is freed; no chunk is ever
\* given back.
ChunkFreeLastRegion(i, arr) ==
    IF arr[0].mask = AllFree
    THEN /\ array_last' = array_last - 1
         /\ heap' = heap \ {arr[array_last - 1].pages}
         /\ array' = [arr EXCEPT ![i] = arr[array_last - 1]]
    ELSE /\ array' = [arr EXCEPT ![0] = arr[i], ![i] = arr[0]]
         /\ UNCHANGED <<array_last, heap>>
ChunkFreeOnlySwaps(i, arr) ==
    /\ array' = [arr EXCEPT ![0] = arr[i], ![i] = arr[0]]
    /\ UNCHANGED <<array_last, heap>>

\* _msgpack_rmem_chunk_free of slot i, whose last page (arr) is just back:
\* one entirely free chunk is kept, in the first slot; a second one goes
\* back to malloc and the last chunk of the array takes its slot.
ChunkFree(i, arr) ==
    IF arr[0].mask = AllFree
    THEN /\ array_last' = array_last - 1
         /\ heap' = heap \ {arr[i].pages}
         /\ array' = [arr EXCEPT ![i] = arr[array_last - 1]]
    ELSE /\ array' = [arr EXCEPT ![0] = arr[i], ![i] = arr[0]]
         /\ UNCHANGED <<array_last, heap>>

\* Mutant: the mask is overwritten instead of extended.
GiveOverwrites(c, pos) == [c EXCEPT !.mask = {pos}]

Give(c, pos) == [c EXCEPT !.mask = @ \cup {pos}]

\* The collector may free a buffer at any allocation; between allocations a
\* buffer frees its own pages.
MayFree == pc = "realloc" => GcInRealloc

FreeToHead(p) ==
    /\ head.pages = p[1]
    /\ head' = Give(head, p[2])
    /\ UNCHANGED <<array, array_last, heap>>

\* The array is searched from its last chunk; a page of no chunk is ignored.
FreeToArray(p) ==
    /\ head.pages # p[1]
    /\ UNCHANGED head
    /\ IF SlotsOf(p[1]) = {}
       THEN UNCHANGED <<array, array_last, heap>>
       ELSE \E i \in SlotsOf(p[1]) :
              /\ \A j \in SlotsOf(p[1]) : j <= i
              /\ LET arr == [array EXCEPT ![i] = Give(array[i], p[2])]
                 IN  IF i # 0 /\ arr[i].mask = AllFree
                     THEN ChunkFree(i, arr)
                     ELSE array' = arr /\ UNCHANGED <<array_last, heap>>

\* msgpack_rmem_free of a page that some buffer holds.
Free(p) ==
    /\ MayFree
    /\ live[p] > 0
    /\ live' = [live EXCEPT ![p] = @ - 1]
    /\ FreeToHead(p) \/ FreeToArray(p)
    /\ UNCHANGED <<capacity, length, pc, raises>>

Next ==
    \/ AllocFromHead
    \/ AllocFromArray
    \/ BeginChunk
    \/ BeginGrow
    \/ EndGrow
    \/ EndChunk
    \/ MallocRaises
    \/ \E p \in Page : Free(p)

Spec == Init /\ [][Next]_vars
-----------------------------------------------------------------------------
\* No page is in the hands of two buffers: msgpack_rmem_alloc never returns a
\* page it has returned before and not got back, whatever the collector frees
\* while an allocation is under way.
NoSharedPages == \A p \in Regions \X Positions : live[p] <= 1

\* A page in the hands of a buffer lies in memory the pool still owns:
\* _msgpack_rmem_chunk_free never gives back a region that is being written.
\* Only an xmalloc that raised leaves a chunk whose pages are cut from the
\* null pointer.
LivePagesAllocated ==
    \A p \in Page :
        live[p] > 0 => p[1] \in heap \/ (p[1] = NULL /\ raises > 0)

\* Every region taken from malloc is behind exactly one chunk: none is lost
\* (leaked) when chunks move between the head and the array, none is behind
\* two chunks, also when an allocation is abandoned half way.
RegionsOwnedOnce ==
    /\ \A r \in heap : head.pages = r \/ SlotsOf(r) # {}
    /\ head.pages \in heap \cup {NULL}
    /\ \A i \in InUse : array[i].pages \in heap \cup {NULL}
    /\ \A i \in InUse : array[i].pages # NULL =>
         /\ array[i].pages # head.pages
         /\ \A j \in InUse \ {i} : array[j].pages # array[i].pages

\* The masks tell the truth: a page is free in its chunk exactly when no
\* buffer holds it, so a page given back can be handed out again.
MasksExact ==
    /\ head.pages # NULL => \A pos \in Positions :
         pos \in head.mask <=> live[<<head.pages, pos>>] = 0
    /\ \A i \in InUse : array[i].pages # NULL => \A pos \in Positions :
         pos \in array[i].mask <=> live[<<array[i].pages, pos>>] = 0

\* Memory goes back to malloc: of the chunks in the array at most the first
\* is entirely free, however the chunks were emptied and moved about.
OneSpareChunk == \A i \in InUse : array[i].mask = AllFree => i = 0

\* The pool implements the abstract allocator: every step takes a page that
\* nobody held, gives back a page that one buffer held, or is internal; memory
\* comes from malloc with the first page cut from it and goes back only when
\* no buffer holds a page of it.  Pages of the null pointer are not pages.
RealPage == Regions \X Positions
RealLive == [p \in RealPage |-> live[p]]
Allocator == INSTANCE PageAllocator WITH Page <- RealPage, live <- RealLive
AllocatorSpec == Allocator!Spec
=============================================================================
