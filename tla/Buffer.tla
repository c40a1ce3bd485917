------------------------------- MODULE Buffer -------------------------------
(***************************************************************************)
(* One MessagePack buffer (ext/msgpack/buffer.h, buffer.c): a list of      *)
(* chunks that is written at its tail, read at its head and flushed to an  *)
(* IO.  A chunk lies in a page of the pool shared by all buffers, in a     *)
(* block of its own from malloc, or is a reference to a Ruby string.       *)
(*                                                                         *)
(* Bytes are numbered in the order in which they are accepted; 0 is a byte *)
(* of somebody else.  The buffers of the rest of the process take and give *)
(* back pages between the operations of this one and while it waits for    *)
(* the write method of its IO.                                             *)
(***************************************************************************)
EXTENDS Integers, Sequences, SequencesExt, FiniteSetsExt

CONSTANTS
    Page,         \* the pages of the pool
    NULL,         \* the null pointer
    PageSize,     \* bytes in a page (4096 in the code)
    Lengths,      \* lengths of the strings that are copied
    LongLengths,  \* lengths of the strings above write_reference_threshold
    Uses,         \* what buffers are used for: [io, ops], is there an IO
                  \* behind it and which operations does its owner call?
    MaxBytes      \* how many bytes are accepted in all (a bound)

OpNames == {"append", "ensure", "long", "feed", "read", "direct",
            "write_to", "clear", "call", "key"}

ASSUME BufferAssumption ==
    /\ NULL \notin Page
    /\ PageSize \in Nat /\ PageSize > 0
    /\ Lengths \subseteq Nat \ {0} /\ LongLengths \subseteq Nat \ {0}
    /\ Uses \subseteq [io : BOOLEAN, ops : SUBSET OpNames]
    /\ MaxBytes \in Nat

VARIABLES
    use,        \* the use of this buffer
    chunks,     \* from b->head to b->tail; empty when tail.first is NULL
    read,       \* b->read_buffer - b->head->first
    room,       \* b->tail_buffer_end - b->tail.last
    rmem_at,    \* the page b->rmem_last and b->rmem_end point into, or NULL
    rmem_last,  \* offset of b->rmem_last in that page (rmem_end: PageSize)
    memory,     \* what the pages hold
    live,       \* the pages the pool has handed out (PageAllocator)
    foreign,    \* those of them that other buffers hold
    written,    \* how many bytes the buffer has accepted
    taken,      \* how many bytes have left the buffer
    flushed,    \* the IO or the reader has received the bytes up to this one
    pc,         \* "idle", or inside a call of the IO's write method
    text,       \* the string passed to that call
    resume      \* what follows the flush: [op, n]

bvars == <<chunks, read, room, rmem_at, rmem_last>>
vars  == <<use, chunks, read, room, rmem_at, rmem_last, memory, live, foreign,
           written, taken, flushed, pc, text, resume>>

HasIo == use.io
Ops   == use.ops

Bytes == 0 .. MaxBytes
Chunk == [kind  : {"page", "heap", "ref"},
          at    : Page \cup {NULL},      \* the page of a "page" chunk,
          first : 0 .. PageSize,         \* where it starts in it
          last  : 0 .. PageSize,         \* and ends
          bytes : Seq(Bytes),            \* the bytes of the other kinds
          mem   : Page \cup {NULL}]      \* the page the chunk will free

PageChunk(p, first, last, mem) ==
    [kind |-> "page", at |-> p, first |-> first, last |-> last,
     bytes |-> <<>>, mem |-> mem]
OtherChunk(kind, s) ==
    [kind |-> kind, at |-> NULL, first |-> 0, last |-> 0,
     bytes |-> s, mem |-> NULL]

Blank == [i \in 1 .. PageSize |-> 0]  \* a page of somebody else

NoResume == [op |-> "none", n |-> 0]

TypeOK ==
    /\ use \in Uses
    /\ chunks \in Seq(Chunk)
    /\ read \in Nat /\ room \in Nat
    /\ rmem_at \in Page \cup {NULL}
    /\ rmem_last \in 0 .. PageSize
    /\ memory \in [Page -> Seq(Bytes)]
    /\ live \subseteq Page /\ foreign \subseteq live
    /\ {written, taken, flushed} \subseteq 0 .. MaxBytes
    /\ pc \in {"idle", "write", "resume", "write_long"}
    /\ text \in Seq(Bytes)
    /\ resume \in [op : {"none", "grow", "long"}, n : Nat]

Init ==
    /\ use \in Uses
    /\ chunks = <<>>
    /\ read = 0 /\ room = 0
    /\ rmem_at = NULL /\ rmem_last = 0
    /\ memory = [p \in Page |-> Blank]
    /\ live = {} /\ foreign = {}
    /\ written = 0 /\ taken = 0 /\ flushed = 0
    /\ pc = "idle" /\ text = <<>> /\ resume = NoResume
-----------------------------------------------------------------------------
(* Reading the structure. *)

Stored(c) == IF c.kind = "page"
             THEN SubSeq(memory[c.at], c.first + 1, c.last)
             ELSE c.bytes
Size(c) == IF c.kind = "page" THEN c.last - c.first ELSE Len(c.bytes)

\* What is left to read of chunk i (msgpack_buffer_top_readable_size for the
\* first one).
Unread(i) == IF i = 1 THEN SubSeq(Stored(chunks[1]), read + 1, Size(chunks[1]))
             ELSE Stored(chunks[i])
UnreadSize(i) == Size(chunks[i]) - (IF i = 1 THEN read ELSE 0)

SumUpTo(d, k) ==
    LET sum[i \in 0 .. k] == IF i = 0 THEN 0 ELSE sum[i - 1] + d[i] IN sum[k]

\* What is left to read of the first k chunks, and of all of them.
SizeOf(k) == SumUpTo([i \in DOMAIN chunks |-> UnreadSize(i)], k)
Readable == SizeOf(Len(chunks))
TopReadable == IF chunks = <<>> THEN 0 ELSE UnreadSize(1)

Fresh(n) == [i \in 1 .. n |-> written + i]
Accept(n) == /\ written + n <= MaxBytes
             /\ written' = written + n
-----------------------------------------------------------------------------
(* Writing. *)

Poke(m, c, s) ==
    IF c.kind # "page" THEN m
    ELSE [m EXCEPT ![c.at] = [i \in 1 .. PageSize |->
            IF i > c.last /\ i <= c.last + Len(s) THEN s[i - c.last] ELSE @[i]]]

Extended(c, s) == IF c.kind = "page" THEN [c EXCEPT !.last = @ + Len(s)]
                  ELSE [c EXCEPT !.bytes = @ \o s]

WithTail(cs, c) == [cs EXCEPT ![Len(cs)] = c]

\* Mutant: one byte too many is taken to fit.
PutInRoomOffByOne(s) ==
    /\ chunks # <<>> /\ Len(s) <= room + 1
    /\ chunks' = WithTail(chunks, Extended(Last(chunks), s))
    /\ memory' = Poke(memory, Last(chunks), s)
    /\ room' = room - Len(s)
    /\ UNCHANGED <<read, rmem_at, rmem_last, live>>

\* memcpy into the space behind the last byte.
PutInRoom(s) ==
    /\ Len(s) <= room
    /\ chunks' = WithTail(chunks, Extended(Last(chunks), s))
    /\ memory' = Poke(memory, Last(chunks), s)
    /\ room' = room - Len(s)
    /\ UNCHANGED <<read, rmem_at, rmem_last, live>>

\* Mutant: the bytes of the tail count as unused.
RewoundToFirst(cs) ==
    IF Len(cs) > 1 /\ Last(cs).at = rmem_at /\ rmem_last = PageSize
    THEN Last(cs).first
    ELSE rmem_last

\* rmem_last after _msgpack_buffer_add_new_chunk: with two chunks or more the
\* unused end of the page under the tail is made available again.
Rewound(cs) ==
    IF Len(cs) > 1 /\ Last(cs).at = rmem_at /\ rmem_last = PageSize
    THEN Last(cs).last
    ELSE rmem_last

\* The tail's own block grows by doubling (_msgpack_buffer_chunk_realloc).
CanRealloc(cs) == cs # <<>> /\ Last(cs).kind = "heap" /\ Size(Last(cs)) > PageSize
NextSize(size, required) ==
    LET next[v \in 1 .. 2 * required] == IF v >= required THEN v ELSE next[2 * v]
    IN  next[2 * size]

\* The chunk cut from the rest of the current page.  b->rmem_owner points at
\* the mem of the tail itself, which becomes NULL: the chunk before the tail,
\* or an earlier one, is left with the page.
RestOfPage(first) == PageChunk(rmem_at, first, first, NULL)

\* _msgpack_buffer_expand from its line 431 on: s goes to a new place at the
\* end of the chunks cs, in memory m.
Grow(cs, m, s) ==
    \/ /\ CanRealloc(cs)
       /\ chunks' = WithTail(cs, Extended(Last(cs), s))
       /\ room' = NextSize(Size(Last(cs)), Size(Last(cs)) + Len(s))
                    - (Size(Last(cs)) + Len(s))
       /\ memory' = m /\ UNCHANGED live
       /\ UNCHANGED <<read, rmem_at, rmem_last>>
    \/ /\ ~ CanRealloc(cs)
       /\ Len(s) > PageSize
       /\ chunks' = Append(cs, OtherChunk("heap", s))
       /\ room' = 0
       /\ rmem_last' = Rewound(cs)
       /\ memory' = m /\ UNCHANGED live
       /\ UNCHANGED <<read, rmem_at>>
    \/ /\ ~ CanRealloc(cs)
       /\ rmem_at # NULL /\ PageSize - Rewound(cs) >= Len(s)
       /\ LET c == RestOfPage(Rewound(cs))
          IN  /\ chunks' = Append(cs, Extended(c, s))
              /\ memory' = Poke(m, c, s)
              /\ room' = PageSize - Rewound(cs) - Len(s)
       /\ rmem_last' = PageSize
       /\ UNCHANGED <<read, rmem_at, live>>
    \/ /\ ~ CanRealloc(cs)
       /\ Len(s) <= PageSize
       /\ rmem_at = NULL \/ PageSize - Rewound(cs) < Len(s)
       /\ \E p \in Page \ live :
            LET c == PageChunk(p, 0, 0, p)
            IN  /\ chunks' = Append(cs, Extended(c, s))
                /\ memory' = Poke(m, c, s)
                /\ room' = PageSize - Len(s)
                /\ rmem_at' = p /\ rmem_last' = PageSize
                /\ live' = live \cup {p}
       /\ UNCHANGED read

\* Mutant: the bytes that fit the room are skipped but not stored.
SplitGrowLosesFront(s) ==
    /\ Len(s) > room
    /\ Grow(chunks, memory, SubSeq(s, room + 1, Len(s)))

\* msgpack_buffer_append without a flush: the room of the tail is filled and
\* the rest of the string goes to a new place.
SplitGrow(s) ==
    /\ Len(s) > room
    /\ IF room = 0 THEN Grow(chunks, memory, s)
       ELSE LET front == SubSeq(s, 1, room)
                back  == SubSeq(s, room + 1, Len(s))
            IN  Grow(WithTail(chunks, Extended(Last(chunks), front)),
                     Poke(memory, Last(chunks), front), back)

\* Mutant: the chunk is dropped before it is written.
BeginFlushShiftsFirst(then) ==
    /\ TopReadable > 0
    /\ pc' = "write"
    /\ text' = Unread(1)
    /\ resume' = then
    /\ taken' = taken + UnreadSize(1)
    /\ UNCHANGED <<bvars, memory, live, foreign, written, flushed>>

\* msgpack_buffer_flush_to_io up to its first call of the write method.
BeginFlush(then) ==
    /\ TopReadable > 0
    /\ pc' = "write"
    /\ text' = Unread(1)
    /\ resume' = then
    /\ UNCHANGED <<bvars, memory, live, foreign, written, taken, flushed>>

MustFlush == HasIo /\ TopReadable > 0
Quiet == UNCHANGED <<foreign, taken, flushed, pc, text, resume>>

\* msgpack_buffer_append of a string that is copied.
AppendCopy(n) ==
    /\ "append" \in Ops /\ pc = "idle"
    /\ written + n <= MaxBytes
    /\ \/ PutInRoom(Fresh(n)) /\ Accept(n) /\ Quiet
       \/ ~ MustFlush /\ SplitGrow(Fresh(n)) /\ Accept(n) /\ Quiet
       \/ MustFlush /\ n > room /\ BeginFlush([op |-> "grow", n |-> n])

\* msgpack_buffer_ensure_writable of n bytes and the write of these bytes:
\* they are never split over two chunks.
EnsureWrite(n) ==
    /\ "ensure" \in Ops /\ pc = "idle"
    /\ written + n <= MaxBytes
    /\ \/ PutInRoom(Fresh(n)) /\ Accept(n) /\ Quiet
       \/ /\ ~ MustFlush /\ n > room
          /\ Grow(chunks, memory, Fresh(n)) /\ Accept(n) /\ Quiet
       \/ MustFlush /\ n > room /\ BeginFlush([op |-> "grow", n |-> n])

\* _msgpack_buffer_append_reference: the string itself becomes the tail.
AppendReference(n) ==
    /\ "long" \in Ops /\ pc = "idle" /\ ~ HasIo
    /\ chunks' = Append(chunks, OtherChunk("ref", Fresh(n)))
    /\ room' = 0
    /\ rmem_last' = Rewound(chunks)
    /\ Accept(n) /\ Quiet
    /\ UNCHANGED <<read, rmem_at, memory, live>>

\* _msgpack_buffer_append_long_string with an IO, after its flush: a binary
\* string is passed on to the IO, another one is copied.
LongAfterFlush(n) ==
    \/ /\ written + n <= MaxBytes
       /\ pc' = "write_long" /\ text' = Fresh(n)
       /\ UNCHANGED <<bvars, memory, live, written>>
    \/ /\ PutInRoom(Fresh(n)) \/ SplitGrow(Fresh(n))
       /\ Accept(n)
       /\ pc' = "idle" /\ text' = <<>>

\* Mutant: the long string overtakes what is in the buffer.
AppendLongUnflushed(n) ==
    /\ "long" \in Ops /\ pc = "idle" /\ HasIo
    /\ written + n <= MaxBytes
    /\ LongAfterFlush(n) /\ UNCHANGED <<foreign, taken, flushed, resume>>

AppendLong(n) ==
    /\ "long" \in Ops /\ pc = "idle" /\ HasIo
    /\ written + n <= MaxBytes
    /\ IF MustFlush THEN BeginFlush([op |-> "long", n |-> n])
       ELSE LongAfterFlush(n) /\ UNCHANGED <<foreign, taken, flushed, resume>>

\* _msgpack_buffer_feed_from_io: the IO answers with n bytes.
FeedFromIo(n) ==
    /\ "feed" \in Ops /\ pc = "idle" /\ HasIo
    /\ PutInRoom(Fresh(n)) \/ SplitGrow(Fresh(n))
    /\ Accept(n) /\ Quiet
-----------------------------------------------------------------------------
(* Reading. *)

\* Mutant: the pages are not given back.
ConsumeLeaks(k, r) ==
    /\ chunks' = SubSeq(chunks, k + 1, Len(chunks))
    /\ read' = IF k = 0 THEN read + r ELSE r
    /\ IF k = Len(chunks)
       THEN room' = 0 /\ rmem_at' = NULL /\ rmem_last' = 0
       ELSE UNCHANGED <<room, rmem_at, rmem_last>>
    /\ UNCHANGED <<memory, live>>

\* The first k chunks are used up and r bytes of the next one are read; the
\* pages of the used up chunks go back to the pool, which may overwrite them,
\* and when the list becomes
\* empty the buffer forgets the page it was filling
\* (_msgpack_buffer_shift_chunk, _msgpack_buffer_consumed).
Consume(k, r) ==
    /\ live' = live \ {chunks[i].mem : i \in 1 .. k}
    /\ memory' = [p \in Page |-> IF p \in live' THEN memory[p] ELSE Blank]
    /\ chunks' = SubSeq(chunks, k + 1, Len(chunks))
    /\ read' = IF k = 0 THEN read + r ELSE r
    /\ IF k = Len(chunks)
       THEN room' = 0 /\ rmem_at' = NULL /\ rmem_last' = 0
       ELSE UNCHANGED <<room, rmem_at, rmem_last>>

\* Mutant: a chunk read to its end is not shifted (> for >=).
ReadShiftsLate(n) ==
    /\ "read" \in Ops /\ pc = "idle"
    /\ n <= Readable
    /\ \E k \in 0 .. Len(chunks) :
         /\ k > 0 => SizeOf(k) < n
         /\ k < Len(chunks) => n <= SizeOf(k + 1)
         /\ Consume(k, n - SizeOf(k))
    /\ taken' = taken + n
    /\ flushed' = Max({flushed, taken + n})
    /\ UNCHANGED <<foreign, written, pc, text, resume>>

\* msgpack_buffer_read_nonblock, msgpack_buffer_read_to_string_nonblock and
\* their kin take n bytes, n at most what is readable.
Read(n) ==
    /\ "read" \in Ops /\ pc = "idle"
    /\ n <= Readable
    /\ \E k \in 0 .. Len(chunks) :
         /\ SizeOf(k) <= n
         /\ k < Len(chunks) => n < SizeOf(k + 1)
         /\ Consume(k, n - SizeOf(k))
    /\ taken' = taken + n
    /\ flushed' = Max({flushed, taken + n})
    /\ UNCHANGED <<foreign, written, pc, text, resume>>

\* _msgpack_buffer_read_from_io_to_string, _msgpack_buffer_skip_from_io: with
\* nothing at the head the bytes go from the IO to the caller directly.
ReadDirectly(n) ==
    /\ "direct" \in Ops /\ pc = "idle" /\ HasIo
    /\ TopReadable = 0
    /\ Accept(n)
    /\ taken' = taken + n
    /\ flushed' = Max({flushed, taken + n})
    /\ UNCHANGED <<bvars, memory, live, foreign, pc, text, resume>>

\* msgpack_buffer_clear.
Clear ==
    /\ "clear" \in Ops /\ pc = "idle" /\ chunks # <<>>
    /\ Consume(Len(chunks), 0)
    /\ taken' = written /\ flushed' = written
    /\ UNCHANGED <<foreign, written, pc, text, resume>>

\* msgpack_buffer_flush, and write_to with any IO.
Flush ==
    /\ "write_to" \in Ops /\ pc = "idle"
    /\ BeginFlush(NoResume)

\* The IO received the string it was called with.
Received == flushed' = Max({flushed} \cup Range(text))

\* What a flush writes when the first chunk is dropped.
NextText == Stored(chunks[2])

\* The write method returns: the chunk is dropped, and the next one, read
\* at this moment, is written.
WriteReturns ==
    /\ pc = "write"
    /\ Received
    /\ taken' = taken + UnreadSize(1)
    /\ Consume(1, 0)
    /\ IF Len(chunks) > 1
       THEN text' = NextText /\ UNCHANGED <<pc, resume>>
       ELSE /\ pc' = IF resume = NoResume THEN "idle" ELSE "resume"
            /\ text' = <<>> /\ UNCHANGED resume
    /\ UNCHANGED <<foreign, written>>

\* Mutant: the room of the chunk that was flushed is taken to be there.
ResumeInRoom ==
    /\ pc = "resume"
    /\ resume' = NoResume
    /\ \/ /\ resume.op = "grow"
          /\ PutInRoom(Fresh(resume.n))
          /\ Accept(resume.n)
          /\ pc' = "idle" /\ UNCHANGED text
       \/ resume.op = "long" /\ LongAfterFlush(resume.n)
    /\ UNCHANGED <<foreign, taken, flushed>>

\* The operation that flushed goes on with an empty buffer.
Resume ==
    /\ pc = "resume"
    /\ resume' = NoResume
    /\ \/ /\ resume.op = "grow"
          /\ Grow(chunks, memory, Fresh(resume.n))
          /\ Accept(resume.n)
          /\ pc' = "idle" /\ UNCHANGED text
       \/ resume.op = "long" /\ LongAfterFlush(resume.n)
    /\ UNCHANGED <<foreign, taken, flushed>>

\* The write method returns from a string that never was in the buffer.
LongWriteReturns ==
    /\ pc = "write_long"
    /\ Accept(Len(text)) /\ Received
    /\ taken' = taken + Len(text)
    /\ pc' = "idle" /\ text' = <<>>
    /\ UNCHANGED <<bvars, memory, live, foreign, resume>>

\* The write method raises, before or after the IO got the string: nothing
\* is dropped and the operation that flushed is given up.
WriteRaises ==
    /\ pc \in {"write", "write_long"}
    /\ UNCHANGED flushed \/ (pc = "write" /\ Received)
    /\ pc' = "idle" /\ text' = <<>> /\ resume' = NoResume
    /\ UNCHANGED <<bvars, memory, live, foreign, written, taken>>
-----------------------------------------------------------------------------
(* The other buffers of the process, which run between the operations of   *)
(* this one and inside the IO's write method.                              *)

\* The pool of the process is not bounded: two pages are left to this buffer.
ForeignAlloc(p) ==
    /\ p \notin live /\ Cardinality(foreign) + 2 < Cardinality(Page)
    /\ live' = live \cup {p} /\ foreign' = foreign \cup {p}
    /\ memory' = [memory EXCEPT ![p] = Blank]
    /\ UNCHANGED <<bvars, written, taken, flushed, pc, text, resume>>

ForeignFree(p) ==
    /\ p \in foreign
    /\ live' = live \ {p} /\ foreign' = foreign \ {p}
    /\ UNCHANGED <<bvars, memory, written, taken, flushed, pc, text, resume>>

FlushTurn == WriteReturns \/ Resume \/ LongWriteReturns

Step ==
    \/ \E n \in Lengths : \/ AppendCopy(n)
                          \/ EnsureWrite(n)
                          \/ FeedFromIo(n)
                          \/ ReadDirectly(n)
    \/ \E n \in LongLengths : AppendReference(n) \/ AppendLong(n)
    \/ \E n \in 1 .. MaxBytes : Read(n)
    \/ Clear
    \/ Flush
    \/ FlushTurn
    \/ WriteRaises
    \/ \E p \in Page : ForeignAlloc(p) \/ ForeignFree(p)

Next == Step /\ UNCHANGED use

Spec == Init /\ [][Next]_vars
-----------------------------------------------------------------------------
Ascending(s) == \A i \in 1 .. Len(s) - 1 : s[i + 1] = s[i] + 1

\* What can still be read is exactly what was accepted and has not left, in
\* order.
FifoIntact == FlattenSeq([i \in DOMAIN chunks |-> Unread(i)])
                = [i \in 1 .. written - taken |-> taken + i]

\* No chunk of the list is used up.
NoHollowChunk == \A i \in DOMAIN chunks : UnreadSize(i) > 0

\* The unread bytes and the room behind them lie in pages that this buffer
\* will give back itself, each of them once: *rmem_owner is always valid.
PagesOwned ==
    /\ \A i \in DOMAIN chunks : chunks[i].kind = "page" =>
         \E j \in DOMAIN chunks : chunks[j].mem = chunks[i].at
    /\ \A i, j \in DOMAIN chunks : i # j /\ chunks[i].mem # NULL =>
         chunks[i].mem # chunks[j].mem
    /\ {chunks[i].mem : i \in DOMAIN chunks} \ {NULL} = live \ foreign

\* No byte of the buffer lies under the room that the next write fills.
RoomIsFree ==
    chunks # <<>> /\ Last(chunks).kind = "page" =>
      /\ Last(chunks).last + room = PageSize
      /\ \A i \in 1 .. Len(chunks) - 1 :
           chunks[i].at = Last(chunks).at => chunks[i].last <= Last(chunks).first

\* The list of chunks is sound: every byte is there and in order, whatever the
\* rest of the process did with the pages of the pool; the pages it lies in
\* are held once and the next write hits none of it; and the head chunk alone
\* tells whether the buffer is empty, as empty?, flush and read_1 take it to.
ListSound == FifoIntact /\ NoHollowChunk /\ PagesOwned /\ RoomIsFree

\* A flush goes on where the IO's copy of the stream ends or repeats what it
\* already has: no byte is left out and none is out of order, also after
\* writes that raised.
IoGetsStream ==
    pc \in {"write", "write_long"} =>
      Ascending(text) /\ text # <<>> /\ text[1] <= flushed + 1
=============================================================================
