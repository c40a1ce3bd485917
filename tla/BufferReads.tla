----------------------------- MODULE BufferReads -----------------------------
(***************************************************************************)
(* The reads of a buffer that take more than one step, or remember what    *)
(* they have read: Buffer#read, read_all, skip and skip_all                *)
(* (ext/msgpack/buffer_class.c), which may call the IO again and again,    *)
(* and the reads of the unpacker that go through the cache of hash keys    *)
(* (ext/msgpack/buffer.h).  The IO answers with any part of what was asked *)
(* for, with the end of its stream, or raises; meanwhile the other buffers *)
(* of the process use the pool.                                            *)
(***************************************************************************)
EXTENDS Buffer, KeyCache

CONSTANTS
    ReadSizes,     \* the n of read(n) and its kin; 0 is a read without n
    IoBufferSize,  \* io_buffer_size (32768 in the code)
    Letter         \* the content of the byte with a given number

ASSUME ReadsAssumption ==
    /\ ReadSizes \subseteq Nat
    /\ IoBufferSize \in Nat \ {0}
    /\ Letter \in Seq(Nat) /\ Len(Letter) >= MaxBytes

VARIABLES
    call,   \* the call of the class: its method, its n, the number of bytes
            \* that had left before it, and whether it runs or how it ended
    out,    \* the bytes that it has taken
    cache,  \* uk->key_cache
    key     \* the last key: its bytes, and the string the unpacker was given

readvars == <<vars, call, out, cache, key>>

Methods  == {"read", "skip", "read_all", "skip_all"}
Outcomes == {"running", "returned", "eof", "raised"}
NoCall   == [op |-> "none", n |-> 0, from |-> 0, state |-> "returned"]
Running  == call.state = "running"
Key      == Seq(Nat)

ReadsTypeOK ==
    /\ TypeOK
    /\ call \in [op : Methods \cup {"none"}, n : ReadSizes \cup {0},
                 from : Bytes, state : Outcomes]
    /\ out \in Seq(Bytes)
    /\ cache \in Seq(Key) /\ Len(cache) <= Capacity
    /\ key \in [bytes : Key, given : Key]

ReadsInit ==
    /\ Init
    /\ call = NoCall /\ out = <<>>
    /\ cache = <<>> /\ key = [bytes |-> <<>>, given |-> <<>>]
-----------------------------------------------------------------------------
(* Buffer#read, read_all, skip, skip_all. *)

FirstBytes(n) ==
    SubSeq(FlattenSeq([i \in DOMAIN chunks |-> Unread(i)]), 1, n)

Start(op, n) ==
    /\ "call" \in Ops /\ pc = "idle" /\ ~ Running
    /\ n = 0 => op = "read"
    /\ call' = [op |-> op, n |-> n, from |-> taken, state |-> "running"]
    /\ out' = <<>>
    /\ UNCHANGED <<vars, cache, key>>

Gets(s) == out' = out \o s
End(outcome) == call' = [call EXCEPT !.state = outcome]

\* What one turn of read_until_eof asks for; without an IO there is one turn.
Limit == IF call.n > 0 THEN call.n - Len(out)
         ELSE IF HasIo THEN IoBufferSize ELSE MaxBytes

\* Mutant: a turn that got less than it asked for is the last one.
TurnEndsWhenShort(k) ==
    IF ~ HasIo \/ k = call.n - Len(out) \/ k < Limit
    THEN End("returned") ELSE UNCHANGED call

\* After a turn that got k bytes.
Turn(k) == IF ~ HasIo \/ k = call.n - Len(out) THEN End("returned")
           ELSE UNCHANGED call

\* A turn of read or skip that takes what is in the buffer.
TakeBuffered ==
    /\ call.op \in {"read", "skip"}
    /\ TopReadable > 0
    /\ LET k == Min({Limit, Readable})
       IN  /\ Read(k)
           /\ Gets(FirstBytes(k))
           /\ Turn(k)

\* Mutant: the IO is asked although the buffer is not empty.
TakeFromIoFirst(k) ==
    /\ call.op \in {"read", "skip"} /\ HasIo
    /\ k <= Limit /\ Accept(k)
    /\ taken' = taken + k /\ flushed' = Max({flushed, taken + k})
    /\ UNCHANGED <<bvars, memory, live, foreign, pc, text, resume>>
    /\ Gets(Fresh(k))
    /\ Turn(k)

\* A turn with an empty buffer: the IO answers with k bytes.  A read asks for
\* io_buffer_size at most, a skip for all that is left of it.
TakeFromIo(k) ==
    /\ call.op \in {"read", "skip"}
    /\ k <= Limit /\ (call.op = "read" => k <= IoBufferSize)
    /\ ReadDirectly(k)
    /\ Gets(Fresh(k))
    /\ Turn(k)

\* Mutant: read_all takes what there is before it asks the IO for the rest.
FeedMoreTakesFirst(k) ==
    /\ call.op \in {"read_all", "skip_all"} /\ Readable < call.n
    /\ IF Readable > 0 THEN Read(Readable) /\ Gets(FirstBytes(Readable))
       ELSE FeedFromIo(k) /\ UNCHANGED out
    /\ UNCHANGED call

\* msgpack_buffer_ensure_readable for read_all and skip_all.
FeedMore(k) ==
    /\ call.op \in {"read_all", "skip_all"}
    /\ Readable < call.n /\ k <= IoBufferSize
    /\ FeedFromIo(k)
    /\ UNCHANGED <<call, out>>

TakeAll ==
    /\ call.op \in {"read_all", "skip_all"}
    /\ Readable >= call.n
    /\ Read(call.n)
    /\ Gets(FirstBytes(call.n))
    /\ End("returned")

\* Mutant: the end of the stream is no error but an answer without bytes.
AtEndAsks ==
    /\ HasIo => written = MaxBytes
    /\ \/ call.op \in {"read", "skip"} /\ TopReadable = 0 /\ End("returned")
       \/ ~ HasIo /\ call.op \in {"read_all", "skip_all"}
          /\ Readable < call.n /\ End("eof")
    /\ UNCHANGED <<vars, out>>

\* There is nothing more: the IO is at the end of its stream (it answers nil
\* or raises EOFError), or there is no IO.
AtEnd ==
    /\ HasIo => written = MaxBytes
    /\ \/ call.op \in {"read", "skip"} /\ TopReadable = 0 /\ End("returned")
       \/ call.op \in {"read_all", "skip_all"} /\ Readable < call.n /\ End("eof")
    /\ UNCHANGED <<vars, out>>

\* The IO raises something else.
IoRaises ==
    /\ HasIo
    /\ \/ call.op \in {"read", "skip"} /\ TopReadable = 0
       \/ call.op \in {"read_all", "skip_all"} /\ Readable < call.n
    /\ End("raised")
    /\ UNCHANGED <<vars, out>>

Turns ==
    \/ TakeBuffered
    \/ TakeAll
    \/ \E k \in Lengths : TakeFromIo(k) \/ FeedMore(k)
    \/ AtEnd
-----------------------------------------------------------------------------
(* Hash keys. *)

\* The first n bytes of the head chunk, copied or shared with the string it
\* refers to (msgpack_buffer_read_top_as_string).
TopBytes(n) == LET s == SubSeq(Unread(1), 1, n)
               IN  [i \in 1 .. n |-> Letter[s[i]]]

\* msgpack_buffer_read_top_as_interned_string and ..._symbol.
ReadKey(n) ==
    /\ "key" \in Ops /\ ~ Running
    /\ n <= TopReadable
    /\ cache' = Cached(cache, TopBytes(n))
    /\ key' = [bytes |-> TopBytes(n), given |-> Fetched(cache, TopBytes(n))]
    /\ Read(n)
    /\ UNCHANGED <<call, out>>
-----------------------------------------------------------------------------
ReadsNext ==
    \/ \E op \in Methods, n \in ReadSizes : Start(op, n)
    \/ Running /\ (Turns \/ IoRaises) /\ UNCHANGED <<use, cache, key>>
    \/ /\ Running /\ UNCHANGED <<use, call, out, cache, key>>
       /\ \E p \in Page : ForeignAlloc(p) \/ ForeignFree(p)
    \/ \E n \in Lengths : ReadKey(n) /\ UNCHANGED use
    \/ ~ Running /\ Next /\ UNCHANGED <<call, out, cache, key>>

ReadsSpec == ReadsInit /\ [][ReadsNext]_readvars

\* The write and read methods of the IO come back, whether they ever raise or
\* not, and its stream ends; nobody has to call the buffer.
FairReadsSpec ==
    /\ ReadsSpec
    /\ WF_readvars(Running /\ Turns /\ UNCHANGED <<use, cache, key>>)
    /\ WF_readvars(FlushTurn /\ UNCHANGED <<use, call, out, cache, key>>)
-----------------------------------------------------------------------------
\* A call has taken exactly the bytes it gives to its caller.
TakenIsOut ==
    /\ \A i \in DOMAIN out : out[i] = call.from + i
    /\ Running => taken = call.from + Len(out)

\* read_all(n) and skip_all(n) take n bytes, or none when they fail.
AllOrNothing ==
    call.op \in {"read_all", "skip_all"} =>
      Len(out) = IF call.state = "returned" THEN call.n ELSE 0

\* What a call takes is what it gives: the bytes that came first, in order,
\* although some come from the buffer and some past it; and when read_all or
\* skip_all fails, neither the end of the stream nor an exception of the IO
\* has cost a byte.
CallsExact == TakenIsOut /\ AllOrNothing

\* read and skip return less than was asked for only when there is nothing
\* more, neither in the buffer nor behind it.
ShortOnlyAtEof ==
    [][Running /\ call'.op \in {"read", "skip"} /\ call'.state = "returned"
         /\ (call.n = 0 \/ Len(out') < call.n) =>
       Readable' = 0 /\ (HasIo => written' = MaxBytes)]_readvars

\* The cache is strictly sorted.
CacheSorted ==
    \A i, j \in DOMAIN cache : i < j => Compare(cache[i], cache[j]) < 0

\* The string given for a key has the bytes that were read, and the binary
\* search finds every key that is in the cache: no key is there twice.
KeysInterned == key.given = key.bytes /\ CacheSorted

\* Every call of read and its kin comes to an end, and so does every flush with
\* the operation that started it.
CallsEnd == /\ Running ~> ~ Running
            /\ pc # "idle" ~> pc = "idle"

\* The buffer, whatever its chunks and pages are, is a queue of bytes.
Queue == INSTANCE ByteQueue WITH
    queue    <- FlattenSeq([i \in DOMAIN chunks |-> Unread(i)]),
    accepted <- written,
    received <- flushed,
    Sizes    <- 1 .. MaxBytes
QueueSpec == Queue!Spec
=============================================================================
