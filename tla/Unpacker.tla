------------------------------ MODULE Unpacker ------------------------------
(***************************************************************************)
(* The streaming decoder of MessagePack::Unpacker (ext/msgpack/unpacker.c, *)
(* ext/msgpack/unpacker_class.c): read_primitive and the container stack,  *)
(* the calls read, each, skip, full_unpack, read_*_header, skip_nil and    *)
(* reset, data that is fed in pieces or comes from an IO that may raise,   *)
(* and the procs of recursive extension types, which call read or skip of  *)
(* the unpacker that is calling them.                                      *)
(*                                                                         *)
(* The buffer is a queue of bytes (module Buffer says why).  A byte is     *)
(* what the switch of read_primitive makes of it as a head byte; the byte  *)
(* of a header's length or type and the bytes of a raw body are "data". An *)
(* object is where its bytes lie in the stream and where the objects it    *)
(* was built from begin.                                                   *)
(***************************************************************************)
EXTENDS Integers, Sequences, SequencesExt

CONSTANTS
    Capacity,   \* MSGPACK_UNPACKER_STACK_CAPACITY (128 in the code)
    Uses        \* what unpackers are used for, records of
                \*   streams   the encoded streams it may be given
                \*   io        do the bytes come from an IO?
                \*   ops       the calls the owner makes
                \*   proc_ops  the calls the proc of a recursive type makes
                \*   raises    may the proc of an extension type raise?
                \*   go_on     the errors after which the owner goes on
                \*             without reset

Errors == {"malformed", "deep", "unknown", "raised", "rec_raised",
           "eof_in_proc"}

Kinds == {"int", "nil", "arr", "map", "str", "plain", "unknown", "rec",
          "bad", "data"}
Byte == [k    : Kinds,
         cast : Nat,    \* bytes of length and type behind the head byte
         n    : Nat]    \* elements, pairs or bytes; objects a proc reads

ASSUME UnpackerAssumption ==
    /\ Capacity \in Nat /\ Capacity > 0
    /\ \A u \in Uses :
         /\ u.streams \subseteq Seq(Byte)
         /\ {u.io, u.raises} \subseteq BOOLEAN
         /\ u.ops \subseteq {"read", "each", "skip", "full", "header", "skip_nil"}
         /\ u.proc_ops \subseteq {"read", "skip"}
         /\ u.go_on \subseteq Errors

Containers == {"arr", "map"}
RawKinds   == {"str", "plain", "unknown"}   \* header and a body of n bytes

NoHead == [k |-> "data", cast |-> 0, n |-> 0]   \* HEAD_BYTE_REQUIRED
Nothing == [at |-> 0, to |-> 0, kids |-> <<>>]  \* Qnil

VARIABLES
    use,        \* the use of this unpacker
    input,      \* the stream, from the last reset on
    fed,        \* how much of it is in the buffer or has been
    pos,        \* how much of it is consumed
    head,       \* uk->head_byte
    head_at,    \* where in the stream it was
    raw,        \* uk->reading_raw_remaining
    stack,      \* uk->stack.data up to uk->stack.depth
    allocated,  \* is uk->stack.data set?
    frames,     \* the C calls under way: msgpack_unpacker_read and _skip and
                \* the procs they call, or a header call or skip_nil
    phase,      \* where the innermost of them stands
    last,       \* uk->last_object
    mode,       \* the call the owner made
    outcome,    \* how it ended
    out,        \* what it and those before it returned or yielded
    nils        \* where skip_nil found a nil

svars == <<stack, allocated>>
hvars == <<head, head_at, raw>>
vars  == <<use, input, fed, pos, head, head_at, raw, stack, allocated, frames,
           phase, last, mode, outcome, out, nils>>

HasIo == use.io

TypeOK ==
    /\ use \in Uses /\ input \in use.streams
    /\ fed \in 0 .. Len(input) /\ pos \in 0 .. fed
    /\ head \in Byte /\ head_at \in 0 .. fed
    /\ raw \in Nat
    /\ stack \in Seq([type : {"arr", "key", "value", "rec"}, count : Nat \ {0},
                      at : Nat, kids : Seq(Nat), key : Nat])
    /\ Len(stack) <= Capacity
    /\ allocated \in BOOLEAN /\ (~ allocated => stack = <<>>)
    /\ frames \in Seq([op : {"read", "skip", "proc", "skip_nil"} \cup Containers,
                       own : BOOLEAN,
                       left : Nat, at : Nat, got : Seq(Nat)])
    /\ phase \in {"idle", "run", "completed", "yield"}
    /\ phase \in {"idle", "yield"} <=> frames = <<>>
    /\ last \in [at : Nat, to : Nat, kids : Seq(Nat)]
    /\ mode \in use.ops \cup {"none"}
    /\ outcome \in Errors \cup {"none", "ok", "eof", "drained", "extra", "type"}
    /\ out \in Seq([at : Nat, to : Nat, whole : BOOLEAN])

Init ==
    /\ use \in Uses /\ input \in use.streams
    /\ fed = 0 /\ pos = 0
    /\ head = NoHead /\ head_at = 0 /\ raw = 0
    /\ stack = <<>> /\ allocated = FALSE
    /\ frames = <<>> /\ phase = "idle" /\ last = Nothing
    /\ mode = "none" /\ outcome = "none" /\ out = <<>>
    /\ nils = {}
-----------------------------------------------------------------------------
(* What the next byte, or the one kept in head_byte, lets the decoder do.  *)

Avail == fed - pos
HeadKept == head # NoHead
HeadReady == HeadKept \/ Avail > 0
H   == IF HeadKept THEN head ELSE input[pos + 1]       \* get_head_byte
HAt == IF HeadKept THEN head_at ELSE pos + 1
AfterHead == IF HeadKept THEN pos ELSE pos + 1

\* Mutant: one byte more than needed is waited for.
CastReadyLate == HeadReady /\ fed - AfterHead > H.cast

\* READ_CAST_BLOCK_OR_RETURN_EOF takes all its bytes or none.
CastReady == HeadReady /\ fed - AfterHead >= H.cast
AfterCast == AfterHead + H.cast
BodyReady == CastReady /\ fed - AfterCast >= H.n

Top == Last(frames)
Running(ops) == phase = "run" /\ frames # <<>> /\ Top.op \in ops

ReadFrame(op, own) ==
    [op |-> op, own |-> own, left |-> 0, at |-> 0, got |-> <<>>]
ProcFrame(at, n) ==
    [op |-> "proc", own |-> FALSE, left |-> n, at |-> at, got |-> <<>>]

\* object_complete: last_object is set and the head byte is used up.
ObjectComplete(o) ==
    /\ last' = o
    /\ head' = NoHead /\ head_at' = 0
    /\ phase' = "completed"

\* Mutant: depth is not set to 0.
FailKeepsDepth(kind) ==
    /\ outcome' = kind
    /\ stack' = stack /\ allocated' = ~ frames[1].own
    /\ frames' = <<>> /\ phase' = "idle"

\* A negative result that is not PRIMITIVE_EOF: the stack is freed by the call
\* that allocated it and raise_unpacker_error empties it; the procs between
\* the calls pass the exception on.
Fail(kind) ==
    /\ outcome' = kind
    /\ stack' = <<>> /\ allocated' = ~ frames[1].own
    /\ frames' = <<>> /\ phase' = "idle"

\* Mutant: each loses the stack when the fed data ends.
StackKeptByIo   == HasIo

\* Is the stack kept for the next call when the data runs out?
StackKept == HasIo \/ mode = "each"

\* Mutant: the missing data is waited for without end.
OutOfDataWaits == UNCHANGED <<svars, frames, phase, outcome>>

\* The data ran out.  Without an IO each returns nil and keeps the stack, the
\* others raise EOFError after emptying it; the IO's exception leaves the
\* decoder as it is.  A proc that gets the exception passes it on.
OutOfData ==
    IF Len(frames) > 1 THEN Fail("eof_in_proc")
    ELSE /\ frames' = <<>> /\ phase' = "idle"
         /\ outcome' = IF mode = "each" THEN "drained" ELSE "eof"
         /\ stack' = IF StackKept THEN stack ELSE <<>>
         /\ allocated' = (HasIo \/ Top.op = "read" \/ ~ Top.own)
-----------------------------------------------------------------------------
(* read_primitive *)

\* What is missing of a raw body when the bytes at hand are taken.
RawRest == raw - Avail

\* What of an object that is not complete is consumed before the end of the
\* data is noticed: the head byte, and a part of a raw body.
TakePart ==
    \/ /\ raw > 0 /\ Avail < raw                    \* read_raw_body_cont
       /\ raw' = RawRest /\ pos' = fed
       /\ UNCHANGED <<head, head_at>>
    \/ /\ raw = 0 /\ ~ HeadReady
       /\ UNCHANGED <<pos, hvars>>
    \/ /\ raw = 0 /\ HeadReady /\ ~ CastReady
       /\ head' = H /\ head_at' = HAt /\ pos' = AfterHead
       /\ UNCHANGED raw
    \/ /\ raw = 0 /\ CastReady /\ H.k \in RawKinds /\ ~ BodyReady
       /\ head' = H /\ head_at' = HAt /\ pos' = fed
       /\ raw' = H.n - (fed - AfterCast)

Starves == /\ Running({"read", "skip"})
           /\ TakePart /\ OutOfData
           /\ UNCHANGED <<input, fed, last, mode, out, nils>>

\* A byte that is an object by itself, and the empty containers.
Scalar ==
    /\ Running({"read", "skip"}) /\ raw = 0 /\ CastReady
    /\ H.k \in {"int", "nil", "data"} \/ (H.k \in Containers /\ H.n = 0)
    /\ ObjectComplete([at |-> HAt, to |-> AfterCast, kids |-> <<>>])
    /\ pos' = AfterCast
    /\ UNCHANGED <<input, fed, raw, svars, frames, mode, outcome, out, nils>>

Entry(type, count, at) ==
    [type |-> type, count |-> count, at |-> at, kids |-> <<>>, key |-> 0]

\* Mutant: one entry too many.
StackFullLate == Len(stack) > Capacity

CountOf(b) == IF b.k = "map" THEN 2 * b.n ELSE b.n
StackFull  == Len(stack) = Capacity

\* _msgpack_unpacker_stack_push of an array or a map.
Container ==
    /\ Running({"read", "skip"}) /\ raw = 0 /\ CastReady
    /\ H.k \in Containers /\ H.n > 0
    /\ pos' = AfterCast
    /\ head' = NoHead /\ head_at' = 0
    /\ IF StackFull
       THEN Fail("deep")
       ELSE /\ stack' = Append(stack,
                 Entry(IF H.k = "map" THEN "key" ELSE "arr", CountOf(H), HAt))
            /\ UNCHANGED <<allocated, frames, phase, outcome>>
    /\ UNCHANGED <<input, fed, raw, last, mode, out, nils>>

\* A raw body is complete.  object_complete_ext calls the proc of the type,
\* and keeps the head byte when the proc raises or there is none.
FinishRaw(b, at, to) ==
    /\ pos' = to /\ raw' = 0
    /\ \/ /\ b.k \in {"str", "plain"}
          /\ ObjectComplete([at |-> at, to |-> to, kids |-> <<>>])
          /\ UNCHANGED <<svars, frames, outcome>>
       \/ /\ b.k = "unknown" \/ (b.k = "plain" /\ use.raises)
          /\ Fail(IF b.k = "unknown" THEN "unknown" ELSE "raised")
          /\ head' = b /\ head_at' = at
          /\ UNCHANGED last
    /\ UNCHANGED <<input, fed, mode, out, nils>>

RawBody ==
    /\ Running({"read", "skip"})
    /\ \/ raw > 0 /\ Avail >= raw /\ FinishRaw(head, head_at, pos + raw)
       \/ raw = 0 /\ BodyReady /\ H.k \in RawKinds
          /\ FinishRaw(H, HAt, AfterCast + H.n)

\* An extension of a recursive type with a body: an entry is pushed, whether
\* or not there is room for it, and the proc is called with the unpacker.
RecursiveBegin ==
    /\ Running({"read", "skip"}) /\ raw = 0 /\ CastReady
    /\ H.k = "rec" /\ H.n > 0
    /\ pos' = AfterCast /\ last' = Nothing
    /\ head' = NoHead /\ head_at' = 0
    /\ stack' = IF StackFull THEN stack
                ELSE Append(stack, Entry("rec", 1, HAt))
    /\ frames' = Append(frames, ProcFrame(HAt, H.n))
    /\ UNCHANGED <<input, fed, raw, allocated, phase, mode, outcome, out, nils>>

\* One without a body goes to object_complete_ext: its proc gets a String, and
\* the head byte is kept when the proc raises.
RecursiveEmpty ==
    /\ Running({"read", "skip"}) /\ raw = 0 /\ CastReady
    /\ H.k = "rec" /\ H.n = 0
    /\ pos' = AfterCast
    /\ \/ /\ ObjectComplete([at |-> HAt, to |-> AfterCast, kids |-> <<>>])
          /\ UNCHANGED <<svars, frames, outcome>>
       \/ /\ use.raises /\ Fail("raised")
          /\ head' = H /\ head_at' = HAt
          /\ UNCHANGED last
    /\ UNCHANGED <<input, fed, raw, mode, out, nils>>

\* 0xc1, the only invalid byte, is also HEAD_BYTE_REQUIRED.
InvalidByte ==
    /\ Running({"read", "skip"}) /\ raw = 0 /\ HeadReady /\ H.k = "bad"
    /\ pos' = AfterHead
    /\ Fail("malformed")
    /\ UNCHANGED <<input, fed, hvars, last, mode, out, nils>>
-----------------------------------------------------------------------------
(* The loop of msgpack_unpacker_read and msgpack_unpacker_skip. *)

\* The innermost call returns the object o, with st left on the stack.
Return(o, st) ==
    IF Len(frames) = 1
    THEN /\ frames' = <<>>
         /\ allocated' = ~ Top.own
         /\ stack' = IF Top.own THEN <<>> ELSE st
         /\ phase' = IF mode = "each" THEN "yield" ELSE "idle"
         /\ IF mode = "full" /\ Avail > 0     \* extra bytes after the object
            THEN outcome' = "extra" /\ UNCHANGED out
            ELSE /\ outcome' = "ok"
                 /\ out' = Append(out, [at |-> o.at, to |-> o.to, whole |-> TRUE])
    ELSE LET proc == frames[Len(frames) - 1]
         IN  /\ frames' = Append(SubSeq(frames, 1, Len(frames) - 2),
                   [proc EXCEPT !.left = @ - 1, !.got = Append(@, o.at)])
             /\ stack' = st /\ phase' = "run"
             /\ UNCHANGED <<allocated, outcome, out>>

\* Mutant: key and value change places.
StoredSwapped(e, o) ==
    IF e.type = "arr" THEN [e EXCEPT !.kids = Append(@, o.at)]
    ELSE IF e.type = "key" THEN [e EXCEPT !.key = o.at, !.type = "value"]
    ELSE [e EXCEPT !.kids = @ \o <<o.at, e.key>>, !.type = "key"]

\* rb_ary_push, the assignment of a key, rb_hash_aset.
Stored(e, o) ==
    IF e.type = "arr" THEN [e EXCEPT !.kids = Append(@, o.at)]
    ELSE IF e.type = "key" THEN [e EXCEPT !.key = o.at, !.type = "value"]
    ELSE [e EXCEPT !.kids = @ \o <<e.key, o.at>>, !.type = "key"]

Push(st, e) == Append(Front(st), e)

\* Mutant: a container is complete one element too late.
IsFullLate(e) == e.count = 0

IsFull(e) == e.count = 1

\* container_completed: last_object goes into the container on top.
Completed ==
    /\ phase = "completed"
    /\ IF stack = <<>> \/ (Top.op = "read" /\ Last(stack).type = "rec")
       THEN Return(last, stack) /\ UNCHANGED last
       ELSE LET e == IF Top.op = "read" THEN Stored(Last(stack), last)
                                        ELSE Last(stack)
                whole == [at |-> e.at, to |-> last.to, kids |-> e.kids]
            IN  IF ~ IsFull(e)
                THEN /\ stack' = Push(stack, [e EXCEPT !.count = @ - 1])
                     /\ phase' = "run"
                     /\ UNCHANGED <<allocated, frames, last, outcome, out>>
                ELSE /\ last' = whole
                     /\ IF Len(stack) = 1
                        THEN Return(whole, <<>>)
                        ELSE /\ stack' = Front(stack)
                             /\ UNCHANGED <<allocated, frames, phase, outcome, out>>
    /\ UNCHANGED <<input, fed, pos, hvars, mode, nils>>
-----------------------------------------------------------------------------
(* The procs of recursive types. *)

\* The proc calls read or skip: the stack is there, so it is not theirs.
ProcCalls(op) ==
    /\ op \in use.proc_ops /\ Running({"proc"}) /\ Top.left > 0
    /\ frames' = Append(frames, ReadFrame(op, ~ allocated))
    /\ UNCHANGED <<input, fed, pos, hvars, svars, phase, last, mode, outcome,
                   out, nils>>

\* Mutant: the entry of the proc stays.
ProcReturnsKeepsEntry ==
    /\ Running({"proc"}) /\ Top.left = 0
    /\ frames' = Front(frames)
    /\ ObjectComplete([at |-> Top.at, to |-> pos, kids |-> Top.got])
    /\ UNCHANGED <<input, fed, pos, raw, svars, mode, outcome, out, nils>>

\* The proc returns and read_raw_body_begin pops an entry.
ProcReturns ==
    /\ Running({"proc"}) /\ Top.left = 0
    /\ stack # <<>>     \* else depth wraps around; StackMatchesCalls is false
    /\ stack' = Front(stack)
    /\ frames' = Front(frames)
    /\ ObjectComplete([at |-> Top.at, to |-> pos, kids |-> Top.got])
    /\ UNCHANGED <<input, fed, pos, raw, allocated, mode, outcome, out, nils>>

ProcFails ==
    /\ use.raises /\ Running({"proc"})
    /\ Fail("rec_raised")
    /\ UNCHANGED <<input, fed, pos, hvars, last, mode, out, nils>>
-----------------------------------------------------------------------------
(* The owner of the unpacker and its IO. *)

Usable == outcome \notin Errors \ use.go_on

\* feed, also from the block of each.
Feed(n) ==
    /\ phase \in {"idle", "yield"} /\ ~ HasIo /\ Usable
    /\ fed + n <= Len(input)
    /\ fed' = fed + n /\ outcome' = "none"
    /\ UNCHANGED <<input, pos, hvars, svars, frames, phase, last, mode, out, nils>>

IoDelivers(n) ==
    /\ HasIo /\ Running({"read", "skip", "skip_nil"} \cup Containers)
    /\ fed + n <= Len(input)
    /\ fed' = fed + n
    /\ UNCHANGED <<input, pos, hvars, svars, frames, phase, last, mode, outcome,
                   out, nils>>

\* read, each, skip and full_unpack up to the first read_primitive
\* (STACK_INIT), and the next turn of each's loop.
Begin(op) ==
    /\ phase' = "run" /\ mode' = op /\ outcome' = "none"
    /\ frames' = <<ReadFrame(IF op = "skip" THEN "skip" ELSE "read", ~ allocated)>>
    /\ stack' = IF allocated THEN stack ELSE <<>>
    /\ allocated' = TRUE
    /\ UNCHANGED <<input, fed, pos, hvars, last, out, nils>>

Call(op) == phase = "idle" /\ Usable /\ op \in use.ops /\ Begin(op)
NextTurn == phase = "yield" /\ Begin("each")

\* The block of each breaks out of the loop.
Break ==
    /\ phase = "yield" /\ phase' = "idle"
    /\ UNCHANGED <<input, fed, pos, hvars, svars, frames, last, mode, outcome,
                   out, nils>>

\* read_array_header, read_map_header and skip_nil begin.  An owner whose read
\* was interrupted by the IO goes on with it before the header of another object.
CallHeader(op) ==
    /\ phase = "idle" /\ Usable
    /\ IF op = "skip_nil" THEN op \in use.ops
       ELSE "header" \in use.ops /\ (HasIo => stack = <<>> /\ raw = 0)
    /\ phase' = "run" /\ outcome' = "none"
    /\ mode' = IF op = "skip_nil" THEN op ELSE "header"
    /\ frames' = <<ReadFrame(op, FALSE)>>
    /\ UNCHANGED <<input, fed, pos, hvars, svars, last, out, nils>>

EndHeader(result) ==
    /\ outcome' = result
    /\ frames' = <<>> /\ phase' = "idle"
    /\ UNCHANGED <<input, fed, raw, allocated, last, mode>>

\* raise_unpacker_error empties the stack; the exception of an IO does not.
Raise(kind) ==
    /\ EndHeader(kind)
    /\ stack' = IF kind = "eof" /\ HasIo THEN stack ELSE <<>>
    /\ UNCHANGED <<out, nils>>

\* The head byte stays in head_byte; 0xc1 cannot.
KeepHead == /\ head' = (IF H.k = "bad" THEN NoHead ELSE H)
            /\ head_at' = (IF H.k = "bad" THEN 0 ELSE HAt)
            /\ pos' = AfterHead

\* Mutant: the head byte of another type is used up.
ReadHeaderDropsHead(kind) ==
    /\ Running({kind})
    /\ \/ /\ ~ HeadReady
          /\ Raise("eof") /\ UNCHANGED <<pos, head, head_at>>
       \/ /\ HeadReady /\ H.k = kind /\ ~ CastReady
          /\ head' = NoHead /\ head_at' = 0 /\ pos' = AfterHead /\ Raise("eof")
       \/ /\ HeadReady /\ H.k # kind
          /\ KeepHead /\ Raise("type")
       \/ /\ CastReady /\ H.k = kind
          /\ head' = NoHead /\ head_at' = 0 /\ pos' = AfterCast
          /\ out' = Append(out, [at |-> HAt, to |-> AfterCast, whole |-> FALSE])
          /\ EndHeader("ok") /\ UNCHANGED <<stack, nils>>

\* read_array_header and read_map_header.
ReadHeader(kind) ==
    /\ Running({kind})
    /\ \/ /\ ~ HeadReady
          /\ Raise("eof") /\ UNCHANGED <<pos, head, head_at>>
       \/ /\ HeadReady /\ H.k = kind /\ ~ CastReady
          /\ KeepHead /\ Raise("eof")
       \/ /\ HeadReady /\ H.k # kind
          /\ KeepHead /\ Raise("type")
       \/ /\ CastReady /\ H.k = kind
          /\ head' = NoHead /\ head_at' = 0 /\ pos' = AfterCast
          /\ out' = Append(out, [at |-> HAt, to |-> AfterCast, whole |-> FALSE])
          /\ EndHeader("ok") /\ UNCHANGED <<stack, nils>>

\* skip_nil: looks at the head byte and leaves it.
SkipNil ==
    /\ Running({"skip_nil"})
    /\ \/ /\ ~ HeadReady
          /\ Raise("eof") /\ UNCHANGED <<pos, head, head_at>>
       \/ /\ HeadReady /\ KeepHead
          /\ nils' = IF H.k = "nil" THEN nils \cup {HAt} ELSE nils
          /\ EndHeader("ok") /\ UNCHANGED <<stack, out>>

\* reset, at any time between the calls; another stream begins.
Reset ==
    /\ phase = "idle" /\ mode # "none"
    /\ input' \in use.streams /\ fed' = 0 /\ pos' = 0
    /\ head' = NoHead /\ head_at' = 0 /\ raw' = 0
    /\ stack' = <<>> /\ last' = Nothing
    /\ out' = <<>> /\ nils' = {}
    /\ mode' = "none" /\ outcome' = "none"
    /\ UNCHANGED <<allocated, frames, phase>>

Decode == \/ Starves \/ Scalar \/ Container \/ RawBody \/ RecursiveBegin
          \/ RecursiveEmpty \/ InvalidByte \/ Completed \/ ProcReturns
          \/ \E op \in {"read", "skip"} : ProcCalls(op)
          \/ \E kind \in Containers : ReadHeader(kind)
          \/ SkipNil

Step ==
    \/ Decode
    \/ ProcFails
    \/ \E n \in 1 .. Len(input) : Feed(n) \/ IoDelivers(n)
    \/ \E op \in {"read", "each", "skip", "full"} : Call(op)
    \/ NextTurn
    \/ Break
    \/ \E op \in Containers \cup {"skip_nil"} : CallHeader(op)
    \/ Reset

Next == Step /\ UNCHANGED use

Spec == Init /\ [][Next]_vars

\* The interpreter does not stop inside a call, and the procs return.
FairSpec == Spec /\ WF_vars(Decode /\ UNCHANGED use)
-----------------------------------------------------------------------------
(* What the stream means. *)

Elements(b) == IF b.k = "map" THEN 2 * b.n
               ELSE IF b.k \in {"arr", "rec"} THEN b.n ELSE 0

\* Where in s the bytes of the head at i and of its raw body are over.
Behind(s, i) == i + 1 + s[i].cast + IF s[i].k \in RawKinds THEN s[i].n ELSE 0

\* Where the n objects from i on end: the elements of an object are so many
\* objects more.  Behind the stream if they are not all there.
ObjectsEnd(s, i, n) ==
    LET end[x \in (1 .. Len(s) + 1) \X Nat] ==
          IF x[2] = 0 THEN x[1] - 1
          ELSE IF x[1] > Len(s) \/ Behind(s, x[1]) > Len(s) + 1 THEN Len(s) + 1
          ELSE end[<<Behind(s, x[1]), x[2] - 1 + Elements(s[x[1]])>>]
    IN  end[<<i, n>>]

\* Where the object that starts at i ends.
EndOf(i) == ObjectsEnd(input, i, 1)

\* Where the k-th element of the object that starts at i starts.
ElementAt(s, i, k) == ObjectsEnd(s, i + s[i].cast + 1, k - 1) + 1

KidsOf(i) == [k \in 1 .. Elements(input[i]) |-> ElementAt(input, i, k)]

\* A use that goes on where it was interrupted: each alone on fed data, any
\* call on an IO but full_unpack, which takes what it then refuses to return,
\* and no further call after an error.
Streaming == /\ use.go_on = {}
             /\ (use.io /\ "full" \notin use.ops) \/ use.ops = {"each"}

\* A skip that the IO interrupts leaves its entries to the next call.
SkipsMixIn == use.io /\ "skip" \in use.ops

Delivered == IF out = <<>> THEN 0 ELSE Last(out).to

\* Every object that is completed, at any depth, is one of the stream: it ends
\* where the encoding ends and is built from exactly its own elements, keys
\* and values in their places, however the data was split and whatever calls
\* were cut short before.
ObjectsGenuine ==
    phase = "completed" =>
      /\ input[last.at].k # "data"
      /\ last.to = EndOf(last.at)
      /\ Top.op = "read" /\ ~ SkipsMixIn => last.kids = KidsOf(last.at)

\* The owner gets the objects (and headers) of the stream one after the other,
\* none twice, none left out, none opened up into its elements.
EachInOrder ==
    Streaming => \A i \in DOMAIN out :
      /\ out[i].at = (IF i = 1 THEN 0 ELSE out[i - 1].to) + 1
      /\ out[i].whole => out[i].to = EndOf(out[i].at)

\* each ends only when the buffer holds no complete object.
EachDrains ==
    Streaming /\ outcome = "drained" =>
      \/ Delivered = Len(input)
      \/ EndOf(Delivered + 1) > fed

RecEntries == {i \in DOMAIN stack : stack[i].type = "rec"}
ProcFrames == {i \in DOMAIN frames : frames[i].op = "proc"}

\* The entries of the stack that stand for procs are those of the procs that
\* run, in their order: no call takes away or loses the entry of another.
StackMatchesCalls ==
    /\ {stack[i].at : i \in RecEntries} = {frames[i].at : i \in ProcFrames}
    /\ \A i, j \in RecEntries : i < j => stack[i].at < stack[j].at
    /\ \A i, j \in ProcFrames : i < j => frames[i].at < frames[j].at

\* An object that nests deeper than the capacity is refused.
DeepRefused ==
    Cardinality(DOMAIN stack \ RecEntries) + Cardinality(ProcFrames) <= Capacity

\* A call that raised, or an object that was delivered, leaves nothing on the
\* stack (skip_nil delivers none).
StackEmptyAfterCall ==
    /\ phase \in {"idle", "yield"} /\ mode # "skip_nil"
    /\ outcome \in Errors \cup {"ok", "extra"}
    => stack = <<>>

\* Decoding never goes on below the last level, counting the procs that run,
\* and no call falls into what one before left behind; only each on fed data,
\* and the exception of an IO, keep the stack for the next call.
StackBounded == DeepRefused /\ StackEmptyAfterCall

\* skip_nil consumes the nil it reports.
SkipNilConsumes == \A i \in DOMAIN out : out[i].at \notin nils

\* Every call of the owner comes to an end.
CallsEnd == (frames # <<>>) ~> (frames = <<>>)
=============================================================================
