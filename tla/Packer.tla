-------------------------------- MODULE Packer --------------------------------
(***************************************************************************)
(* MessagePack::Packer (ext/msgpack/packer.c, packer.h, packer_class.c):   *)
(* write with everything it calls, full_pack, flush, write_to and reset.   *)
(*                                                                         *)
(* msgpack_packer_write_value recurses into arrays and hashes and calls    *)
(* Ruby code: to_msgpack, and the procs of extension types.  That code may *)
(* raise, rescue, change the very array or hash that is being packed, run  *)
(* the collector and, if its type is recursive, write to the packer, whose *)
(* buffer is exchanged meanwhile.  `frames` is the C and Ruby stack.  A    *)
(* step is one call of msgpack_packer_write_value, or one return.          *)
(***************************************************************************)
EXTENDS Payloads, FiniteSetsExt

CONSTANTS
    Object,     \* the Ruby objects
    Data,       \* what each is; see ASSUME
    Nil,
    ReferenceThreshold, \* write_reference_threshold
    Uses        \* what packers are used for, records of
                \*   io, compat, bigints, symbols   options and flags
                \*   values                         what is written
                \*   writes, raises, meddles        bounds: calls, what an IO or
                \*                                  a proc raises, changes

ObjectKinds == {"nil", "int", "float", "float32", "str", "bin", "binhead", "sym",
                "array", "hash", "time", "ext", "plain", "rec", "user", "rows",
                "pairs", "unknown"}

ExtTypes == -(Base \div 2) .. Base \div 2 - 1   \* a signed char

ASSUME PackerAssumption ==
    /\ Data \in [Object -> [k    : ObjectKinds,
                            n    : Int,     \* value, bits, seconds, or bytes
                            nsec : Nat,     \* nanoseconds of a time
                            size : Nat,     \* what its proc returns, in bytes
                            type : Int,     \* of the extension
                            kids : Seq(Object)]]
                \* elements; keys and values in turn; what to_msgpack or a
                \* recursive proc writes
    /\ \A v \in Object : /\ Data[v].k \in {"hash", "pairs"} => Len(Data[v].kids) % 2 = 0
                         /\ Data[v].k # "ext" => Data[v].type \in ExtTypes
                         /\ Data[v].k = "time" => Data[v].nsec < Word \div 4
                         /\ Data[v].k = "user" => Len(Data[v].kids) = 1
                         /\ Data[v].k \in {"str", "bin", "binhead", "sym"} => Data[v].n \in Nat
    /\ Nil \in Object /\ Data[Nil].k = "nil"
    /\ ReferenceThreshold \in Nat
    /\ \A u \in Uses : /\ {u.io, u.compat, u.bigints, u.symbols} \subseteq BOOLEAN
                       /\ u.values \subseteq Object
                       /\ {u.writes, u.raises, u.meddles} \subseteq Nat

VARIABLES
    use,
    inside,     \* what is in each array and hash now
    buffer,     \* pk->buffer: its bytes, whether its io is set, and whether
                \* they are whole objects, apart from what is being packed
    sent,       \* the stream up to where buffer goes on: what the IO, or the
                \* owner, got, without the chunk whose write raised
    frames,
    issued,     \* how many strings the buffer has taken references of
    dead,       \* those of them that were collected
    wrote,      \* what write was called with
    kept,       \* the stream when it was called the last time
    exact,      \* nothing raised, and nothing was changed
    raises, meddles     \* how often

vars == <<use, inside, buffer, sent, frames, issued, dead, wrote, kept, exact,
          raises, meddles>>

Body(of, inner, n, ref) ==
    [h |-> "body", w |-> 0, n |-> n, of |-> of, inner |-> inner, ref |-> ref]

Ruby == {"plain", "rec", "user"}    \* the frames of Ruby code
Writing == {"rec", "user"}          \* those that call the packer

TypeOK ==
    /\ use \in Uses
    /\ inside \in [Object -> Seq(Object)]
    /\ {buffer.io, buffer.clean, exact} \subseteq BOOLEAN
    /\ \A f \in Range(frames) :
         /\ f.k \in Ruby \cup {"array", "hash"} /\ f.v \in Object
         /\ f.at \in 0 .. f.len /\ f.todo \in Seq(Object)
         /\ f.held \subseteq 1 .. issued
    /\ dead \subseteq 1 .. issued
    /\ wrote \in Seq(use.values) /\ Len(wrote) <= use.writes
    /\ raises \in 0 .. use.raises /\ meddles \in 0 .. use.meddles

Contents == [v \in Object |-> Data[v].kids]
Emptied(b) == [b EXCEPT !.bytes = <<>>, !.clean = TRUE]

Init ==
    /\ use \in Uses
    /\ inside = Contents
    /\ buffer = [bytes |-> <<>>, io |-> use.io, clean |-> TRUE]
    /\ sent = <<>> /\ frames = <<>>
    /\ issued = 0 /\ dead = {}
    /\ wrote = <<>> /\ kept = <<>> /\ exact = TRUE
    /\ raises = 0 /\ meddles = 0
-----------------------------------------------------------------------------
Size(s) == FoldLeft(LAMBDA n, b : n + (IF b.h = "body" THEN b.n ELSE 1), 0, s)

\* The strings that s refers to.
References(s) == {s[i].ref : i \in {j \in DOMAIN s : s[j].h = "body"}} \ {0}

\* msgpack_buffer_all_as_string
Copied(s) == [i \in DOMAIN s |-> IF s[i].h = "body" THEN [s[i] EXCEPT !.ref = 0] ELSE s[i]]

Parents(fs, from) == {i \in from .. Len(fs) : fs[i].k = "rec"}

\* Mutant: the buffer of the recursive proc stays.
RestoredNot(fs, from, b) == b

\* The buffer that is left when the frames fs[from] and above are gone: every
\* recursive one restores its parent_buffer.
Restored(fs, from, b) ==
    IF Parents(fs, from) = {} THEN b ELSE fs[Min(Parents(fs, from))].parent

\* An exception, with the stack fs and the buffer b, goes to the owner or to
\* a frame of Ruby code that rescues it.
Raise(fs, b) ==
    /\ \E j \in {0} \cup {i \in DOMAIN fs : fs[i].k \in Writing} :
         /\ frames' = SubSeq(fs, 1, j)
         /\ buffer' = [Restored(fs, j + 1, b) EXCEPT !.clean = FALSE]
    /\ exact' = FALSE
    /\ UNCHANGED <<inside, issued, dead, meddles>>

\* What was bound to raise, before anything was written.
Refuse(fs) == Raise(fs, buffer) /\ UNCHANGED <<sent, raises>>

Split(b, s, cut) == /\ sent' = sent \o SubSeq(s, 1, cut)
                    /\ buffer' = [b EXCEPT !.bytes = SubSeq(s, cut + 1, Len(s))]

\* A head and a body of n bytes are appended to the buffer b, with the stack
\* fs.  A long body is referenced or, after a flush, goes to the IO directly
\* if it is binary; the buffer may be flushed before the head and the body.
Put(b, fs, head, of, inner, n) ==
    LET long == n > ReferenceThreshold
        body == IF n = 0 THEN <<>>
                ELSE <<Body(of, inner, n, IF long /\ ~ b.io THEN issued + 1 ELSE 0)>>
        headed == b.bytes \o head
        all    == headed \o body
        Cuts   == IF ~ b.io THEN {0}
                  ELSE IF long /\ head[1].h = "str" /\ Data[of].k # "bin" THEN {Len(headed)}
                  ELSE IF long THEN {Len(headed), Len(all)}
                  ELSE {0, Len(b.bytes), Len(headed)}
    IN  \/ /\ frames' = fs
           /\ \E cut \in Cuts : Split(b, all, cut)
           /\ issued' = IF long /\ ~ b.io THEN issued + 1 ELSE issued
           /\ UNCHANGED <<inside, dead, exact, raises, meddles>>
        \/ /\ b.io /\ raises < use.raises /\ raises' = raises + 1
           \* The IO's write raises: the chunk from cut on is written again.
           /\ \E s \in {b.bytes, headed} : \E cut \in 0 .. Len(s) :
                /\ sent' = sent \o SubSeq(s, 1, cut)
                /\ Raise(fs, [b EXCEPT !.bytes = SubSeq(s, cut + 1, Len(s))])

\* msgpack_buffer_init
Fresh == [bytes |-> <<>>, io |-> FALSE, clean |-> TRUE]

\* parent and held are those of a recursive type.
Frame(k, v) == [k |-> k, v |-> v, at |-> 0, len |-> Len(inside[v]), todo |-> <<>>,
                parent |-> Fresh, held |-> {}]

\* Mutant: the strings of the buffer that is put aside are not held.
HoldNothing(b) == {}

\* MessagePack_Buffer_hold
Hold(b) == References(b.bytes)

\* Ruby code is called.  A recursive proc gets a new buffer, without an IO.
Call(k, v, fs) ==
    /\ IF k = "rec"
       THEN /\ frames' = Append(fs, [Frame(k, v) EXCEPT !.parent = buffer,
                                                       !.held = Hold(buffer)])
            /\ buffer' = Fresh
       ELSE frames' = Append(fs, Frame(k, v)) /\ buffer' = buffer
    /\ UNCHANGED <<inside, sent, issued, dead, exact, raises, meddles>>

\* A string of n bytes, or its bytes behind a write_bin_header(n).
Text(v, n, fs) ==
    IF n >= Limit(4) THEN Refuse(fs)     \* ArgumentError, or RangeError of NUM2UINT
    ELSE LET binary == Data[v].k = "binhead" \/ (Data[v].k = "bin" /\ ~ use.compat)
         IN  Put(buffer, fs, IF binary THEN BinHeader(n) ELSE RawHeader(n, use.compat),
                 v, <<>>, n)

\* An array or a map of n elements or pairs, packed by a frame of kind k.
Begin(k, v, h, n, fs) ==
    IF n >= Limit(4) THEN Refuse(fs)     \* ArgumentError, or RangeError of NUM2UINT
    ELSE Put(buffer, Append(fs, Frame(k, v)), CountHeader(h, n), v, <<>>, 0)

\* Packer#write_ext, and #write_extension for a MessagePack::ExtensionValue,
\* which ExtensionValue#to_msgpack calls.
WriteExtension(v, fs) ==
    LET d == Data[v]
    IN  IF d.type \notin ExtTypes THEN Refuse(fs)     \* RangeError
        ELSE Put(buffer, fs, ExtHeader(d.size, d.type), v, <<>>, d.size)

\* A Fixnum, or msgpack_packer_write_bignum_value, which tries the type for big
\* integers before the native heads.
WriteInteger(v, fs) ==
    LET n == Data[v].n
    IN  IF use.bigints /\ IsOversized(n) THEN Call("plain", v, fs)
        ELSE IF IsBig(n) THEN Refuse(fs)     \* RangeError
        ELSE Put(buffer, fs, WriteLong(n), v, <<>>, 0)

\* msgpack_packer_write_value, called with the stack fs, or the method of the
\* packer for what is no object of its own: write_float32, write_bin_header
\* and the body appended to the buffer, and a to_msgpack that begins with
\* write_array_header or write_map_header.
WriteValue(v, fs) ==
    LET d == Data[v]
        n == Len(inside[v])
    IN  CASE d.k = "nil" -> Put(buffer, fs, Fix("nil", 0), v, <<>>, 0)
          [] d.k = "int" -> WriteInteger(v, fs)
          [] d.k = "float" -> Put(buffer, fs, WriteDouble(d.n), v, <<>>, 0)
          [] d.k = "float32" -> Put(buffer, fs, WriteFloat(d.n), v, <<>>, 0)
          [] d.k = "time" -> Call("plain", v, fs)
          [] d.k \in {"str", "bin", "binhead"} -> Text(v, d.n, fs)
          [] d.k = "ext" -> WriteExtension(v, fs)
          [] d.k = "sym" -> IF use.symbols THEN Call("plain", v, fs) ELSE Text(v, d.n, fs)
          [] d.k = "array" -> Begin("array", v, "array", n, fs)
          [] d.k = "hash" -> Begin("hash", v, "map", n \div 2, fs)
          [] d.k = "rows" -> Begin("user", v, "array", n, fs)
          [] d.k = "pairs" -> Begin("user", v, "map", n \div 2, fs)
          [] d.k \in Ruby -> Call(d.k, v, fs)
          [] d.k = "unknown" -> Refuse(fs)     \* NoMethodError
-----------------------------------------------------------------------------
\* Packer#write
Write(v) ==
    /\ frames = <<>> /\ Len(wrote) < use.writes
    /\ wrote' = Append(wrote, v)
    /\ kept' = sent \o buffer.bytes
    /\ WriteValue(v, <<>>)
    /\ UNCHANGED use

Top == Last(frames)
Caller(f) == Append(Front(frames), f)

\* Mutant: the loop over an array asks for its length every time.
NextElementNow(f) ==
    /\ f.k = "array" /\ (f.at < f.len \/ f.at < Len(inside[f.v]))
    /\ WriteValue(IF f.at < Len(inside[f.v]) THEN inside[f.v][f.at + 1] ELSE Nil,
                  Caller([f EXCEPT !.at = @ + 1]))

\* The loop of msgpack_packer_write_array_value: as many elements as the head
\* says, nil for those that are gone.
NextElement(f) ==
    /\ f.k = "array" /\ f.at < f.len
    /\ WriteValue(IF f.at < Len(inside[f.v]) THEN inside[f.v][f.at + 1] ELSE Nil,
                  Caller([f EXCEPT !.at = @ + 1]))

\* write_hash_foreach: a key, and then the value that was found with it.
NextKey(f) ==
    /\ f.k = "hash" /\ f.todo = <<>> /\ f.at < Len(inside[f.v])
    /\ WriteValue(inside[f.v][f.at + 1],
                  Caller([f EXCEPT !.at = @ + 2, !.todo = <<inside[f.v][f.at + 2]>>]))
NextValue(f) ==
    /\ f.k = "hash" /\ f.todo # <<>>
    /\ WriteValue(f.todo[1], Caller([f EXCEPT !.todo = <<>>]))

\* to_msgpack or a recursive proc calls the packer.
NextOfProc(f) ==
    /\ f.k \in Writing /\ f.at < f.len
    /\ WriteValue(inside[f.v][f.at + 1], Caller([f EXCEPT !.at = @ + 1]))

Continue ==
    /\ frames # <<>>
    /\ \/ NextElement(Top)
       \/ NextKey(Top)
       \/ NextValue(Top)
       \/ NextOfProc(Top)
    /\ UNCHANGED <<use, wrote, kept>>

\* Mutant: the loop over an array ends where the array ends now.
DoneShort(f) == CASE f.k = "array" -> f.at >= Len(inside[f.v])
                  [] f.k = "hash"  -> f.todo = <<>> /\ f.at >= Len(inside[f.v])
                  [] f.k \in Writing -> f.at >= f.len
                  [] f.k = "plain" -> TRUE

\* Mutant: the loop over a hash ends at its end only.
DoneExactly(f) == CASE f.k = "array" -> f.at >= f.len
                    [] f.k = "hash"  -> f.todo = <<>> /\ f.at = Len(inside[f.v])
                    [] f.k \in Writing -> f.at >= f.len
                    [] f.k = "plain" -> TRUE

Done(f) == CASE f.k = "array" -> f.at >= f.len
             [] f.k = "hash"  -> f.todo = <<>> /\ f.at >= Len(inside[f.v])
             [] f.k \in Writing -> f.at >= f.len
             [] f.k = "plain" -> TRUE

\* A container or to_msgpack is done.  A hash that lost pairs has fewer than
\* its head says.
ReturnPlainly(f) ==
    /\ f.k \in {"array", "hash", "user"}
    /\ frames' = Front(frames)
    /\ buffer' = [buffer EXCEPT !.clean = @ /\ (f.k = "hash" => f.at = f.len)]
    /\ UNCHANGED <<inside, sent, issued, dead, exact, raises, meddles>>

\* What the proc of the types that the library brings returns.
Payload(d) == CASE d.k = "int"  -> BigintPayload(d.n)
                [] d.k = "time" -> TimestampPayload(d.n, d.nsec)
                [] OTHER        -> <<>>
PayloadSize(d) == IF Payload(d) # <<>> THEN Len(Payload(d)) ELSE d.size

\* The proc of a type that is not recursive returned its payload.
ReturnPayload(f) ==
    LET d == Data[f.v]
        n == PayloadSize(d)
    IN  /\ f.k = "plain"
        /\ Put(buffer, Front(frames), ExtHeader(n, d.type), f.v, Payload(d), n)

\* A recursive proc returned: what is in the buffer is the payload.
ReturnRecursive(f) ==
    LET n == Size(buffer.bytes)
    IN  /\ f.k = "rec"
        /\ Put(Restored(frames, Len(frames), buffer), Front(frames),
               ExtHeader(n, Data[f.v].type), f.v, Copied(buffer.bytes), n)

Return ==
    /\ frames # <<>> /\ Done(Top)
    /\ \/ ReturnPlainly(Top)
       \/ ReturnPayload(Top)
       \/ ReturnRecursive(Top)
    /\ UNCHANGED <<use, wrote, kept>>
-----------------------------------------------------------------------------
(* What else Ruby code does. *)

InRuby == frames # <<>> /\ Top.k \in Ruby

\* The code raises: the exception goes to the frames below it.
ProcRaises ==
    /\ InRuby /\ raises < use.raises /\ raises' = raises + 1
    /\ Raise(Front(frames), Restored(frames, Len(frames), buffer))
    /\ UNCHANGED <<use, sent, wrote, kept>>

\* It changes an array or a hash that is being packed.
Change ==
    /\ InRuby /\ meddles < use.meddles /\ meddles' = meddles + 1
    /\ \E f \in Range(frames) :
         LET now == inside[f.v]
         IN  \/ /\ f.k = "array"
                /\ inside' \in {[inside EXCEPT ![f.v] = Front(now)] : i \in 1 .. Len(now)}
                               \cup {[inside EXCEPT ![f.v] = Append(now, Nil)]}
             \/ /\ f.k = "hash" /\ now # <<>>
                /\ inside' = [inside EXCEPT ![f.v] = SubSeq(now, 1, Len(now) - 2)]
    /\ exact' = FALSE
    /\ UNCHANGED <<use, buffer, sent, frames, issued, dead, wrote, kept, raises>>

\* A recursive proc calls reset or full_pack.
Clear ==
    /\ InRuby /\ Top.k = "rec" /\ meddles < use.meddles
    /\ meddles' = meddles + 1
    /\ buffer' = Emptied(buffer)
    /\ exact' = FALSE
    /\ UNCHANGED <<use, inside, sent, frames, issued, dead, wrote, kept, raises>>

\* The collector: Packer_mark marks the strings of pk->buffer, HeldBuffer_mark
\* those of the buffers that were put aside.
Collect ==
    LET marked == References(buffer.bytes) \cup UNION {f.held : f \in Range(frames)}
    IN  /\ dead' = (1 .. issued) \ marked
        /\ UNCHANGED <<use, inside, buffer, sent, frames, issued, wrote, kept, exact,
                       raises, meddles>>
-----------------------------------------------------------------------------
(* The owner. *)

\* Packer#flush, #write_to and #full_pack
HandOver ==
    /\ frames = <<>>
    /\ Split(buffer, buffer.bytes, Len(buffer.bytes))
    /\ UNCHANGED <<use, inside, frames, issued, dead, wrote, kept, exact, raises, meddles>>

\* Their IO raises: the chunk that was being written stays whole, and the next
\* flush begins with it again, whatever the IO took of it.  cut is where it
\* begins.
HandOverRaises ==
    /\ frames = <<>> /\ raises < use.raises /\ raises' = raises + 1
    /\ \E cut \in 0 .. Len(buffer.bytes) : Split(buffer, buffer.bytes, cut)
    /\ UNCHANGED <<use, inside, frames, issued, dead, wrote, kept, exact, meddles>>

\* Packer#reset; a new stream begins, with new objects.
Reset ==
    /\ frames = <<>>
    /\ buffer' = Emptied(buffer)
    /\ inside' = Contents
    /\ sent' = <<>> /\ wrote' = <<>> /\ kept' = <<>> /\ exact' = TRUE
    /\ issued' = 0 /\ dead' = {} /\ raises' = 0 /\ meddles' = 0
    /\ UNCHANGED <<use, frames>>

Next ==
    \/ \E v \in use.values : Write(v)
    \/ Continue \/ Return
    \/ ProcRaises \/ Change \/ Clear \/ Collect
    \/ HandOver \/ HandOverRaises \/ Reset

\* The interpreter goes on, and so does Ruby code that was called.
Spec == Init /\ [][Next]_vars /\ WF_vars(Continue \/ Return)
-----------------------------------------------------------------------------
\* The buffer of the owner, while recursive procs have buffers of their own.
Outermost == LET recs == {i \in DOMAIN frames : frames[i].k = "rec"}
             IN  IF recs = {} THEN buffer ELSE frames[Min(recs)].parent
Stream == sent \o Outermost.bytes

\* What a call of write found in the stream stays in it, in front of what it
\* adds, whatever raises in between: the buffer that a recursive proc puts
\* aside comes back (packer.c:118-137).
EarlierKept == IsPrefix(kept, Stream)

\* A string that a buffer refers to, also a buffer put aside, is not collected
\* (buffer_class.c MessagePack_Buffer_hold, packer.c:116,143).
RefsAlive ==
    LET buffers == {buffer} \cup {f.parent : f \in Range(frames)}
    IN  \A b \in buffers : References(b.bytes) \cap dead = {}

\* Every call of write returns or raises, also if the array or the hash it is
\* in the middle of changes (packer.c:61-64, 69-78).
CallsEnd == frames # <<>> ~> frames = <<>>
=============================================================================
