----------------------------- MODULE MCUnpacker -----------------------------
(* Model checking of Unpacker: the streams. *)
EXTENDS Unpacker

B(k, cast, n) == [k |-> k, cast |-> cast, n |-> n]
Fix == B("int", 0, 0)       Wide == B("int", 1, 0)
Nil == B("nil", 0, 0)       Bad   == B("bad", 0, 0)
D   == B("data", 0, 0)
Arr(n) == B("arr", 0, n)    Arr16(n) == B("arr", 1, n)
Map(n) == B("map", 0, n)    Str(n)   == B("str", 0, n)
Plain(n) == B("plain", 1, n)
Unknown(n) == B("unknown", 1, n)
Rec(n) == B("rec", 1, n)

FlatStreams == {
    <<Arr(2), Fix, Str(2), D, D, Nil>>,
    <<Map(1), Str(1), D, Arr16(1), D, Fix, Fix>>,
    <<Wide, D, Arr(2), Plain(2), D, D, D, Arr(0), Fix>>,
    <<Arr(1), Map(1), Arr(1), Fix, Map(0), Fix>>}

RecStreams == {
    <<Arr(2), Rec(2), D, Arr(1), Fix, Fix, Nil, Fix>>,
    <<Rec(1), D, Rec(1), D, Str(1), D, Nil>>,
    <<Map(1), Rec(1), D, Nil, Rec(1), D, Arr(1), Fix>>}

ErrorStreams == {
    <<Arr(2), Bad, Fix, Nil>>,
    <<Arr(1), Unknown(1), D, D, Fix>>,
    <<Arr(1), Plain(1), D, D, Fix>>,
    <<Rec(0), D, Arr(1), Arr(1), Arr(1), Arr(1), Arr(1), Fix, Nil>>}

NilStreams == {<<Nil, Fix>>}

\* Data that is fed in pieces to each.
Fed == [streams |-> FlatStreams, io |-> FALSE, ops |-> {"each"},
        proc_ops |-> {"read"}, raises |-> FALSE, go_on |-> {}]
\* All the calls, also after errors.
Calls == [streams |-> FlatStreams \cup RecStreams \cup ErrorStreams,
          io |-> FALSE, ops |-> {"read", "skip", "full", "header", "skip_nil"},
          proc_ops |-> {"read"}, raises |-> TRUE,
          go_on |-> {"malformed", "deep", "rec_raised", "eof_in_proc"}]
\* Recursive types whose procs raise.
Procs == [streams |-> RecStreams, io |-> FALSE, ops |-> {"read", "each"},
          proc_ops |-> {"read"}, raises |-> TRUE, go_on |-> {}]
\* An IO that delivers any number of bytes, or raises.
FromIo == [streams |-> FlatStreams \cup RecStreams \cup ErrorStreams,
           io |-> TRUE, ops |-> {"read", "each"},
           proc_ops |-> {"read"}, raises |-> FALSE, go_on |-> {}]
\* The same with skip, which may finish what read began and the other way round.
SkipsFromIo == [FromIo EXCEPT !.streams = FlatStreams \cup RecStreams,
                              !.ops = {"read", "skip"}]
\* The header calls, which read may go on with as well.
HeadersFromIo == [FromIo EXCEPT !.streams = FlatStreams,
                                !.ops = {"read", "header", "skip_nil"}]
SoundUses == {Fed, Calls, Procs, FromIo, SkipsFromIo, HeadersFromIo}

SkipInProcUses == {[Procs EXCEPT !.ops = {"read"}, !.proc_ops = {"skip"},
                                 !.raises = FALSE]}
SkipNilUses == {[Fed EXCEPT !.streams = NilStreams, !.ops = {"skip_nil", "read"}]}
=============================================================================
