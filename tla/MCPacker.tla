------------------------------ MODULE MCPacker ------------------------------
(* Model checking of Packer: the objects. *)
EXTENDS PackedValues

Of(k, n) == [k |-> k, n |-> n, nsec |-> 0, size |-> 0, type |-> 0, kids |-> <<>>]
With(k, kids) == [Of(k, 0) EXCEPT !.kids = kids]
Ext(k, type, size, kids) == [With(k, kids) EXCEPT !.type = type, !.size = size]

\* Both sides of every limit, for Base = 8: 8, 64, 4096 and 16777216 unsigned,
\* 4, 32, 2048 and 8388608 signed.
Values == {0, -1, -2, 3, -8388608, -8388609, 16777215, 16777216}
          \cup UNION {{m - 1, m, -m, -m - 1} : m \in {4, 32, 2048}}
          \cup UNION {{m - 1, m} : m \in {8, 64, 4096}}
\* Around what timestamp32 and timestamp64 can hold.
Moments == {0, 4095, 4096, 16383, 16384, -1, -8388608, 8388607} \X {0, 1, 1023}
Lengths == {0, 3, 4, 5, 7, 8, 63, 64, 4095, 4096}
Sizes   == {0, 1, 2, 3, 4, 5, 7, 8, 63, 64, 4095}
Counts  == {0, 1, 2, 63, 64}
TooMany == 4096

Name(k, n) == k \o ToString(n)
Named(k, ns, d(_)) == [o \in {Name(k, n) : n \in ns} |->
                          d(CHOOSE n \in ns : Name(k, n) = o)]

Ints    == Named("int", Values, LAMBDA n : [Of("int", n) EXCEPT !.type = 2])
Times   == [o \in {"time" \o ToString(t) : t \in Moments} |->
              LET t == CHOOSE m \in Moments : "time" \o ToString(m) = o
              IN  [Of("time", t[1]) EXCEPT !.nsec = t[2], !.type = -1]]
Floats  == Named("float", {0, 4097}, LAMBDA n : Of("float", n))
Strs    == Named("str", Lengths, LAMBDA n : Of("str", n))
Bins    == Named("bin", Lengths, LAMBDA n : Of("bin", n))
Singles == Named("float32", {0, 4095}, LAMBDA n : Of("float32", n))
BinHeads == Named("binhead", {0, 5, 8, 4096}, LAMBDA n : Of("binhead", n))
Exts    == Named("ext", {-5, -4, 3, 4}, LAMBDA n : Ext("ext", n, 5, <<>>))
Syms    == Named("sym", {4}, LAMBDA n : Ext("sym", -4, 2, <<>>))
Plains  == Named("plain", Sizes, LAMBDA n : Ext("plain", 3, n, <<>>))
Arrays  == Named("array", Counts \cup {TooMany}, LAMBDA n : With("array", [i \in 1 .. n |-> "nil"]))
Hashes  == Named("hash", Counts, LAMBDA n : With("hash", [i \in 1 .. 2 * n |-> "nil"]))

Nested ==
    [o \in {"nil", "unknown", "row", "record", "table", "inner", "outer", "thing", "broken",
            "empty", "stream", "rows", "pairs"} |->
       CASE o = "nil"     -> Of("nil", 0)
         [] o = "unknown" -> Of("unknown", 0)
         [] o = "row"     -> With("array", <<"str5", "thing", "int3">>)
         [] o = "record"  -> With("hash", <<"str3", "plain2", "plain1", "str5">>)
         [] o = "table"   -> With("array", <<"outer", "str5">>)
         [] o = "inner"   -> Ext("rec", 1, 0, <<"str5", "plain1">>)
         [] o = "outer"   -> Ext("rec", -1, 0, <<"str5", "inner">>)
         [] o = "thing"   -> With("user", <<"record">>)
         [] o = "broken"  -> With("hash", <<"int3", "unknown">>)
         [] o = "empty"   -> Ext("rec", 1, 0, <<>>)
         [] o = "rows"    -> With("rows", <<"str5", "ext3", "pairs">>)
         [] o = "pairs"   -> With("pairs", <<"str3", "plain1">>)
         [] o = "stream"  -> Ext("rec", 1, 0, <<"row">>)]

AllData == Nested @@ Ints @@ Times @@ Floats @@ Singles @@ BinHeads @@ Exts @@ Strs @@ Bins @@ Syms @@ Plains @@ Arrays @@ Hashes
Objects == DOMAIN AllData

\* One object of every width, with and without the types of the Factory.
Widths == {[io |-> FALSE, compat |-> c, bigints |-> b, symbols |-> b,
            values |-> Objects \ DOMAIN Nested, writes |-> 1, raises |-> 0,
            meddles |-> 0] : c \in BOOLEAN, b \in BOOLEAN}
\* Procs that raise and rescue, change containers and reset the packer.
Procs(values, writes) ==
    [io |-> FALSE, compat |-> FALSE, bigints |-> FALSE, symbols |-> TRUE,
     values |-> values, writes |-> writes, raises |-> 1, meddles |-> 1]
\* An IO that takes a part.
FromIo == [Procs({"row", "table", "str3"}, 2) EXCEPT !.io = TRUE, !.meddles = 0]

PackerUses == Widths
    \cup {Procs({"table", "str5", "broken"}, 2), Procs({"row", "str3"}, 2),
          Procs({"empty", "stream", "sym4", "record"}, 1), FromIo,
          Procs({"rows", "float320"}, 1)}
=============================================================================
