----------------------------- MODULE ExtTables -----------------------------
(***************************************************************************)
(* What the registries of extension types promise (unpacker_ext_registry.c *)
(* and packer_ext_registry.c of ext/msgpack): every factory, packer and    *)
(* unpacker has a table of its own.  A registration changes the table of   *)
(* the object it is made on; what a factory makes starts with a copy of    *)
(* the factory's table.  How tables are shared is the registries' business.*)
(***************************************************************************)
CONSTANTS Holder, Key, Entry, None

VARIABLE table

Empty == [k \in Key |-> None]

Init == table = [h \in Holder |-> Empty]

Register(h) == \E k \in Key, e \in Entry :
                 table' = [table EXCEPT ![h][k] = e]

\* Factory#packer, #unpacker and #dup, for an object n that is new.
Derive(h, n) == /\ table[n] = Empty
                /\ table' = [table EXCEPT ![n] = table[h]]

\* The object is collected.
Discard(h) == table' = [table EXCEPT ![h] = Empty]

Next == \/ \E h \in Holder : Register(h) \/ Discard(h)
        \/ \E h, n \in Holder : Derive(h, n)

Spec == Init /\ [][Next]_table
=============================================================================
