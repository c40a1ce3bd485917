------------------------------ MODULE MCBuffer ------------------------------
(* Model checking of Buffer and BufferReads: what a buffer may be used for.   *)
EXTENDS BufferReads

Writer == [io |-> TRUE,  ops |-> {"append", "ensure", "long", "write_to", "clear"}]
Reader == [io |-> TRUE,  ops |-> {"feed", "direct", "read", "clear", "call"}]
Memory == [io |-> FALSE, ops |-> {"append", "ensure", "long", "clear"}]
Copies == [io |-> FALSE, ops |-> {"append", "ensure", "read", "write_to", "clear"}]
Mixed  == [io |-> FALSE, ops |-> {"append", "read", "call"}]
Refs   == [io |-> FALSE, ops |-> {"long", "read", "call"}]
Keys   == [io |-> TRUE,  ops |-> {"feed", "read", "key"}]
Long   == [io |-> FALSE, ops |-> {"append", "long", "write_to"}]

SoundUses == {Writer, Reader, Memory, Copies, Mixed, Refs, Keys}
LongUses  == {Long}

\* Three keys of two bytes that differ in either byte, two of one byte.
Letters == <<1, 0, 0, 1, 0, 1, 1, 0>>
=============================================================================
