# A TLA+ development of msgpack-ruby

This directory holds TLA+ modules that model the C implementation of
msgpack-ruby (`ext/msgpack/`) and its Ruby layer (`lib/msgpack/`), TLC
configurations that check them on small instances, and TLAPS proofs.  Paths
below are relative to the repository.

## 1. The system

msgpack-ruby encodes Ruby objects to MessagePack bytes and back.

| Component | State | Operations | Talks to |
|---|---|---|---|
| Page pool `ext/msgpack/rmem.[ch]` | head chunk, array of chunks, free masks (one pool per process) | `msgpack_rmem_alloc`, `msgpack_rmem_free` | called by every Buffer; calls `xmalloc`/`xrealloc`, which may run the collector, which frees Buffers |
| Buffer `ext/msgpack/buffer.[ch]` | list of chunks, read position, room in the tail, the page being filled and how much of it is used | append (copy, reference, long), ensure and write, read, skip, feed from IO, flush to IO, clear | page pool; the IO's `read`/`write` methods (Ruby code) |
| Buffer class `buffer_class.c` | HeldBuffer, which marks the strings of a buffer put aside | `read`, `read_all`, `skip`, `skip_all`, `write`, `flush`, ...; the reads ask the IO until they have enough | Buffer, the IO |
| Key cache `buffer.h` | a sorted array of interned strings or symbols, at most 63 | fetch (search, insert) | Unpacker core |
| Unpacker core `unpacker.[ch]` | head byte, rest of a raw body, container stack, last object | `read`, `skip`, headers, `skip_nil`, `reset` | Buffer; procs of extension types (Ruby code, which may call the unpacker) |
| Unpacker class `unpacker_class.c` | options, registry | `read`, `each`, `feed`, `full_unpack`, ... and the errors they raise | Unpacker core |
| Packer core and class `packer.[ch]`, `packer_class.c` | buffer, registry, the buffer swapped away while a recursive extension is packed | `write`, `write_*`, `flush`, `write_to`, `full_pack` | Buffer; `to_msgpack` and procs of extension types (Ruby code) |
| Extension registry of unpackers `unpacker_ext_registry.[ch]` | 256 slots and a borrow count | borrow, release, put (copy on write), lookup | Factory, Unpacker |
| Extension registry of packers `packer_ext_registry.[ch]` | a hash of classes and a lookup cache | dup, borrow (shared when frozen), put, lookup | Factory, Packer |
| Factory `factory_class.c`, `lib/msgpack/factory.rb` | both registries, flags | `register_type`, `dup`, `freeze`, `packer`, `unpacker`, `pool` | registries, Packer, Unpacker |
| Pool `lib/msgpack/factory.rb` | a frozen factory, two lists of idle members | `load`, `dump`, `packer`, `unpacker` | Packer, Unpacker; any number of threads |
| Timestamp, Bigint `lib/msgpack/` | none | `to_msgpack_ext`, `from_msgpack_ext` | extension types |
| ExtensionValue, core extensions `extension_value_class.c`, `core_ext.rb`, `symbol.rb` | none | `to_msgpack` | Packer |
| JRuby `ext/java/` | the same interface on JRuby's byte lists | | |

Three kinds of behaviour make this code hard:

* *Callbacks under the VM lock.*  The C code does not run in parallel with
  itself, but an allocation may run the collector (which frees buffers), an IO
  method may raise, let other threads run, and come back later, and the proc of
  an extension type may call the very packer or unpacker that called it.
* *Interrupted work.*  An unpacker may be cut short at every byte and must go on
  there in the next call; a flush may be cut short after each chunk.
* *Sharing.*  A page of 4 KiB is cut up among several chunks of one buffer, a
  chunk of 32 pages among all buffers; registries are shared between a factory
  and what it made until one of them changes.

What each component must keep to:

* page pool: no page in two hands, no held page in freed memory, no region lost;
* Buffer: a queue of bytes, whatever the chunks they lie in; pages owned by
  exactly one chunk; nothing lost when an IO raises; a read gives what it takes,
  `read_all` all or nothing, and comes back;
* key cache: a key gets the string with its own bytes, and finds it again;
* Unpacker: the objects that the encoding means, in order, however the data is
  split and whoever calls; the stack follows the calls; every call ends;
* Packer: what is written is the encoding of the value, or nothing that a later
  call could mistake for it when a proc raises;
* Timestamp, Bigint: a payload is read back as the value it was made of;
* registries and factory: a registration reaches the holder it is made on and
  nobody else; freed when the last holder is gone;
* Pool: a member is in one thread's hands, and comes back reset.

## 2. Modules

| Module | Models |
|---|---|
| `PageAllocator` | what the page pool promises: an abstract allocator of pages of regions |
| `Rmem` | the page pool in detail; implements `PageAllocator` |
| `RmemProofs` | the theorems about `Rmem` and their proofs |
| `MCRmem` | TLC instance |
| `ByteQueue` | what a buffer promises: a queue of bytes |
| `Buffer` | one buffer with chunks, pages, IO and other users of the pool |
| `KeyCache` | the cache of hash keys: its order, search and insertion, as operators |
| `BufferReads`, `MCBuffer` | the reads of the Buffer class, turn by turn, and the reads of keys, on a `Buffer`; implements `ByteQueue` |
| `BufferLemmas`, `BufferProofs` | lemmas about lists of chunks; the theorems about `Buffer` and `BufferReads` and their proofs |
| `Unpacker`, `MCUnpacker` | one unpacker with its stack, its calls and the calls of procs |
| `UnpackerProofs` | the theorems about `Unpacker` and their proofs |
| `Format` | the heads of encoded objects, written and read |
| `Payloads` | the payloads of Timestamp and Bigint, written and read |
| `Packer` | one packer: nested values, procs of extension types, exceptions, its IO and the collector |
| `PackedStream` | where the objects that the packer wrote end, and `WholeObjects` |
| `PackedValues` | what they mean, nested payloads included, and `Decodes`; for TLC only, since its parser is a RECURSIVE operator |
| `MCPacker` | TLC instance: the objects |
| `PackerProofs` | the theorems about `Packer`, `PackedStream`, `Format` and `Payloads` and their proofs |
| `ExtHolders` | the objects that have registries (constants and the set of live ones) |
| `ExtTables` | what the registries promise: every holder has a table of its own |
| `UnpackerExtRegistry` | the counted, copy-on-write registries of unpackers and factories; implements `ExtTables` |
| `UnpackerExtRegistryProofs` | the theorems about it and their proofs |
| `PackerExtRegistry` | the registries of packers and factories, with the lookup cache; implements `ExtTables` |
| `Factory`, `MCFactory` | factories, packers and unpackers with both registries and the flags that travel with them |
| `FactoryProofs` | lemmas about the registries of packers, operation by operation; the theorems about factories and both registries |
| `Pool`, `MCPool` | the pool of packers or unpackers, used by several threads |
| `PoolProofs` | the theorems about `Pool` and their proofs |

`Rmem`, `Buffer`, `Unpacker` and `Pool` each stand for themselves: `Buffer` has
the page pool as its environment (`ForeignAlloc`, the pages it is given), and
`Unpacker` has the buffer as a queue, the contract that `buffer` checks.
`Factory` composes the two registries by EXTENDS: each of its actions conjoins
the operation of one registry with that of the other.

### Rmem

`head`, `array`, `array_last` and `capacity` are the fields of `msgpack_rmem_t`;
pointers into the array are indices.  A chunk is a region and the set of its
free positions (the 32 bit mask).  `live` and `heap` are bookkeeping of the
environment: how many buffers hold each page, and which regions malloc has
given.  Each operation is one action except `_msgpack_rmem_alloc2`, which is cut
at its two calls of the allocator: `BeginGrow`/`EndGrow` around `xrealloc`,
`BeginChunk` (or `EndGrow`)/`EndChunk` around `xmalloc`.  Between the halves
`Free` may happen: that is the collector freeing a buffer.  `MallocRaises` is
the `NoMemoryError` out of `xmalloc`.

### Buffer

A chunk is a piece of a page (`kind = "page"`, with `first`/`last` in the page
`at`, and `mem` the page it must give back, or `NULL`), a malloc block or a
referenced string.  `memory` holds what the pages really contain, so a page
that is given back too early shows as bytes of another buffer
(`ForeignAlloc` writes junk to it).  The payload of a byte is its number in the
stream: `FifoIntact` compares what can be read with what was written.  A flush
is a sequence of steps: `BeginFlush`, one `WriteReturns` per chunk, `Resume` for
the append that started it; `WriteRaises` may end it at each.  A page that goes back
to the pool is overwritten, and so is one that another buffer takes: whoever
still reads it reads somebody else's bytes.

`BufferReads` adds the methods of `buffer_class.c`.  A call of `read`, `skip`,
`read_all` or `skip_all` is `Start`, turns, and an end: `TakeBuffered` (what lies in
the chunks), `TakeFromIo` (past the buffer, with an empty head; a `read` asks the IO for
`io_buffer_size` at most, a `skip` for all that is left), `FeedMore` (into
the buffer, for `read_all`), then `AtEnd` (`EOFError` or `nil` from the IO, or no
IO) or `IoRaises`.  `call` is the method with its argument and how it
ended, `out` what it took.  Between turns the other buffers of the process use
the pool, as the IO's `read` may let them.  `ReadKey` is a read of the unpacker
through the cache of `KeyCache`; the content of a byte is `Letter` of its number.

`ByteQueue` has the numbers of the bytes in the queue, how many were accepted, and
how far the reader or the IO has received them.  The refinement mapping takes
the unread bytes of all chunks, `written` and `flushed`; that the bytes come
from the right places in the right pages is in the mapping.

### Unpacker

The buffer is a queue of bytes here (`Buffer` shows that it is one).  A byte
stands for what the switch in `read_primitive` makes of it.  `frames` is the C
stack: `msgpack_unpacker_read`/`_skip` and the procs of recursive types between
them.  One step is one call of `read_primitive`, or one turn of the
`container_completed` loop.  An object is where its bytes lie in the stream,
and where the objects it was built from begin, so "the right object" is a
comparison with what the stream means (`EndOf`, `KidsOf`).  A header call or
`skip_nil` is a frame too, since the IO may deliver or raise inside it.  An owner
that the IO interrupted may go on with any call, except that it does not ask for the
header of another object in the middle of one.  On an IO `Streaming` leaves out
`full_unpack`, which raises when bytes follow the object and has then taken what it
does not return.  What a `read` makes of elements that a
`skip` has passed over (`SkipsMixIn`) is no object of the stream;
`ObjectsGenuine` then compares the ends only.

### Packer and Format

`Format` has the heads of `packer.h` as operators on numbers, and what
`read_primitive` makes of them.  The widths are the real ones, 1, 2, 4 and 8
bytes; a byte holds `Base` values, so that 8 bytes can be enumerated.  A body is
one element of the stream with its size, whose it is, and, for a recursive type,
the bytes the proc wrote, or for Time and Bigint those of `Payloads`.  `Payloads`
keeps the shape of the formats: words of four bytes, the two bits that
`timestamp64` takes from the nanoseconds, and a sign byte before the words of a
big integer, the low one first.

An object is a kind and a number.  Beside the values there are the calls that
write a head or a body alone: `rows` and `pairs` are a `write_array_header` or
`write_map_header` followed by writes of the elements, `binhead` is a
`write_bin_header`, `ext` is `write_ext` or an `ExtensionValue` (with its range
check of the type), `float32` is `write_float32`.

In `Packer`, `frames` is the C and Ruby stack: the loop over an array
(`at` and `len` are `i` and `len32`), `rb_hash_foreach` (`todo` is the value that was
found with the key), and the calls of `to_msgpack` and of procs.  `parent` and `held` of
a frame are `parent_buffer` and `held_buffer` in
`msgpack_packer_try_write_with_ext_type_lookup`.  A step is one call of
`msgpack_packer_write_value` or one return.  `Put` is an append with the flushes
it may cause (chunks are left to `Buffer`: where a flush falls is open, between
the heads and bodies).  When the write of a chunk raises, the chunk stays whole and is
written again: `sent` ends where that chunk begins, and what the IO has taken of it
is not counted (`Buffer` has the repeat).  `Raise` unwinds the stack to any Ruby code
that rescues, and gives back the parent buffer of each recursive frame on the way.
Between two steps Ruby code may raise, pop from or append to an array that is
being packed, delete the last pair of a hash, call `reset`, or have the collector
run.  `inside` is what the containers hold now, `Data` what they held when `write`
was called first.

`nil` stands for `true` and `false` too.  A double is a number with its bits.  What
the registry finds for an object is part of what the object is (`plain`, `rec`, or
nothing); `Factory` has the lookup.

`WriteInteger` has two tests of `msgpack_packer_write_bignum_value` that are not the
same: `IsOversized` (`required_size > 8`), which sends an integer to the type for big
integers if there is one, and `IsBig`, what `rb_big2ull` and `rb_big2ll` refuse.  They
differ in -2^63 (section 5).  `Decodes` states the limits of its own accord, and not
by these operators.

### Registries and Factory

A registry of unpackers is a `Registry` (an address) with its `borrow_count` and
`array`; `ukrg` is the pointer each holder has.  `UkBorrow` and `UkRelease` are
the functions of the header and run without interruption;
`msgpack_unpacker_ext_registry_put` is three actions, cut where it allocates
(`BeginPut`, `Cow`, `StoreEntry`): in the cuts, and nowhere else, another holder
may be collected.  While a put is under way no other operation starts, since the
VM lock is held.  `*ukrg` is written by `StoreEntry` only, so between `Cow` and
`StoreEntry` the owner still points at the registry that `Cow` has given up;
`Owned` is the registry its count is part of.  `Erased` throws away what a freed
block held, so that a use of freed memory would show in the tables.

A registry of packers is a sequence of pairs (a Ruby Hash keeps the order of
insertion) and a cache.  `pkrg`, `frozen`, `hash` and `cache` follow
`packer_ext_registry.c`; the two Hashes of a registry are always made, copied and
shared together, and carry one id.  Ids that no holder has are reused (the
collector frees Hashes nobody has).  `found` remembers what the last lookup returned.

`Factory` adds the flags: `has_symbol`, `has_bigint` and `optimized` are the
fields of the structs as sets of the objects that have them; `oversized` is
bookkeeping: who was asked to pack big integers.

### Pool

`members`, `size` and `member` are the variables of `with`; a call is one
activation of it.  Without a mutex (MRI) one action is one call into C (`pop`,
`size`, `reset`, `<<`), with the mutex the critical sections are single actions.
`dirty` are the members with something left in them, which `reset` ends.
`Interrupted` is an asynchronous exception outside the block.

## 3. Runs

| Run | Result | Shows |
|---|---|---|
| `rmem` | holds | 4 regions of 2 pages, array of 2 growing to 4, one `NoMemoryError`: no page handed out twice, held pages lie in regions of the pool, regions neither lost nor doubled, masks exact, one spare chunk, and the refinement of `PageAllocator` |
| `rmem_gc_realloc` | violated | a collection inside `xrealloc` |
| `buffer` | holds | seven uses (writer to an IO, reader from an IO, in memory, copies with reads, reads over copies, over references, keys): the chunk list is sound, the IO gets the stream, every step is a step of `ByteQueue`, the calls of the class take exactly what they give (`CallsExact`), come back short only at the end (`ShortOnlyAtEof`), and end (`CallsEnd`); keys get their own strings |
| `buffer_long` | violated | references between pages, then `write_to` |
| `unpacker` | holds | six uses (fed `each`, all calls, procs, IO; IO with `read` and `skip`, or `read` and the header calls, that finish each other's work): right objects in order, stack matches calls, nothing left on it, calls end |
| `unpacker_skip_in_proc` | violated | `skip` called by the proc of a recursive type |
| `unpacker_skip_nil` | violated | `skip_nil` followed by `read` |
| `factory` | holds | two factories, a packer and an unpacker: registries freed exactly with their last holder, counts exact, cache never stale, lookups depend on registrations only, both registries implement tables that are not shared; every step of `Factory` is a step of `UnpackerExtRegistry` (`UkSpec`) |
| `factory_dup` | violated | big integers after `Factory#dup` |
| `factory_symbols` | violated | `optimized_symbols_parsing` with a type other than 0 |
| `packer` | holds | every width and length, times and big integers, header calls, extension values, nested objects, procs that raise, rescue, change or reset, an IO that raises: the bytes decode to the objects, payloads to the values, counts in heads agree with what follows, nothing written before is lost, referenced strings live, calls end |
| `pool` | holds | three calls on MRI and with the mutex: members never shared, clean when pooled, the bound of the pool |

*Bounds.*  The pool: with two pages a chunk is full, half free and free; four
regions fill the head, an array of two, and force it to grow; the five
interesting moves (head swap, grow, swap to first, close the gap with the last
chunk, free) all happen.  The buffer: three pages of 3 bytes, strings of 1, 2 and
4 bytes (and long ones of 2 and 5) and 7 bytes in all: strings end before, at
and behind the end of a page, a page is taken while another is unread, and
another buffer can take a page that was given back.  One page at most is with the
others at a time, because the real pool does not run out.  `read` and its kin ask
for 2 or 4 bytes or for all, the IO gives at most 2 at once (`IoBufferSize`), so a
call takes several turns, from chunks and from the IO.  The key cache has 3
places; the bytes 1, 0, 0, 1, 0, 1, 1 make keys of equal and of different
lengths that differ in the first byte or the last.  The unpacker: streams
are chosen to contain each kind of head byte at the top, in an array, as key
and as value, and each error; `Feed` and `IoDelivers` split them everywhere.
The capacity of the stack is 4 instead of 128 (nothing depends on the number
but the comparison in `_msgpack_unpacker_stack_push`).

The factory: two registrations (`MaxPuts`) after, between or before any number of
`packer`, `unpacker`, `dup`, `freeze` and collections, with three registries, so
that one may be shared, one copied from it and one be copied from that, and four
holders, so that a count reaches 3.  The classes are a module, a class that
includes it, and a singleton class; there is an entry without a proc.  The
classes with flags, Symbol and Integer, take part in the two other runs only:
they are classes like the others to the registries.  One extension type is
enough for the registries (types are independent of each other in the array);
`factory_symbols` has two.  The pool: three calls, so that two may have looked
at the size before a third pushes; sizes 0 and 1; six members, one for each call
and each place there can be in the pool.

The packer: with `Base` 8 the limits are 8, 64, 4096 and 8^8, and both neighbours of
each are written, as numbers, as lengths of strings, binaries, symbols and
payloads (4096 bytes of a string or behind a `write_bin_header`, and an array of
4096, are what is refused), in compatibility
mode and not, with and without the types of symbols and big integers (so -2^63 is
written both ways); arrays and
hashes of 0, 1, 2, 63 and 64; times at both sides of what 32 and 34 bits hold,
before 1970 and with nanoseconds; types of extension values at both sides of
their range.  The other uses write up to two nested objects, with
recursive types inside each other, strings above the reference threshold on each
level, one exception more than the objects cause themselves, and one change.

*Symmetry.*  Regions, holders, registries, members and calls are permuted
only where every definition treats them alike, and never in a run with a
liveness property (`buffer` has one, so its pages are not).  `factory` checks refinements under symmetry: they are
step properties (`Init` and `[][Next]`), which TLC evaluates on each step, and the
abstract specifications are symmetric in the same values.

*Deadlock.*  It is checked in every run.

*Fairness.*  Only the three properties `CallsEnd` need any.  In `Unpacker`
`WF(Decode)`, in `Packer` `WF(Continue \/ Return)`: the interpreter goes on inside a
call, and the Ruby code that is called returns.  In `BufferReads` it is the same
for a read (`WF` of the turns) and for a flush (`WF(FlushTurn)`): the methods of
the IO come back, and its stream ends (`written = MaxBytes`); that they ever raise is
not assumed.  Nothing is assumed of the owner, the feeder or, in `Unpacker` and
`Packer`, the IO.  That the loops end whatever happens to the array, the hash or the
answers of the IO is what has to be shown, and not assumed.

## 4. Proofs

`RmemProofs` proves for every number of regions, pages and every initial
capacity:

* `TypeCorrect`: the type invariant, also when the collector runs inside
  `xrealloc`;
* when it does not (`~ GcInRealloc`): `PagesNeverShared`, `RegionsOwned`,
  `SpareChunkBound`, `MasksTrue`, `LivePagesStayAllocated` and
  `PoolImplementsAllocator` (`Spec => Allocator!Spec`).

The condition is needed: `rmem_gc_realloc` is the counterexample without it.

None of the invariants is inductive by itself.  `IInv` is the conjunction of
`TypeOK`, `NoSharedPages`, `RegionsOwnedOnce`, `MasksExact`, `OneSpareChunk`
and three more: `LiveInHeap` (a held page lies in a region of the pool, else
freeing a chunk could lose it), `Windows` (what holds between the two halves of
`_msgpack_rmem_alloc2`: during `xmalloc` the head has no region and its mask is
already set; during `xrealloc` the `length` that was read is still right) and
`NullChunks` (a chunk left behind by an `xmalloc` that raised never offers its
page 0, so that the head of a later allocation is not disturbed by a free of a
null page).  There is one lemma per action; `GiveToSlot` and the three cases of
`FreeToArrayStep` follow the chunk that becomes free.  `NoNull` adds that pages
of the null pointer are held only after a `NoMemoryError`.

`UnpackerExtRegistryProofs` proves for any number of holders, registries, types
and entries, and for any number of registrations:

* `UkTypeCorrect`, `NothingHeldIsFreed` (`HeldAllocated`), `CountsAreExact`
  (`CountExact`) and `RegistriesImplementTables` (`UkSpec => UkTables!Spec`).

`UkInv` is `UkTypeOK`, `HeldAllocated`, `CountExact` and two more: `PutWindow`
(where a put stands and what its variables are: the owner is alive, in "entry"
the copy is its alone) and `DeadHoldNothing` (who is not alive points at
nothing, so that a new object starts without a registry).  The counting
argument is in `OnlyHolder`, `SameHolders` and `CowHolders`: a count of zero
means one holder, and `Cow` moves the owner, and nobody else, from one set of
holders to another.

`FactoryProofs` proves for any finite set of factories, packers and unpackers and
any classes, entries and types:

* `FactoryTypeCorrect`, `CachesAreCoherent` (`CacheCoherent`) and
  `LookupsAreByRegistration` (`LookupByRegistration`);
* `FactoriesUseRegistries` (`Spec => UkSpec`), which carries the theorems about the
  registries of unpackers to the factory: `FactoriesKeepRegistries` and
  `FactoriesImplementTables`;
* `HashesImplementTables` (`Spec => PkTablesSpec`): what is registered for packers
  is seen by the holder it is registered on, though Hashes are shared.

`FactoryInv` is `UkInv`, `PkInv` and the types of the flags.  `PkInv` adds to the
properties what makes sharing sound: `SharedIsFrozen` (a Hash with two holders is
frozen, so a put copies it first), `Keyed` (a Hash has one pair for a key, so that
storing replaces) and `DeadHaveNone`.  A cached entry stays right because the
cache is emptied where the Hash changes: `LookupInv` and the lemma of each put.

`BufferProofs`, on the lemmas of `BufferLemmas`, proves for any pool of pages, any
page size, thresholds, lengths and bytes:

* `BufferTypeCorrect` (`ReadsTypeOK`), `ListsAreSound` (`ListSound`),
  `StreamsAreComplete` (`IoGetsStream`), `CallsAreExact` (`CallsExact`),
  `KeysAreInterned` (`KeysInterned`) and `ShortReadsAreAtEof` (`ShortOnlyAtEof`);
* `BuffersAreQueues` (`QueueSpec`): the refinement of `ByteQueue`.

The inductive invariant `ReadsInv` has a part for each thing an operation counts
on.  `ListInv` says where each byte lies: chunk after chunk, the bytes from
`taken` to `written`, in places nobody else holds (`List` of `BufferLemmas`, which
is a predicate of its arguments, so that its lemmas are about a write, a split or
a consumed byte and not about the operations).  `KindsInv` says which kinds of
chunks a use can have, `CallInv` what a flush that is under way still has to
write or to append, `CountsInv` that nothing is flushed that was not accepted.
`CallsInv` ties a read of several turns to what it has taken, `KeysInv` keeps the
cache sorted, from which `SearchFinds` gets that a search finds what is there.

The theorems assume `SoundUse`, a condition on the constant part of a use: the
buffer has an IO or is not passed references; or is passed references only; or
its bytes leave by `clear` only.  What that excludes, copies between references
and then a read or `write_to`, is where `ListSound` fails: it is the run
`buffer_long`, and the code is wrong there (section 5).  All uses of the run `buffer`
satisfy it.

`UnpackerProofs` proves `UnpackerTypeCorrect` for every stream and every use, and
for sound ones:

* `ObjectsAreGenuine` (`ObjectsGenuine`), `ObjectsComeInOrder` (`EachInOrder`),
  `EachDrainsTheBuffer` (`EachDrains`), `EntriesMatchCalls` (`StackMatchesCalls`)
  and `StackIsBounded` (`StackBounded`).

The invariant `Inv` is `TypeOK`, `CallsInv` (how calls of the owner and of procs
lie in each other) and `StreamInv`, which relates the decoder to the stream:
`HeadInv` (the head byte that is kept is the one in front of the position, and
what `raw` counts is the rest of its body; without one the position is at a
head), `NestInv` (each entry of the stack begins inside the one below it, entries
of procs are those of the frames), `PathInv` (an entry waits for the element that
its count says, and a proc has got those in front of it), `KidsInv` (what is
stored in it are the elements in front, keys with keys), `CompletedInv` (the
object just completed is genuine), `EmptyInv` (when nothing is on the stack) and
`OrderInv` (the object the owner gets next begins where the last one ended).  None can
be left out: a read that is cut short knows nothing but the head byte, `raw` and
the counts of the stack, so that these are right is all that makes the next call
go on in the right place.

What the stream means is a recursive function of the data (`ObjectsEnd`), which no
induction theorem reaches.  `EndSolved` and `EndEquation` take the equation from the
definition, by well-foundedness of what is left of the stream; after that every
step of the decoder uses the equation once.  Where an induction over the levels
is needed (`Chain`), `Descend` is one by a least counterexample (`Least`).

*What the theorems about the unpacker assume.*  `SoundUses`: streams in which bodies
follow their heads, though the last object may be cut off (`WellFormed`); procs
call `read` and not `skip`; after an unknown type or a proc that raised the owner
calls `reset` first; header calls together with `each` only on an IO; and the byte
0xc1 does not meet `skip_nil` and the header calls where the stack is kept.  The
second is the finding of `unpacker_skip_in_proc`; the third and the last are uses in which
the code itself decodes a byte again or drops it (section 5).  `[]RoomForProcs`: no
recursive extension begins on the last level; there the code calls the proc without
an entry (section 5), and `StackMatchesCalls` would not hold.  TLC finds both true in
all of the run `unpacker`, and so is each part of `Inv`.

`PoolProofs` proves for any finite set of calls, any members and any sizes:

* `TypeCorrect`, `NoSharedMember` (`Exclusive`), `NothingLeftBehind`
  (`PooledClean`) and `PoolIsBounded` (`Bounded`).

Its `IInv` adds to these `HeldInside` (a call has a member only while it is
in the block or in `ensure`), `ResetBeforePush` (what is about to be pushed is
clean) and `CheckedFirst` (without a mutex nobody comes to `reset` if the size
is 0).  `StillBounded` is the count: when a call passes the check, the members
in the pool are fewer than `size` and the other calls are `Cardinality(Call) - 1`.

`PackerProofs` proves for any objects, containers and kinds, any nesting, any uses
and any `Base`:

* `TypeCorrect` (`TypeOK`), `NothingLost` (`EarlierKept`) and `NothingCollected`
  (`RefsAlive`);
* `StreamIsObjects` (`WholeObjects`), if payloads fit into their heads (below);
* about the formats alone, `NumbersReadBack`, `HeadsReadBack`, `TimestampsReadBack`
  and `BigintsReadBack`: what `HeadAt`, `TimestampFrom` and `BigintFrom` read is what
  was written, for every integer, length, type, time and big integer that the code
  accepts, at any place of any stream.

`IInv` is `Ready(frames, buffer)`, `InsideInv`, the bounds of the counters and
`KeptFirst`.  `Ready` is about a stack and a buffer, and not about the variables,
because an operation passes both on before they are assigned.  Its `Sound` says that
every frame is of a kind that its object has (`IsFrame`), that no buffer but the
owner's has an IO (so a flush inside a proc sends nothing out of order), that no
buffer in use or put aside refers to a dead string, and that `held` of a frame
covers the references of its `parent`; without the last, `Collect` would break the one
before it.  `InsideInv` says that Ruby code changes containers only, and that a
hash keeps its pairs together, on which `NextKey` counts.  `KeptFirst` is `EarlierKept`
with the owner's buffer found the way the code finds it, frame by frame
(`Owners`, through `Restored`); `OutermostIs` shows that this is the `parent` of the
lowest recursive frame.

The steps are in lemmas about the helpers: `Unwound` follows an exception through any
number of recursive frames, and gives a sound stack and the same buffer of the
owner; `PutKeeps` and `PushRec` are the append and the call; `PopReady` is the
return to a caller, `CallerReady` the caller going on.  What a step may do to the
stream is `Keeps`: it has the same stream with something behind it.

`StreamIsObjects` needs to know what the stream still lacks while calls are under
way.  `Awaits(s, k, m)` says that m more objects behind `s` make it k whole ones,
whatever they are: `AwaitsObject` adds one to a stream, where an array or a map
trades one object for its elements.  `Owed(frames, m)` says that the stack is going
to write m objects into the buffer of the owner: an array what its loop has left
(and not what the array has left, which is why changes do no harm), a hash what it
still has of the pairs in its head, a `to_msgpack` its remaining writes, a recursive
type one for itself, and nothing above the lowest recursive frame, as
those frames write into other buffers.  `Promised`, the inductive invariant next to
`IInv`, ties the two together: if the owner's buffer is clean, its stream awaits as
many objects as the stack owes, to be `Len(wrote)`.  The steps are `PutPromises` for an append,
`PopPromises` for a return and `ContinuePromises` for the frame that goes on.  That
the heads promise what the stack then owes is in the lemmas that end in `Says`, for
heads of every width.  The equations of the recursive functions (`Power`,
`UnsignedAt`, `ObjectsEnd`, the words of a big integer) are taken from their definitions by
a least counterexample (`FirstIs`, `Descend`), not by an induction theorem.

*What it assumes.*  `[]PayloadsFit`: an extension that is written, or that a proc
has just returned, has fewer than `Limit(4)` bytes, 2^32 in the code.  `msgpack_packer_write_ext`
(packer.h:359) does not check that, and casts the length to 32 bits (section 5), so
the theorem does not hold without it.  All states of the run `packer` satisfy it, and `Promised`.

*Assumptions.*  Each constant's assumption is named in the module that declares
it and evaluated by TLC in every run: finite sets of holders and calls (they are
counted), `NULL` outside the sets it is added to, positive sizes.

*Model-checked only.*  The three properties `CallsEnd`, since the prover does not
reach liveness.  `Decodes` of `PackedValues`: its parser follows payloads into the
streams they are made of, to any depth, as a RECURSIVE operator, which TLAPS cannot
expand.  What it rests on is proved, one format at a time: the stream is whole
objects, and numbers, heads, times and big integers read back.

## 5. Where code and documents part

Shown by a run (see `findings` in PROJECT.json): the collection inside
`xrealloc` (rmem.c:61), the page reused after its owner (buffer.c:377), `skip`
inside a proc (unpacker.c:881), `skip_nil` (unpacker.c:982), the flags that
`Factory#dup` leaves behind (factory_class.c:117), `symbol_ext_type` which nothing
assigns (unpacker.c takes the symbol shortcut for type 0 only).

Seen while modelling, not spent a run on:

* rmem.c:73: after a `NoMemoryError` the head offers 31 pages of the null
  pointer.  `LivePagesAllocated` excepts exactly these.
* unpacker.c:381: the result of pushing the entry of a recursive extension is
  ignored, so at full depth its proc runs without an entry where
  doclib/msgpack/unpacker.rb:84 promises `StackError`, and the entry popped after it
  is that of a container.  No run has such a stream (its hazard has no property);
  `StackBounded` is checked on streams whose last level is a container.
* unpacker_class.c:288: `each` on fed data raises `EOFError` when the data ends
  inside a recursive extension; doclib/msgpack/unpacker.rb:157 excepts EOFError.
* unpacker.c: after an extension type that is unknown, or whose proc raised, the
  head byte is kept though its body is consumed; the next call without `reset`
  decodes it again.  `skip_nil` and the header calls drop the head byte they do not
  accept if it is 0xc1.
* unpacker.c:497: the proc of a recursive type gets a String when the extension
  has no body; when it raises, the head byte is kept as with a plain type.
* packer.h:485: with a type for big integers -2^63 is written by that type, although it
  fits in an int64: its high bit is in use, so `required_size` becomes 9.
  spec/factory_spec.rb:361 says the type is not used "for integers fitting in native
  types" (and tests 42).  The value is read back all the same, if the reader has
  the type.  Without the type it is written as an int64.
* packer.c:86: a proc that deletes pairs of the hash that is being packed leaves a
  head that promises more pairs than follow.  An array is safe from that: its
  loop writes nil for what is gone.  `WholeObjects` leaves such hashes out
  (`clean`).
* packer.h:359: a payload of 2^32 bytes or more gets the head of its size modulo
  2^32; strings of that size are refused.  Payloads in the run stop below.
* packer.c:133: `msgpack_buffer_all_as_string` allocates outside `rb_protect`; a
  `NoMemoryError` there leaves the temporary buffer in the packer.
* lib/msgpack/factory.rb:142: "If the pool is already full, we simply drop the
  extra member": without a mutex, calls that looked at the size at the same time
  all push.  `Bounded` is what does hold: `size` and one for each other call.
* packer_ext_registry.c: the search takes the first class registered among the
  ancestors, not the nearest.
* `has_symbol_ext_type` stays set when Symbol is registered again without a proc.
* unpacker_ext_registry.c: during a put that copied, the owner's pointer may be
  to a registry that is already freed, until the entry is allocated and stored.
  `HeldAllocated` excepts exactly this window, by `Owned`.

## 6. Not modelled, and the plan

Not modelled because there is no state or no choice in it: the platform layer
(`sysdep*.h`, `compat.h`, `rbinit.c`), the Struct `ExtensionValue` itself, and
`to_msgpack` without a packer, which makes a packer of the default factory.

Left out of the modules that are there:

* Buffer: the accessors (`size`, `to_s`, `io`, ...), which change nothing;
  thresholds are a choice of the operation; `NoMemoryError` in the middle of
  an append; a `write` method of the IO that appends to the very buffer that is being
  flushed (what it adds to the head chunk is dropped with it).
* Unpacker: registrations between two calls (`Factory` has the registrations),
  going on without `reset` after the proc of a plain type raised, procs that make
  other calls than `read` and `skip`; `msgpack_unpacker_peek_next_object_type`,
  which nothing calls.  The options select what an object becomes, not where it
  lies.
* Packer: the transcoding of strings, which makes another string first, and
  `to_msgpack` methods that write nothing or twice.
* Registries: the window in a put when `rb_ary_new3` runs the collector while the
  owner is marked through the old registry, and `NoMemoryError` there.
* Factory and Pool: the options of `Factory#pool` and the keyword arguments of
  `packer` and `unpacker`, which are passed on.
* The JRuby implementation (`ext/java/`), a program of its own with the same
  interface: it has no chunks, pages or pool, and reads from JRuby's buffers.

Every other component has its module, each state machine its theorems, and every
safety property of the runs but `Decodes` is one of them.
