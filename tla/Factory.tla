------------------------------ MODULE Factory ------------------------------
(***************************************************************************)
(* MessagePack::Factory (ext/msgpack/factory_class.c, lib/msgpack/         *)
(* factory.rb) and the packers and unpackers it makes: both registries and *)
(* the flags that travel with them.  A factory has both registries, a      *)
(* packer and an unpacker one each.                                        *)
(***************************************************************************)
EXTENDS UnpackerExtRegistry, PackerExtRegistry

CONSTANTS
    Factories, Packers, Unpackers,  \* what each holder is
    Symbol, Integer,                \* the classes with flags, if in Class
    ExtModule,                      \* the class an unpacker's entry is for
    ZeroType,                       \* the extension type 0
    MaxPuts                         \* bound on the number of registrations

ASSUME FactoryAssumption ==
    /\ Holder = Factories \cup Packers \cup Unpackers
    /\ Factories \cap (Packers \cup Unpackers) = {} /\ Packers \cap Unpackers = {}
    /\ ExtModule \in [UkEntry -> Class]
    /\ ZeroType \in ExtType
    /\ MaxPuts \in Nat

VARIABLES
    sealed,     \* the factories that are frozen
    has_symbol, \* has_symbol_ext_type
    has_bigint, \* has_bigint_ext_type
    optimized,  \* optimized_symbol_ext_type; symbol_ext_type is always 0
    oversized,  \* the last registration of Integer asked for bigints
    puts        \* how many registrations there were

flags == <<sealed, has_symbol, has_bigint, optimized, oversized>>
vars  == <<ukvars, pkvars, flags, puts>>

TypeOK ==
    /\ UkTypeOK /\ PkTypeOK
    /\ sealed \subseteq Factories
    /\ {has_symbol, has_bigint, oversized} \subseteq SUBSET (Factories \cup Packers)
    /\ optimized \subseteq Factories \cup Unpackers
    /\ puts \in 0 .. MaxPuts

Init ==
    /\ alive = {} /\ UkInit /\ PkInit
    /\ sealed = {} /\ has_symbol = {} /\ has_bigint = {} /\ optimized = {}
    /\ oversized = {}
    /\ puts = 0

Idle == pc = "idle"
Appears(n) == n \notin alive /\ alive' = alive \cup {n}

\* n gets the flag where h has it.
Copied(flag, h, n) == IF h \in flag THEN flag \cup {n} ELSE flag

\* Factory.new, Packer.new and Unpacker.new
New(n) ==
    /\ Idle /\ Appears(n)
    /\ found' = NULL
    /\ UNCHANGED <<tables, call, pkrg, hash, cache, frozen, flags, puts>>

\* Factory#packer
MakePacker(f, n) ==
    /\ Idle /\ f \in alive \cap Factories /\ n \in Packers /\ Appears(n)
    /\ PkBorrow(f, n)
    /\ has_symbol' = Copied(has_symbol, f, n)
    /\ has_bigint' = Copied(has_bigint, f, n)
    /\ oversized' = Copied(oversized, f, n)
    /\ UNCHANGED <<tables, call, sealed, optimized, puts>>

\* Factory#unpacker
MakeUnpacker(f, n) ==
    /\ Idle /\ f \in alive \cap Factories /\ n \in Unpackers /\ Appears(n)
    /\ UkBorrow(f, n)
    /\ optimized' = Copied(optimized, f, n)
    /\ found' = NULL
    /\ UNCHANGED <<call, pkrg, hash, cache, frozen, sealed, has_symbol, has_bigint,
                   oversized, puts>>

\* Mutant: the copy shares the registry of the factory without borrowing it.
DupUnborrowed(f, n) ==
    /\ Idle /\ f \in alive \cap Factories /\ n \in Factories /\ Appears(n)
    /\ UkBorrowUncounted(f, n) /\ PkDup(f, n)
    /\ has_symbol' = Copied(has_symbol, f, n)
    /\ oversized' = Copied(oversized, f, n)
    /\ UNCHANGED <<call, sealed, has_bigint, optimized, puts>>

\* Factory#dup: neither has_bigint_ext_type nor optimized_symbol_ext_type is
\* copied.
Dup(f, n) ==
    /\ Idle /\ f \in alive \cap Factories /\ n \in Factories /\ Appears(n)
    /\ UkBorrow(f, n) /\ PkDup(f, n)
    /\ has_symbol' = Copied(has_symbol, f, n)
    /\ oversized' = Copied(oversized, f, n)
    /\ UNCHANGED <<call, sealed, has_bigint, optimized, puts>>

\* Factory#freeze
Freeze(f) ==
    /\ Idle /\ f \in (alive \cap Factories) \ sealed
    /\ PkFreeze(f)
    /\ sealed' = sealed \cup {f}
    /\ UNCHANGED <<alive, tables, call, has_symbol, has_bigint, optimized, oversized, puts>>

Counted == puts < MaxPuts /\ puts' = puts + 1

\* Factory#register_type of the class c as type t, with an entry for packers
\* and one for unpackers, up to the first allocation of the second; big is the
\* option oversized_integer_extension, fast is optimized_symbols_parsing.
RegisterType(f, c, e, t, u, big, fast) ==
    /\ f \in (alive \cap Factories) \ sealed /\ Counted
    /\ ExtModule[u] = c
    /\ big => c = Integer
    /\ fast => c = Symbol
    /\ has_symbol' = IF c = Symbol /\ Proc(e) THEN has_symbol \cup {f} ELSE has_symbol
    /\ has_bigint' = IF big THEN has_bigint \cup {f} ELSE has_bigint
    /\ oversized' = IF c # Integer THEN oversized
                    ELSE IF big THEN oversized \cup {f} ELSE oversized \ {f}
    /\ optimized' = IF fast THEN optimized \cup {f} ELSE optimized
    /\ PkPut(f, c, e)
    /\ BeginPut(f, t, u)
    /\ UNCHANGED <<alive, sealed>>

\* Packer#register_type, which always has a proc.
PackerRegisterType(p, c, e) ==
    /\ Idle /\ p \in alive \cap Packers /\ Proc(e) /\ Counted
    /\ PkPut(p, c, e)
    /\ IF pkrg[p] \in frozen    \* FrozenError out of rb_hash_aset
       THEN UNCHANGED <<has_symbol, oversized>>
       ELSE /\ has_symbol' = IF c = Symbol THEN has_symbol \cup {p} ELSE has_symbol
            /\ oversized' = IF c = Integer THEN oversized \ {p} ELSE oversized
    /\ UNCHANGED <<alive, tables, call, sealed, has_bigint, optimized>>

\* Unpacker#register_type
UnpackerRegisterType(n, t, u) ==
    /\ n \in alive \cap Unpackers /\ Counted
    /\ BeginPut(n, t, u)
    /\ found' = NULL
    /\ UNCHANGED <<alive, pkrg, hash, cache, frozen, flags>>

\* The rest of msgpack_unpacker_ext_registry_put.
CowReturns(r) ==
    /\ Cow(r)
    /\ UNCHANGED <<alive, pkrg, hash, cache, frozen, found, flags, puts>>
PutReturns ==
    /\ StoreEntry
    /\ UNCHANGED <<alive, pkrg, hash, cache, frozen, found, flags, puts>>

\* A packer meets an object of the class real whose rb_class_of is c.
Lookup(p, c, real) ==
    /\ Idle /\ p \in alive \cap Packers
    /\ PkLookup(p, c, real)
    /\ UNCHANGED <<alive, tables, call, flags, puts>>

\* An object that nobody refers to is collected, at any allocation.
Die(h) ==
    /\ h \in alive \ {owner}
    /\ alive' = alive \ {h}
    /\ UkRelease(h) /\ PkRelease(h)
    /\ sealed' = sealed \ {h} /\ has_symbol' = has_symbol \ {h}
    /\ has_bigint' = has_bigint \ {h} /\ optimized' = optimized \ {h}
    /\ oversized' = oversized \ {h}
    /\ UNCHANGED <<call, puts>>

Next ==
    \/ \E n \in Holder : New(n)
    \/ \E f, n \in Holder : \/ MakePacker(f, n) \/ MakeUnpacker(f, n)
                            \/ Dup(f, n)
    \/ \E f \in Factories : Freeze(f)
    \/ \E f \in Factories, c \in Class, e \in PkEntry, t \in ExtType, u \in UkEntry,
          big, fast \in BOOLEAN : RegisterType(f, c, e, t, u, big, fast)
    \/ \E p \in Packers, c \in Class, e \in PkEntry : PackerRegisterType(p, c, e)
    \/ \E n \in Unpackers, t \in ExtType, u \in UkEntry : UnpackerRegisterType(n, t, u)
    \/ \E r \in Registry : CowReturns(r)
    \/ PutReturns
    \/ \E p \in Packers, o \in Instances : Lookup(p, o[1], o[2])
    \/ \E h \in Holder : Die(h)

Spec == Init /\ [][Next]_vars

-----------------------------------------------------------------------------
\* A factory that packs big integers makes packers and copies that do:
\* Factory#dup, and so Factory#pool, keeps what was registered.
BigintsPacked == oversized \subseteq has_bigint

\* The shortcut of optimized_symbols_parsing (unpacker.c takes it for
\* symbol_ext_type) is for the type that Symbol is registered for, and for
\* that type only.
ShortcutIsSymbols ==
    \A n \in optimized \cap Unpackers, t \in ExtType :
      LET e == UkTable[n][t]
      IN  e # NULL => (t = ZeroType <=> ExtModule[e] = Symbol)
=============================================================================
