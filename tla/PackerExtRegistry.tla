------------------------- MODULE PackerExtRegistry -------------------------
(***************************************************************************)
(* The registries of packers and factories                                 *)
(* (ext/msgpack/packer_ext_registry.h, packer_ext_registry.c).             *)
(*                                                                         *)
(* A registry is a Ruby Hash from classes to entries, in the order of      *)
(* registration, and a second Hash that caches what was found for classes  *)
(* by their ancestors.  The two are always made, copied and shared         *)
(* together: one id stands for both.  Registries whose Hash is frozen are  *)
(* shared, all others are copied.  An entry may have no proc: the class is *)
(* known but not packed by it.                                             *)
(***************************************************************************)
EXTENDS Integers, Sequences, FiniteSetsExt, ExtHolders

CONSTANTS
    Class,      \* classes, modules and singleton classes
    Ancestors,  \* the classes each of them inherits from, itself included
    PkEntry,    \* [ext_type, proc, flags]
    NoProc,     \* the entry whose proc is nil
    Instances,  \* the kinds of objects: what rb_class_of and rb_obj_class give
    HashId

ASSUME ClassAssumption ==
    /\ Ancestors \in [Class -> SUBSET Class]
    /\ \A c \in Class : c \in Ancestors[c]
    /\ NoProc \in PkEntry
    /\ \A o \in Instances : o[1] \in Class /\ o[2] \in Ancestors[o[1]]
    /\ NULL \notin HashId \cup PkEntry

VARIABLES
    pkrg,       \* the registry of each object: NULL for hash = cache = nil
    hash,       \* pairs of a class and its entry
    cache,
    frozen,     \* the frozen Hashes
    found       \* what the last lookup was about and what it returned

pkvars == <<alive, pkrg, hash, cache, frozen, found>>

NoCache == [c \in Class |-> NULL]

PkTypeOK ==
    /\ pkrg \in [Holder -> HashId \cup {NULL}]
    /\ hash \in [HashId -> Seq(Class \X PkEntry)]
    /\ cache \in [HashId -> [Class -> PkEntry \cup {NULL}]]
    /\ frozen \subseteq HashId
    /\ found = NULL \/ found \in [of : HashId, class : Class, plain : BOOLEAN,
                                  entry : PkEntry \cup {NULL}]

PkInit ==
    /\ pkrg = [h \in Holder |-> NULL]
    /\ hash = [i \in HashId |-> <<>>]
    /\ cache = [i \in HashId |-> NoCache]
    /\ frozen = {} /\ found = NULL

Used  == {pkrg[h] : h \in alive}
Fresh(i) == i \in HashId \ Used
-----------------------------------------------------------------------------
(* Hashes of classes. *)

\* The places of the pairs whose class is c, and of those c inherits from.
Own(hs, c)   == {i \in DOMAIN hs : hs[i][1] = c}
Above(hs, c) == {i \in DOMAIN hs : hs[i][1] \in Ancestors[c]}

\* The entry of the first of these places.
First(hs, at) == IF at = {} THEN NULL ELSE hs[Min(at)][2]

\* rb_hash_lookup
Get(hs, c) == First(hs, Own(hs, c))

\* rb_hash_aset: a key that is there keeps its place.
Aset(hs, c, e) ==
    IF Own(hs, c) = {} THEN Append(hs, <<c, e>>)
    ELSE [i \in DOMAIN hs |-> IF hs[i][1] = c THEN <<c, e>> ELSE hs[i]]

\* Mutant: the last one registered.
SearchLast(hs, c) ==
    IF Above(hs, c) = {} THEN NULL ELSE hs[Max(Above(hs, c))][2]

\* rb_hash_foreach with msgpack_packer_ext_find_superclass: the first class
\* registered that c inherits from, not the nearest.
Search(hs, c) == First(hs, Above(hs, c))

Proc(e) == e \in PkEntry \ {NoProc}

\* msgpack_packer_ext_registry_fetch: the entry of a class that is registered
\* counts, with or without a proc; only then the cache.
Fetch(i, c) ==
    LET e == IF Get(hash[i], c) # NULL THEN Get(hash[i], c) ELSE cache[i][c]
    IN  IF Proc(e) THEN e ELSE NULL
-----------------------------------------------------------------------------
\* Mutant: the cache is not cleared.
PkPutKeepsCache(h, c, e) ==
    /\ IF pkrg[h] = NULL
       THEN \E i \in HashId :
              /\ Fresh(i)
              /\ pkrg' = [pkrg EXCEPT ![h] = i]
              /\ hash' = [hash EXCEPT ![i] = <<<<c, e>>>>]
              /\ cache' = [cache EXCEPT ![i] = NoCache]
              /\ frozen' = frozen \ {i}
       ELSE LET i == pkrg[h]
            IN  /\ hash' = IF i \in frozen THEN hash
                           ELSE [hash EXCEPT ![i] = Aset(@, c, e)]
                /\ UNCHANGED <<pkrg, cache, frozen>>
    /\ found' = NULL

\* msgpack_packer_ext_registry_put.  A put into a registry that is frozen
\* clears the cache before rb_hash_aset raises FrozenError.
PkPut(h, c, e) ==
    /\ IF pkrg[h] = NULL
       THEN \E i \in HashId :
              /\ Fresh(i)
              /\ pkrg' = [pkrg EXCEPT ![h] = i]
              /\ hash' = [hash EXCEPT ![i] = <<<<c, e>>>>]
              /\ cache' = [cache EXCEPT ![i] = NoCache]
              /\ frozen' = frozen \ {i}
       ELSE LET i == pkrg[h]
            IN  /\ cache' = [cache EXCEPT ![i] = NoCache]
                /\ hash' = IF i \in frozen THEN hash
                           ELSE [hash EXCEPT ![i] = Aset(@, c, e)]
                /\ UNCHANGED <<pkrg, frozen>>
    /\ found' = NULL

Copy(h, n) ==
    \E i \in HashId :
      /\ Fresh(i)
      /\ pkrg' = [pkrg EXCEPT ![n] = i]
      /\ hash' = [hash EXCEPT ![i] = hash[pkrg[h]]]
      /\ cache' = [cache EXCEPT ![i] = cache[pkrg[h]]]
      /\ frozen' = frozen \ {i}

Share(h, n) == /\ pkrg' = [pkrg EXCEPT ![n] = pkrg[h]]
               /\ UNCHANGED <<hash, cache, frozen>>

\* Mutant: what is not frozen is shared as well.
PkBorrowShared(h, n) == Share(h, n) /\ found' = NULL

\* msgpack_packer_ext_registry_borrow, by the packer n of the factory h.
PkBorrow(h, n) == /\ IF pkrg[h] = NULL \/ pkrg[h] \in frozen
                     THEN Share(h, n) ELSE Copy(h, n)
                  /\ found' = NULL

\* msgpack_packer_ext_registry_dup, by the factory n, also of a frozen one.
PkDup(h, n) == /\ IF pkrg[h] = NULL THEN Share(h, n) ELSE Copy(h, n)
               /\ found' = NULL

\* Factory#freeze
PkFreeze(h) == /\ frozen' = frozen \cup ({pkrg[h]} \ {NULL})
               /\ found' = NULL
               /\ UNCHANGED <<pkrg, hash, cache>>

\* msgpack_packer_ext_registry_lookup for an instance of the class real whose
\* rb_class_of is c: its singleton class, if it has one, else real itself.
PkLookup(h, c, real) ==
    LET i == pkrg[h]
        Return(e) == found' = [of |-> i, class |-> c, plain |-> c = real, entry |-> e]
        above == Search(hash[i], c)
    IN  /\ i # NULL
        /\ \/ Fetch(i, c) # NULL /\ Return(Fetch(i, c)) /\ UNCHANGED cache
           \/ /\ Fetch(i, c) = NULL /\ c # real /\ Fetch(i, real) # NULL
              /\ Return(Fetch(i, real)) /\ UNCHANGED cache
           \/ /\ Fetch(i, c) = NULL /\ Fetch(i, real) = NULL
              /\ Return(IF Proc(above) THEN above ELSE NULL)
              /\ cache' = IF above = NULL THEN cache
                          ELSE [cache EXCEPT ![i][c] = above]
        /\ UNCHANGED <<pkrg, hash, frozen>>

\* The object is collected, and its Hashes with it if no other object has them.
PkRelease(h) ==
    LET kept == {pkrg[o] : o \in alive \ {h}}
    IN  /\ pkrg' = [pkrg EXCEPT ![h] = NULL]
        /\ hash' = [i \in HashId |-> IF i \in kept THEN hash[i] ELSE <<>>]
        /\ cache' = [i \in HashId |-> IF i \in kept THEN cache[i] ELSE NoCache]
        /\ frozen' = frozen \cap kept
        /\ found' = NULL
-----------------------------------------------------------------------------
\* The cache never lies: what it holds for a class is what the search among
\* the registered classes gives now, whoever shares the cache and whatever was
\* registered, copied or refused since.
CacheCoherent ==
    \A i \in Used \ {NULL} : \A c \in Class :
      cache[i][c] # NULL => cache[i][c] = Search(hash[i], c)

\* A lookup for an object without a singleton class depends on what is
\* registered, never on the lookups before: the entry of its class if that has
\* a proc, else the first one registered for an ancestor.
LookupByRegistration ==
    found # NULL /\ found.plain =>
      LET hs    == hash[found.of]
          own   == Own(hs, found.class)
          at    == IF \E i \in own : Proc(hs[i][2]) THEN own
                   ELSE Above(hs, found.class)
          entry == First(hs, at)
      IN  found.entry = IF Proc(entry) THEN entry ELSE NULL

\* The registries implement tables that are not shared: sharing what is frozen
\* and copying the rest cannot be told from having a table of one's own.
PkTable == [h \in Holder |->
              IF h \in alive /\ pkrg[h] # NULL
              THEN [c \in Class |-> Get(hash[pkrg[h]], c)]
              ELSE [c \in Class |-> NULL]]
PkTables == INSTANCE ExtTables WITH Key <- Class, Entry <- PkEntry, None <- NULL, table <- PkTable
PkTablesSpec == PkTables!Spec
=============================================================================
