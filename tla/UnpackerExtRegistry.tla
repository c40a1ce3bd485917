------------------------ MODULE UnpackerExtRegistry ------------------------
(***************************************************************************)
(* The registries of unpackers and factories                               *)
(* (ext/msgpack/unpacker_ext_registry.h, unpacker_ext_registry.c).         *)
(*                                                                         *)
(* A registry is a malloc block that several objects may point at; its     *)
(* borrow_count is the number of them less one.  A registration copies a   *)
(* registry that is shared.  The VM lock is held all along, but ALLOC and  *)
(* rb_ary_new3 may run the collector in the middle of                      *)
(* msgpack_unpacker_ext_registry_put: program points "alloc" and "entry".  *)
(***************************************************************************)
EXTENDS Integers, ExtHolders

CONSTANTS
    Registry,   \* the addresses ALLOC may return
    ExtType,    \* the types, -128 .. 127 in the code
    UkEntry     \* [ext_module, proc, flags]

ASSUME RegistryAssumption == NULL \notin Registry \cup UkEntry

VARIABLES
    ukrg,           \* the registry each object points at
    borrow_count,
    array,          \* the entries, by type
    heap,           \* the registries allocated and not freed
    pc,             \* where a put under way stands
    owner,          \* its first argument
    ext_registry,   \* its local variable, what cow returned
    put             \* its type and entry

ukvars == <<alive, ukrg, borrow_count, array, heap, pc, owner, ext_registry, put>>
tables == <<ukrg, borrow_count, array, heap>>
call   == <<pc, owner, ext_registry, put>>

NoEntries == [t \in ExtType |-> NULL]

UkTypeOK ==
    /\ alive \subseteq Holder
    /\ ukrg \in [Holder -> Registry \cup {NULL}]
    /\ borrow_count \in [Registry -> Nat]
    /\ array \in [Registry -> [ExtType -> UkEntry \cup {NULL}]]
    /\ heap \subseteq Registry
    /\ pc \in {"idle", "alloc", "entry"}
    /\ owner \in Holder \cup {NULL}
    /\ ext_registry \in Registry \cup {NULL}
    /\ put \in (ExtType \X UkEntry) \cup {NULL}

UkInit ==
    /\ ukrg = [h \in Holder |-> NULL]
    /\ borrow_count = [r \in Registry |-> 0]
    /\ array = [r \in Registry |-> NoEntries]
    /\ heap = {}
    /\ pc = "idle" /\ owner = NULL /\ ext_registry = NULL /\ put = NULL
-----------------------------------------------------------------------------
\* Mutant: one borrower too few is counted.
UkBorrowUncounted(h, n) ==
    /\ ukrg' = [ukrg EXCEPT ![n] = ukrg[h]]
    /\ UNCHANGED <<borrow_count, array, heap>>

\* msgpack_unpacker_ext_registry_borrow, by an object that has no registry.
UkBorrow(h, n) ==
    /\ ukrg' = [ukrg EXCEPT ![n] = ukrg[h]]
    /\ IF ukrg[h] = NULL
       THEN UNCHANGED borrow_count
       ELSE borrow_count' = [borrow_count EXCEPT ![ukrg[h]] = @ + 1]
    /\ UNCHANGED <<array, heap>>

\* What was in a block that is not allocated any more is lost.
Erased(a, blocks) == [b \in Registry |-> IF b \in blocks THEN a[b] ELSE NoEntries]

\* Mutant: the count is taken down before it is looked at.
UkReleaseDecrementFirst(h) ==
    LET r == ukrg[h]
    IN  /\ ukrg' = [ukrg EXCEPT ![h] = NULL]
        /\ borrow_count' = [b \in Registry |-> IF b = r THEN borrow_count[b] - 1
                                               ELSE borrow_count[b]]
        /\ heap' = {b \in heap : borrow_count'[b] >= 0}
        /\ array' = Erased(array, heap')

\* msgpack_unpacker_ext_registry_release, called by an object that goes.
UkRelease(h) ==
    LET r == ukrg[h]
    IN  /\ ukrg' = [ukrg EXCEPT ![h] = NULL]
        /\ IF r # NULL /\ borrow_count[r] > 0
           THEN borrow_count' = [borrow_count EXCEPT ![r] = @ - 1] /\ UNCHANGED heap
           ELSE heap' = heap \ {r} /\ UNCHANGED borrow_count
        /\ array' = Erased(array, heap')

\* Mutant: a shared registry is used as it is.
BeginPutUncopied(h, t, e) ==
    /\ pc = "idle"
    /\ owner' = h /\ put' = <<t, e>>
    /\ IF ukrg[h] = NULL
       THEN pc' = "alloc" /\ UNCHANGED ext_registry
       ELSE pc' = "entry" /\ ext_registry' = ukrg[h]
    /\ UNCHANGED tables

\* msgpack_unpacker_ext_registry_put up to its first allocation: a registry
\* that nobody shares is used as it is.
BeginPut(h, t, e) ==
    /\ pc = "idle"
    /\ owner' = h /\ put' = <<t, e>>
    /\ IF ukrg[h] = NULL \/ borrow_count[ukrg[h]] > 0
       THEN pc' = "alloc" /\ UNCHANGED ext_registry
       ELSE pc' = "entry" /\ ext_registry' = ukrg[h]
    /\ UNCHANGED tables

\* Mutant: the old registry keeps its count.
CowUnreleased(r) ==
    LET src == ukrg[owner]
    IN  /\ pc = "alloc" /\ r \notin heap
        /\ ext_registry' = r
        /\ array' = [array EXCEPT ![r] = IF src = NULL THEN NoEntries ELSE array[src]]
        /\ borrow_count' = [borrow_count EXCEPT ![r] = 0]
        /\ heap' = heap \cup {r}
        /\ pc' = "entry"
        /\ UNCHANGED <<ukrg, owner, put>>

\* The rest of msgpack_unpacker_ext_registry_cow: ALLOC returned r.  The old
\* registry loses a borrower, or its last holder if the others were collected
\* inside ALLOC, although *ukrg still points at it.
Cow(r) ==
    LET src == ukrg[owner]
    IN  /\ pc = "alloc" /\ r \notin heap
        /\ heap' = {r} \cup (IF src # NULL /\ borrow_count[src] = 0
                             THEN heap \ {src} ELSE heap)
        /\ ext_registry' = r
        /\ array' = Erased([array EXCEPT ![r] = IF src = NULL THEN NoEntries ELSE array[src]],
                           heap')
        /\ borrow_count' = [b \in Registry |->
                              IF b = r THEN 0
                              ELSE IF b = src /\ borrow_count[b] > 0
                                   THEN borrow_count[b] - 1
                                   ELSE borrow_count[b]]
        /\ pc' = "entry"
        /\ UNCHANGED <<ukrg, owner, put>>

\* The entry is there: it is stored, and the object gets its registry.
StoreEntry ==
    /\ pc = "entry"
    /\ array' = [array EXCEPT ![ext_registry][put[1]] = put[2]]
    /\ ukrg' = [ukrg EXCEPT ![owner] = ext_registry]
    /\ pc' = "idle" /\ owner' = NULL /\ ext_registry' = NULL /\ put' = NULL
    /\ UNCHANGED <<borrow_count, heap>>
-----------------------------------------------------------------------------
(* The registries by themselves: objects are made from each other, register *)
(* types and are collected, also in the middle of a put of another object.  *)

UkNew(n) == /\ pc = "idle" /\ n \notin alive
            /\ alive' = alive \cup {n}
            /\ UNCHANGED <<tables, call>>

UkDerive(h, n) == /\ pc = "idle" /\ h \in alive /\ n \notin alive
                  /\ alive' = alive \cup {n}
                  /\ UkBorrow(h, n)
                  /\ UNCHANGED call

UkDie(h) == /\ h \in alive \ {owner}
            /\ alive' = alive \ {h}
            /\ UkRelease(h)
            /\ UNCHANGED call

UkPut(h, t, e) == h \in alive /\ BeginPut(h, t, e) /\ UNCHANGED alive

UkNext ==
    \/ \E n \in Holder : UkNew(n)
    \/ \E h, n \in Holder : UkDerive(h, n)
    \/ \E h \in Holder : UkDie(h)
    \/ \E h \in Holder, t \in ExtType, e \in UkEntry : UkPut(h, t, e)
    \/ \E r \in Registry : Cow(r) /\ UNCHANGED alive
    \/ StoreEntry /\ UNCHANGED alive

UkSpec == alive = {} /\ UkInit /\ [][UkNext]_ukvars
-----------------------------------------------------------------------------
\* The registry whose count an object is part of: during a put that copied,
\* the copy.
Owned(h) == IF pc = "entry" /\ h = owner THEN ext_registry ELSE ukrg[h]
Holders(r) == {h \in alive : Owned(h) = r}

\* A registry is not freed while an object points at it, and no pointer stays
\* behind in an object: release frees exactly what nobody uses, whenever the
\* collector runs.  The owner of a put under way is excepted: until
\* *ukrg is assigned it may point at a registry that is gone.
HeldAllocated == \A h \in alive : Owned(h) \in heap \cup {NULL}

\* borrow_count is the number of holders less one, so nothing leaks and
\* nothing is freed twice.
CountExact == \A r \in heap : Cardinality(Holders(r)) = borrow_count[r] + 1

\* The registries implement tables that are not shared: a registration is seen
\* by the object it is made on, and by no other, from one moment on.
UkTable == [h \in Holder |->
              IF h \in alive /\ Owned(h) # NULL THEN array[Owned(h)] ELSE NoEntries]
UkTables == INSTANCE ExtTables WITH Key <- ExtType, Entry <- UkEntry, None <- NULL, table <- UkTable
UkTablesSpec == UkTables!Spec
=============================================================================
