--------------------- MODULE UnpackerExtRegistryProofs ---------------------
(***************************************************************************)
(* Proofs about UnpackerExtRegistry, for any finite set of objects and any *)
(* sets of addresses, types and entries.                                   *)
(***************************************************************************)
EXTENDS UnpackerExtRegistry, FiniteSetTheorems, TLAPS

\* What holds while a put is under way.
PutWindow ==
    /\ pc = "idle" <=> owner = NULL
    /\ pc # "idle" => owner \in alive /\ put \in ExtType \X UkEntry
    /\ pc = "entry" => ext_registry \in heap /\ borrow_count[ext_registry] = 0

DeadHoldNothing == \A h \in Holder \ alive : ukrg[h] = NULL

\* The inductive invariant.
UkInv ==
    /\ UkTypeOK
    /\ PutWindow
    /\ DeadHoldNothing
    /\ HeldAllocated
    /\ CountExact

LEMMA UkInvInit == alive = {} /\ UkInit => UkInv
<1> SUFFICES ASSUME alive = {}, UkInit PROVE UkInv
  OBVIOUS
<1> USE HolderAssumption, RegistryAssumption DEF UkInit
<1>1. UkTypeOK
  BY DEF UkTypeOK, NoEntries
<1>2. PutWindow /\ DeadHoldNothing /\ HeldAllocated /\ CountExact
  BY DEF PutWindow, DeadHoldNothing, HeldAllocated, CountExact
<1> QED
  BY <1>1, <1>2 DEF UkInv
-----------------------------------------------------------------------------
(* The holders of a registry can be counted. *)

LEMMA HoldersFinite ==
  ASSUME UkTypeOK, NEW r
  PROVE  IsFiniteSet(Holders(r)) /\ Cardinality(Holders(r)) \in Nat
<1>1. Holders(r) \in SUBSET Holder
  BY DEF Holders, UkTypeOK
<1>2. IsFiniteSet(Holders(r))
  BY <1>1, HolderAssumption, FS_Subset
<1> QED
  BY <1>2, FS_CardinalityType

\* A registry whose count is zero has no holder but the one that is known.
LEMMA OnlyHolder ==
  ASSUME UkTypeOK, CountExact, NEW r \in heap, borrow_count[r] = 0,
         NEW h \in Holders(r)
  PROVE  Holders(r) = {h}
<1>1. Cardinality(Holders(r)) = 1
  BY DEF CountExact
<1>2. PICK x : Holders(r) = {x}
  BY <1>1, HoldersFinite, FS_Singleton
<1> QED
  BY <1>2

\* A registry that a second object holds has a count.
LEMMA OwnerHolds ==
  ASSUME UkInv, pc = "entry"
  PROVE  Holders(ext_registry) = {owner}
<1>1. owner \in Holders(ext_registry)
  BY DEF UkInv, PutWindow, Holders, Owned
<1> QED
  BY <1>1, OnlyHolder DEF UkInv, PutWindow

\* Nothing moves between objects: the registries keep their holders.
LEMMA SameHolders ==
  ASSUME UkInv, UkTypeOK', PutWindow', DeadHoldNothing',
         alive' = alive, heap' = heap, borrow_count' = borrow_count,
         \A h \in alive : Owned(h)' = Owned(h)
  PROVE  UkInv'
<1>1. \A r : Holders(r)' = Holders(r)
  BY DEF Holders
<1>2. HeldAllocated'
  BY DEF UkInv, HeldAllocated
<1>3. CountExact'
  BY <1>1 DEF UkInv, CountExact
<1> QED
  BY <1>2, <1>3 DEF UkInv
-----------------------------------------------------------------------------
LEMMA NewStep ==
  ASSUME UkInv, NEW n \in Holder, UkNew(n)
  PROVE  UkInv'
<1> USE DEF UkNew, tables, call
<1>1. UkTypeOK' /\ PutWindow' /\ DeadHoldNothing'
  BY DEF UkInv, UkTypeOK, PutWindow, DeadHoldNothing
<1>2. \A h \in alive' : Owned(h)' = Owned(h)
  BY DEF Owned
<1>3. Owned(n) = NULL
  BY DEF UkInv, DeadHoldNothing, PutWindow, Owned
<1>4. HeldAllocated'
  BY <1>2, <1>3 DEF UkInv, HeldAllocated
<1>5. \A r \in heap : Holders(r)' = Holders(r)
  BY <1>2, <1>3, RegistryAssumption DEF Holders, UkInv, UkTypeOK
<1>6. CountExact'
  BY <1>5 DEF UkInv, CountExact
<1> QED
  BY <1>1, <1>4, <1>6 DEF UkInv

LEMMA DeriveStep ==
  ASSUME UkInv, NEW h \in Holder, NEW n \in Holder, UkDerive(h, n)
  PROVE  UkInv'
<1> USE DEF UkDerive, UkBorrow, call
<1>1. UkTypeOK' /\ PutWindow' /\ DeadHoldNothing'
  <2>1. ukrg[h] # NULL => ukrg[h] \in Registry /\ borrow_count[ukrg[h]] \in Nat
    BY DEF UkInv, UkTypeOK
  <2> QED
    BY <2>1 DEF UkInv, UkTypeOK, PutWindow, DeadHoldNothing
<1>2. Owned(h) = ukrg[h] /\ Owned(n)' = ukrg[h]
  BY DEF UkInv, UkTypeOK, PutWindow, Owned
<1>3. \A o \in alive : Owned(o)' = Owned(o)
  BY DEF UkInv, UkTypeOK, PutWindow, Owned
<1>4. HeldAllocated'
  BY <1>2, <1>3 DEF UkInv, HeldAllocated
<1>5. ASSUME NEW r \in heap
      PROVE  Cardinality(Holders(r))' = borrow_count'[r] + 1
  <2>1. CASE r = ukrg[h]
    <3>1. Holders(r)' = Holders(r) \cup {n} /\ n \notin Holders(r)
      BY <1>2, <1>3, <2>1 DEF Holders
    <3>2. Cardinality(Holders(r))' = Cardinality(Holders(r)) + 1
      BY <3>1, HoldersFinite, FS_AddElement DEF UkInv
    <3>3. borrow_count'[r] = borrow_count[r] + 1
      BY <2>1, RegistryAssumption DEF UkInv, UkTypeOK
    <3> QED
      BY <3>2, <3>3, HoldersFinite DEF UkInv, CountExact
  <2>2. CASE r # ukrg[h]
    <3>1. Holders(r)' = Holders(r)
      BY <1>2, <1>3, <2>2 DEF Holders
    <3>2. borrow_count'[r] = borrow_count[r]
      BY <2>2 DEF UkInv, UkTypeOK
    <3> QED
      BY <3>1, <3>2 DEF UkInv, CountExact
  <2> QED
    BY <2>1, <2>2
<1>6. CountExact'
  BY <1>5 DEF CountExact
<1> QED
  BY <1>1, <1>4, <1>6 DEF UkInv

LEMMA DieStep ==
  ASSUME UkInv, NEW h \in Holder, UkDie(h)
  PROVE  UkInv'
<1> USE DEF UkDie, UkRelease, call
<1> DEFINE r == ukrg[h]
<1>1. h \in alive /\ h # owner /\ alive' = alive \ {h} /\ Owned(h) = r
  BY DEF Owned
<1>2. r # NULL => r \in heap /\ borrow_count[r] \in Nat
  BY <1>1 DEF UkInv, UkTypeOK, HeldAllocated
<1>3. \A o \in alive' : Owned(o)' = Owned(o)
  BY <1>1 DEF UkInv, UkTypeOK, Owned
<1>4. UkTypeOK' /\ DeadHoldNothing'
  BY <1>1, <1>2 DEF UkInv, UkTypeOK, DeadHoldNothing, Erased, NoEntries
<1>5. r # NULL /\ borrow_count[r] = 0 => Holders(r) = {h}
  <2> SUFFICES ASSUME r # NULL, borrow_count[r] = 0 PROVE Holders(r) = {h}
    OBVIOUS
  <2>1. h \in Holders(r) /\ r \in heap
    BY <1>1, <1>2 DEF Holders
  <2> QED
    BY <2>1, OnlyHolder DEF UkInv
<1>6. \A o \in alive' : Owned(o) = r /\ r # NULL => borrow_count[r] > 0
  BY <1>1, <1>2, <1>5 DEF Holders
<1>7. \A o \in alive' : Owned(o)' \in heap' \cup {NULL}
  BY <1>1, <1>3, <1>6 DEF UkInv, HeldAllocated
<1>8. PutWindow'
  <2>1. pc = "entry" => Owned(owner) = ext_registry /\ owner \in alive'
    BY <1>1 DEF UkInv, PutWindow, Owned
  <2>2. pc = "entry" => ext_registry # r
    BY <1>1, <1>2, <1>6, <2>1, RegistryAssumption DEF UkInv, UkTypeOK, PutWindow
  <2>3. pc = "entry" => ext_registry \in heap' /\ borrow_count'[ext_registry] = 0
    BY <2>2 DEF UkInv, UkTypeOK, PutWindow
  <2> QED
    BY <1>1, <2>3 DEF UkInv, PutWindow
<1>9. ASSUME NEW b \in heap'
      PROVE  Cardinality(Holders(b))' = borrow_count'[b] + 1
  <2>1. b \in heap
    OBVIOUS
  <2>2. CASE b = r
    <3>1. r # NULL /\ borrow_count[r] > 0
      BY <1>2, <2>1, <2>2, RegistryAssumption DEF UkInv, UkTypeOK
    <3>2. Holders(b)' = Holders(b) \ {h} /\ h \in Holders(b)
      BY <1>1, <1>3, <2>2 DEF Holders
    <3>3. Cardinality(Holders(b))' = Cardinality(Holders(b)) - 1
      BY <3>2, HoldersFinite, FS_RemoveElement, ZenonT(60) DEF UkInv
    <3>4. borrow_count'[b] = borrow_count[b] - 1
      BY <2>2, <3>1 DEF UkInv, UkTypeOK
    <3> QED
      BY <1>2, <2>1, <2>2, <3>1, <3>3, <3>4 DEF UkInv, CountExact
  <2>3. CASE b # r
    <3>1. Holders(b)' = Holders(b)
      BY <1>1, <1>3, <2>3 DEF Holders
    <3>2. borrow_count'[b] = borrow_count[b]
      BY <2>3 DEF UkInv, UkTypeOK
    <3> QED
      BY <2>1, <3>1, <3>2 DEF UkInv, CountExact
  <2> QED
    BY <2>2, <2>3
<1> QED
  BY <1>4, <1>7, <1>8, <1>9 DEF UkInv, HeldAllocated, CountExact

LEMMA PutStep ==
  ASSUME UkInv, NEW h \in Holder, NEW t \in ExtType, NEW e \in UkEntry,
         UkPut(h, t, e)
  PROVE  UkInv'
<1> USE DEF UkPut, BeginPut, tables
<1>1. ukrg[h] # NULL => ukrg[h] \in heap /\ ukrg[h] \in Registry
                        /\ borrow_count[ukrg[h]] \in Nat
  BY DEF UkInv, UkTypeOK, HeldAllocated, PutWindow, Owned
<1>2. UkTypeOK'
  BY <1>1 DEF UkInv, UkTypeOK
<1>3. PutWindow' /\ DeadHoldNothing'
  BY <1>1, HolderAssumption DEF UkInv, UkTypeOK, PutWindow, DeadHoldNothing
<1>4. \A o \in alive : Owned(o)' = Owned(o)
  BY DEF Owned, UkInv, PutWindow
<1> QED
  BY <1>2, <1>3, <1>4, SameHolders

LEMMA StoreStep ==
  ASSUME UkInv, StoreEntry, UNCHANGED alive
  PROVE  UkInv'
<1> USE DEF StoreEntry
<1>1. owner \in alive /\ put[1] \in ExtType /\ put[2] \in UkEntry
      /\ ext_registry \in Registry
  BY DEF UkInv, PutWindow, UkTypeOK
<1>2. UkTypeOK'
  <2>1. array' \in [Registry -> [ExtType -> UkEntry \cup {NULL}]]
    BY <1>1 DEF UkInv, UkTypeOK
  <2>2. ukrg' \in [Holder -> Registry \cup {NULL}]
    BY <1>1 DEF UkInv, UkTypeOK
  <2> QED
    BY <2>1, <2>2 DEF UkInv, UkTypeOK
<1>3. PutWindow' /\ DeadHoldNothing'
  BY <1>1 DEF UkInv, UkTypeOK, PutWindow, DeadHoldNothing
<1>4. \A o \in alive : Owned(o)' = Owned(o)
  BY <1>1 DEF Owned, UkInv, UkTypeOK
<1> QED
  BY <1>2, <1>3, <1>4, SameHolders

\* What cow does to the holders: the owner moves from src to r.
LEMMA CowHolders ==
  ASSUME UkInv, NEW r \in Registry, Cow(r), UNCHANGED alive
  PROVE  /\ owner \in alive /\ owner \in Holder
         /\ ukrg[owner] # NULL => ukrg[owner] \in heap /\ ukrg[owner] # r
         /\ Owned(owner) = ukrg[owner] /\ Owned(owner)' = r
         /\ \A o \in alive \ {owner} : /\ Owned(o)' = Owned(o)
                                       /\ Owned(o) # r
<1> USE DEF Cow
<1>1. owner \in alive /\ owner \in Holder
  BY DEF UkInv, PutWindow, UkTypeOK
<1>2. \A o \in alive : Owned(o) = ukrg[o] /\ Owned(o) # r
  BY RegistryAssumption DEF Owned, UkInv, HeldAllocated
<1>3. Owned(owner)' = r
  BY DEF Owned
<1>4. \A o \in alive \ {owner} : Owned(o)' = Owned(o)
  BY DEF Owned
<1> QED
  BY <1>1, <1>2, <1>3, <1>4 DEF UkInv, HeldAllocated

LEMMA CowStep ==
  ASSUME UkInv, NEW r \in Registry, Cow(r), UNCHANGED alive
  PROVE  UkInv'
<1> USE DEF Cow
<1> DEFINE src == ukrg[owner]
<1>h. /\ owner \in alive /\ owner \in Holder
      /\ src # NULL => src \in heap /\ src # r
      /\ Owned(owner) = src /\ Owned(owner)' = r
      /\ \A o \in alive \ {owner} : Owned(o)' = Owned(o) /\ Owned(o) # r
  BY CowHolders
<1>1. UkTypeOK'
  <2>1. array' \in [Registry -> [ExtType -> UkEntry \cup {NULL}]]
    BY <1>h DEF UkInv, UkTypeOK, Erased, NoEntries
  <2>2. borrow_count' \in [Registry -> Nat]
    BY DEF UkInv, UkTypeOK
  <2>3. heap' \subseteq Registry
    BY DEF UkInv, UkTypeOK
  <2> QED
    BY <2>1, <2>2, <2>3 DEF UkInv, UkTypeOK
<1>2. PutWindow' /\ DeadHoldNothing'
  BY DEF UkInv, PutWindow, DeadHoldNothing
<1>3. src # NULL /\ borrow_count[src] = 0 => Holders(src) = {owner}
  <2> SUFFICES ASSUME src # NULL, borrow_count[src] = 0
               PROVE  Holders(src) = {owner}
    OBVIOUS
  <2>1. owner \in Holders(src) /\ src \in heap
    BY <1>h DEF Holders
  <2> QED
    BY <2>1, OnlyHolder DEF UkInv
<1>4. HeldAllocated'
  <2>1. ASSUME NEW o \in alive \ {owner}
        PROVE  Owned(o) \in heap' \cup {NULL}
    <3>1. src # NULL /\ borrow_count[src] = 0 => Owned(o) # src
      BY <1>3 DEF Holders
    <3> QED
      BY <3>1 DEF UkInv, HeldAllocated
  <2> QED
    BY <1>h, <2>1 DEF HeldAllocated
<1>5. ASSUME NEW b \in heap'
      PROVE  Cardinality(Holders(b))' = borrow_count'[b] + 1
  <2>1. CASE b = r
    <3>1. Holders(b)' = {owner}
      BY <1>h, <2>1 DEF Holders
    <3> QED
      BY <2>1, <3>1, FS_Singleton
  <2>2. CASE b # r /\ b = src
    <3>0. src \in Registry /\ borrow_count[src] \in Nat /\ src \in heap
          /\ src # NULL
      BY <1>h, <2>2, RegistryAssumption DEF UkInv, UkTypeOK
    <3>1. borrow_count[src] > 0
      BY <2>2, <3>0
    <3>2. Holders(b)' = Holders(b) \ {owner} /\ owner \in Holders(b)
      BY <1>h, <2>2 DEF Holders
    <3>3. Cardinality(Holders(b))' = Cardinality(Holders(b)) - 1
      BY <3>2, HoldersFinite, FS_RemoveElement DEF UkInv
    <3>4. borrow_count'[b] = borrow_count[b] - 1
      BY <2>2, <3>0, <3>1
    <3> QED
      BY <2>2, <3>0, <3>3, <3>4 DEF UkInv, CountExact
  <2>3. CASE b # r /\ b # src
    <3>1. Holders(b)' = Holders(b)
      BY <1>h, <2>3 DEF Holders
    <3>2. b \in heap /\ b \in Registry /\ borrow_count'[b] = borrow_count[b]
      BY <2>3 DEF UkInv, UkTypeOK
    <3> QED
      BY <3>1, <3>2 DEF UkInv, CountExact
  <2> QED
    BY <2>1, <2>2, <2>3
<1> QED
  BY <1>1, <1>2, <1>4, <1>5 DEF UkInv, CountExact

LEMMA UkInvStep == UkInv /\ [UkNext]_ukvars => UkInv'
<1> SUFFICES ASSUME UkInv, [UkNext]_ukvars PROVE UkInv'
  OBVIOUS
<1>1. CASE \E n \in Holder : UkNew(n)
  BY <1>1, NewStep
<1>2. CASE \E h, n \in Holder : UkDerive(h, n)
  BY <1>2, DeriveStep
<1>3. CASE \E h \in Holder : UkDie(h)
  BY <1>3, DieStep
<1>4. CASE \E h \in Holder, t \in ExtType, e \in UkEntry : UkPut(h, t, e)
  BY <1>4, PutStep
<1>5. CASE \E r \in Registry : Cow(r) /\ UNCHANGED alive
  BY <1>5, CowStep
<1>6. CASE StoreEntry /\ UNCHANGED alive
  BY <1>6, StoreStep
<1>7. CASE UNCHANGED ukvars
  <2>1. UkTypeOK' /\ PutWindow' /\ DeadHoldNothing'
    BY <1>7 DEF ukvars, UkInv, UkTypeOK, PutWindow, DeadHoldNothing
  <2> QED
    BY <1>7, <2>1, SameHolders DEF ukvars, Owned
<1> QED
  BY <1>1, <1>2, <1>3, <1>4, <1>5, <1>6, <1>7 DEF UkNext

\* Whatever objects are made, collected and registered on, in any order, the
\* variables of the registries keep their types.
THEOREM UkTypeCorrect == UkSpec => []UkTypeOK
<1>1. UkInv => UkTypeOK
  BY DEF UkInv
<1> QED
  BY <1>1, UkInvInit, UkInvStep, PTL DEF UkSpec

\* msgpack_unpacker_ext_registry_release never frees a registry that an
\* object still uses.
THEOREM NothingHeldIsFreed == UkSpec => []HeldAllocated
<1>1. UkInv => HeldAllocated
  BY DEF UkInv
<1> QED
  BY <1>1, UkInvInit, UkInvStep, PTL DEF UkSpec

\* borrow_count is exact: no registry leaks and none is freed twice.
THEOREM CountsAreExact == UkSpec => []CountExact
<1>1. UkInv => CountExact
  BY DEF UkInv
<1> QED
  BY <1>1, UkInvInit, UkInvStep, PTL DEF UkSpec
-----------------------------------------------------------------------------
(* The tables that objects see. *)

\* What an object sees of the blocks: the array of the registry it has.
Seen(h) == IF h \in alive /\ Owned(h) # NULL THEN array[Owned(h)] ELSE NoEntries

LEMMA TableSeen ==
  /\ UkTable = [h \in Holder |-> Seen(h)]
  /\ UkTable' = [h \in Holder |-> Seen(h)']
BY DEF UkTable, Seen

\* As long as every object sees what it saw, nothing happens to the tables.
LEMMA SameTables ==
  ASSUME \A h \in Holder : Seen(h)' = Seen(h)
  PROVE  UkTable' = UkTable
BY TableSeen

LEMMA TablesInit == alive = {} /\ UkInit => UkTables!Init
BY DEF UkTables!Init, UkTables!Empty, UkTable, NoEntries

LEMMA DeriveTables ==
  ASSUME UkInv, NEW h \in Holder, NEW n \in Holder, UkDerive(h, n)
  PROVE  UkTables!Derive(h, n)
<1> USE DEF UkDerive, UkBorrow, call
<1>1. Seen(n) = UkTables!Empty
  BY DEF Seen, UkTables!Empty, NoEntries
<1>2. Seen(n)' = Seen(h)
  BY DEF Seen, Owned, UkInv, PutWindow, UkTypeOK
<1>3. \A o \in Holder \ {n} : Seen(o)' = Seen(o)
  BY DEF Seen, Owned, UkInv, UkTypeOK
<1> QED
  BY <1>1, <1>2, <1>3, TableSeen DEF UkTables!Derive

LEMMA DieTables ==
  ASSUME UkInv, UkInv', NEW h \in Holder, UkDie(h)
  PROVE  UkTables!Discard(h)
<1> USE DEF UkDie, UkRelease, call
<1>1. Seen(h)' = UkTables!Empty
  BY DEF Seen, UkTables!Empty, NoEntries
<1>2. ASSUME NEW o \in Holder \ {h}
      PROVE  Seen(o)' = Seen(o)
  <2>1. CASE o \in alive
    <3>1. Owned(o)' = Owned(o)
      BY <2>1 DEF Owned, UkInv, UkTypeOK
    <3>2. Owned(o) # NULL => Owned(o) \in heap' /\ Owned(o) \in Registry
      BY <2>1, <3>1 DEF UkInv, HeldAllocated, UkTypeOK
    <3>3. Owned(o) # NULL => array'[Owned(o)] = array[Owned(o)]
      BY <3>2 DEF Erased
    <3> QED
      BY <2>1, <3>1, <3>3 DEF Seen
  <2>2. CASE o \notin alive
    BY <2>2 DEF Seen
  <2> QED
    BY <2>1, <2>2
<1> QED
  BY <1>1, <1>2, TableSeen DEF UkTables!Discard

LEMMA CowTables ==
  ASSUME UkInv, UkInv', NEW r \in Registry, Cow(r), UNCHANGED alive
  PROVE  UkTable' = UkTable
<1> USE DEF Cow
<1>1. ASSUME NEW o \in alive, o # owner
      PROVE  Seen(o)' = Seen(o)
  <2>1. Owned(o)' = Owned(o) /\ Owned(o) # r
    BY <1>1, CowHolders
  <2>2. Owned(o) # NULL => Owned(o) \in heap' /\ Owned(o) \in Registry
    BY <2>1 DEF UkInv, HeldAllocated, UkTypeOK
  <2>3. Owned(o) # NULL => array'[Owned(o)] = array[Owned(o)]
    BY <2>1, <2>2 DEF Erased, UkInv, UkTypeOK
  <2> QED
    BY <2>1, <2>3 DEF Seen
<1>2. Seen(owner)' = Seen(owner)
  <2>1. owner \in alive /\ Owned(owner) = ukrg[owner] /\ Owned(owner)' = r
    BY CowHolders
  <2>2. array'[r] = IF ukrg[owner] = NULL THEN NoEntries ELSE array[ukrg[owner]]
    BY DEF Erased, UkInv, UkTypeOK
  <2> QED
    BY <2>1, <2>2, RegistryAssumption DEF Seen
<1> QED
  BY <1>1, <1>2, SameTables DEF Seen

LEMMA StoreTables ==
  ASSUME UkInv, StoreEntry, UNCHANGED alive
  PROVE  \E h \in Holder : UkTables!Register(h)
<1> USE DEF StoreEntry
<1>1. PICK h \in alive : h = owner
  BY DEF UkInv, PutWindow
<1>2. PICK r \in Registry : r = ext_registry
  BY DEF UkInv, PutWindow, UkTypeOK
<1>3. PICK t \in ExtType, e \in UkEntry : t = put[1] /\ e = put[2]
  BY DEF UkInv, PutWindow, UkTypeOK
<1>4. h \in Holder
  BY DEF UkInv, UkTypeOK
<1>5. Owned(h) = r /\ Owned(h)' = r
  BY <1>1, <1>2, <1>4 DEF Owned, UkInv, UkTypeOK
<1>6. array'[r] = [array[r] EXCEPT ![t] = e]
  BY <1>2, <1>3 DEF UkInv, UkTypeOK
<1>7. Seen(h) = array[r] /\ Seen(h)' = [array[r] EXCEPT ![t] = e]
  BY <1>1, <1>5, <1>6, RegistryAssumption DEF Seen
<1>8. ASSUME NEW o \in Holder, o # h
      PROVE  Seen(o)' = Seen(o)
  <2>1. Owned(o)' = Owned(o)
    BY <1>1, <1>8 DEF Owned, UkInv, UkTypeOK
  <2>2. o \in alive => Owned(o) # ext_registry
    BY <1>1, <1>8, OwnerHolds DEF Holders
  <2>3. o \in alive /\ Owned(o) # NULL => Owned(o) \in Registry
    BY DEF UkInv, HeldAllocated, UkTypeOK
  <2>4. o \in alive /\ Owned(o) # NULL => array'[Owned(o)] = array[Owned(o)]
    BY <2>2, <2>3 DEF UkInv, UkTypeOK
  <2> QED
    BY <2>1, <2>4 DEF Seen
<1>9. UkTable' = [UkTable EXCEPT ![h][t] = e]
  BY <1>4, <1>7, <1>8, TableSeen
<1> QED
  BY <1>4, <1>9 DEF UkTables!Register

LEMMA TablesStep ==
  UkInv /\ UkInv' /\ [UkNext]_ukvars => [UkTables!Next]_UkTable
<1> SUFFICES ASSUME UkInv, UkInv', [UkNext]_ukvars
             PROVE  [UkTables!Next]_UkTable
  OBVIOUS
<1>1. CASE \E n \in Holder : UkNew(n)
  <2>1. PICK n \in Holder : UkNew(n)
    BY <1>1
  <2>2. \A o \in Holder : Seen(o)' = Seen(o)
    BY <2>1 DEF UkNew, Seen, Owned, UkInv, DeadHoldNothing, PutWindow, tables, call
  <2> QED
    BY <2>2, SameTables
<1>2. CASE \E h, n \in Holder : UkDerive(h, n)
  BY <1>2, DeriveTables DEF UkTables!Next
<1>3. CASE \E h \in Holder : UkDie(h)
  BY <1>3, DieTables DEF UkTables!Next
<1>4. CASE \E h \in Holder, t \in ExtType, e \in UkEntry : UkPut(h, t, e)
  <2>1. PICK h \in Holder, t \in ExtType, e \in UkEntry : UkPut(h, t, e)
    BY <1>4
  <2>2. \A o \in Holder : Seen(o)' = Seen(o)
    BY <2>1 DEF UkPut, BeginPut, Seen, Owned, UkInv, PutWindow, tables
  <2> QED
    BY <2>2, SameTables
<1>5. CASE \E r \in Registry : Cow(r) /\ UNCHANGED alive
  BY <1>5, CowTables
<1>6. CASE StoreEntry /\ UNCHANGED alive
  BY <1>6, StoreTables DEF UkTables!Next
<1>7. CASE UNCHANGED ukvars
  <2>1. \A o \in Holder : Seen(o)' = Seen(o)
    BY <1>7 DEF ukvars, Seen, Owned
  <2> QED
    BY <2>1, SameTables
<1> QED
  BY <1>1, <1>2, <1>3, <1>4, <1>5, <1>6, <1>7 DEF UkNext

\* The registries implement tables that are not shared: copying on write and
\* counting borrowers cannot be told from every factory and unpacker having a
\* table of its own, wherever the collector runs.
THEOREM RegistriesImplementTables == UkSpec => UkTablesSpec
<1>1. UkInv /\ UkInv' /\ [UkNext]_ukvars => [UkTables!Next]_UkTable
  BY TablesStep
<1> QED
  BY <1>1, UkInvInit, UkInvStep, TablesInit, PTL
  DEF UkSpec, UkTablesSpec, UkTables!Spec
=============================================================================
