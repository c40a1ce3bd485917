---------------------------- MODULE FactoryProofs ----------------------------
(***************************************************************************)
(* Proofs about Factory, for any finite set of factories, packers and      *)
(* unpackers and any sets of classes, types and entries: the registries of *)
(* unpackers behave as UnpackerExtRegistry says, those of packers keep     *)
(* PkInv, and both implement tables that are not shared.                   *)
(*                                                                         *)
(* First come lemmas about PackerExtRegistry, operation by operation: what *)
(* each keeps, and what it does to the tables that objects see.            *)
(***************************************************************************)
EXTENDS Factory, UnpackerExtRegistryProofs, WellFoundedInduction, TLAPS
-----------------------------------------------------------------------------
(* The registries of packers. *)

Hashes == Seq(Class \X PkEntry)

\* A Hash has one pair for a key.
Keyed(hs) == \A i, j \in DOMAIN hs : hs[i][1] = hs[j][1] => i = j

DeadHaveNone == \A h \in Holder \ alive : pkrg[h] = NULL

\* What is not frozen has one holder: copying is what keeps tables apart.
SharedIsFrozen ==
    \A h, n \in alive : pkrg[h] = pkrg[n] /\ pkrg[h] # NULL /\ h # n => pkrg[h] \in frozen

\* The inductive invariant.
PkInv ==
    /\ PkTypeOK
    /\ DeadHaveNone
    /\ SharedIsFrozen
    /\ \A i \in HashId : Keyed(hash[i])
    /\ CacheCoherent
    /\ LookupByRegistration
-----------------------------------------------------------------------------
(* Hashes. *)

\* A set of places that is not empty has a first one.
LEMMA FirstPlace ==
  ASSUME NEW S \in SUBSET Nat, S # {}
  PROVE  Min(S) \in S /\ \A y \in S : Min(S) <= y
<1>1. PICK x \in S : \A y \in S : <<y, x>> \notin OpToRel(<, Nat)
  BY NatLessThanWellFounded, WFMin
<1>2. \A y \in S : ~(y < x)
  BY <1>1, Zenon DEF OpToRel
<1>3. \A y \in S : x <= y
  BY <1>2
<1> QED
  BY <1>3 DEF Min

LEMMA Places ==
  ASSUME NEW hs \in Hashes
  PROVE  /\ DOMAIN hs = 1 .. Len(hs) /\ Len(hs) \in Nat /\ DOMAIN hs \in SUBSET Nat
         /\ \A i \in DOMAIN hs : hs[i] \in Class \X PkEntry
BY DEF Hashes

\* What a search gives is an entry of the Hash, if there is any.
LEMMA FirstType ==
  ASSUME NEW hs \in Hashes, NEW at \in SUBSET DOMAIN hs
  PROVE  First(hs, at) \in PkEntry \cup {NULL} /\ (at # {} => First(hs, at) \in PkEntry)
<1>1. at \in SUBSET Nat
  BY Places
<1>2. at # {} => Min(at) \in at
  BY <1>1, FirstPlace
<1> QED
  BY <1>2, Places DEF First

LEMMA GetPair ==
  ASSUME NEW hs \in Hashes, Keyed(hs), NEW i \in DOMAIN hs
  PROVE  Own(hs, hs[i][1]) = {i} /\ Get(hs, hs[i][1]) = hs[i][2]
<1>1. Own(hs, hs[i][1]) = {i}
  BY DEF Own, Keyed
<1>2. Min({i}) = i
  <2>1. {i} \in SUBSET Nat
    BY Places
  <2> QED
    BY <2>1, FirstPlace
<1> QED
  BY <1>1, <1>2 DEF Get, First

LEMMA AsetType ==
  ASSUME NEW hs \in Hashes, NEW c \in Class, NEW e \in PkEntry
  PROVE  Aset(hs, c, e) \in Hashes
<1>1. CASE Own(hs, c) = {}
  BY <1>1 DEF Aset, Hashes
<1>2. CASE Own(hs, c) # {}
  <2>1. DOMAIN hs = 1 .. Len(hs) /\ Len(hs) \in Nat
    BY DEF Hashes
  <2>2. Aset(hs, c, e) \in [1 .. Len(hs) -> Class \X PkEntry]
    BY <1>2, <2>1, Places DEF Aset
  <2> QED
    BY <2>1, <2>2 DEF Hashes
<1> QED
  BY <1>1, <1>2

LEMMA AsetKeyed ==
  ASSUME NEW hs \in Hashes, Keyed(hs), NEW c \in Class, NEW e \in PkEntry
  PROVE  Keyed(Aset(hs, c, e))
<1>1. CASE Own(hs, c) = {}
  <2>1. \A i \in DOMAIN hs : hs[i][1] # c
    BY <1>1 DEF Own
  <2> QED
    BY <1>1, <2>1 DEF Aset, Hashes, Keyed
<1>2. CASE Own(hs, c) # {}
  BY <1>2 DEF Aset, Keyed
<1> QED
  BY <1>1, <1>2

\* rb_hash_aset changes what rb_hash_lookup gives for its key, and nothing else.
LEMMA AsetGet ==
  ASSUME NEW hs \in Hashes, Keyed(hs), NEW c \in Class, NEW e \in PkEntry,
         NEW d \in Class
  PROVE  Get(Aset(hs, c, e), d) = IF d = c THEN e ELSE Get(hs, d)
<1> DEFINE new == Aset(hs, c, e)
<1>1. new \in Hashes /\ Keyed(new)
  BY AsetType, AsetKeyed
<1>4. Own(hs, d) \in SUBSET Nat
  BY Places DEF Own
<1>2. CASE Own(hs, c) = {}
  <2>1. new = Append(hs, <<c, e>>)
    BY <1>2 DEF Aset
  <2>2. CASE d = c
    <3>1. Len(new) \in DOMAIN new /\ new[Len(new)] = <<c, e>>
      BY <2>1 DEF Hashes
    <3> QED
      BY <1>1, <2>2, <3>1, GetPair
  <2>3. CASE d # c
    <3>1. Own(new, d) = Own(hs, d) /\ \A i \in Own(hs, d) : new[i] = hs[i]
      BY <2>1, <2>3 DEF Own, Hashes
    <3>2. Own(hs, d) # {} => Min(Own(hs, d)) \in Own(hs, d)
      BY <1>4, FirstPlace
    <3> QED
      BY <2>3, <3>1, <3>2 DEF Get, First
  <2> QED
    BY <2>2, <2>3
<1>3. CASE Own(hs, c) # {}
  <2>1. new = [i \in DOMAIN hs |-> IF hs[i][1] = c THEN <<c, e>> ELSE hs[i]]
    BY <1>3 DEF Aset
  <2>2. CASE d = c
    <3>1. PICK i \in DOMAIN hs : hs[i][1] = c
      BY <1>3 DEF Own
    <3>2. i \in DOMAIN new /\ new[i] = <<c, e>>
      BY <2>1, <3>1
    <3> QED
      BY <1>1, <2>2, <3>2, GetPair
  <2>3. CASE d # c
    <3>1. Own(new, d) = Own(hs, d) /\ \A i \in Own(hs, d) : new[i] = hs[i]
      BY <2>1, <2>3 DEF Own
    <3>2. Own(hs, d) # {} => Min(Own(hs, d)) \in Own(hs, d)
      BY <1>4, FirstPlace
    <3> QED
      BY <2>3, <3>1, <3>2 DEF Get, First
  <2> QED
    BY <2>2, <2>3
<1> QED
  BY <1>2, <1>3

\* The Hash that a first registration makes.
LEMMA OnePair ==
  ASSUME NEW c \in Class, NEW e \in PkEntry
  PROVE  /\ <<<<c, e>>>> \in Hashes /\ Keyed(<<<<c, e>>>>)
         /\ \A d \in Class : Get(<<<<c, e>>>>, d) = IF d = c THEN e ELSE NULL
<1> DEFINE hs == <<<<c, e>>>>
<1>1. hs \in Hashes /\ Keyed(hs)
  BY DEF Hashes, Keyed
<1>2. Get(hs, c) = e
  BY <1>1, GetPair
<1>3. \A d \in Class \ {c} : Own(hs, d) = {}
  BY DEF Own
<1> QED
  BY <1>1, <1>2, <1>3 DEF Get, First
-----------------------------------------------------------------------------
(* The inductive invariant, operation by operation. *)

LEMMA PkInvInit == alive = {} /\ PkInit => PkInv
<1> SUFFICES ASSUME alive = {}, PkInit PROVE PkInv
  OBVIOUS
<1> USE DEF PkInit
<1>1. PkTypeOK
  BY DEF PkTypeOK, NoCache
<1>2. DeadHaveNone /\ SharedIsFrozen /\ \A i \in HashId : Keyed(hash[i])
  BY DEF DeadHaveNone, SharedIsFrozen, Keyed
<1>3. CacheCoherent /\ LookupByRegistration
  BY DEF CacheCoherent, LookupByRegistration, Used
<1> QED
  BY <1>1, <1>2, <1>3 DEF PkInv

\* Nothing is done to a registry: an object may appear.
LEMMA SameHashes ==
  ASSUME PkInv, alive \subseteq Holder, alive' \subseteq Holder, alive \subseteq alive',
         found' = NULL \/ found' = found, UNCHANGED <<pkrg, hash, cache, frozen>>
  PROVE  PkInv'
<1>1. PkTypeOK' /\ DeadHaveNone' /\ \A i \in HashId : Keyed(hash'[i])
  BY DEF PkInv, PkTypeOK, DeadHaveNone
<1>2. \A h \in alive' \ alive : pkrg[h] = NULL
  BY DEF PkInv, DeadHaveNone
<1>3. SharedIsFrozen'
  BY <1>2 DEF PkInv, SharedIsFrozen
<1>4. CacheCoherent'
  BY <1>2 DEF PkInv, CacheCoherent, Used
<1>5. LookupByRegistration'
  BY DEF PkInv, LookupByRegistration
<1> QED
  BY <1>1, <1>3, <1>4, <1>5 DEF PkInv

\* msgpack_packer_ext_registry_put for an object without a registry.
LEMMA PutNewInv ==
  ASSUME PkInv, alive \subseteq Holder, UNCHANGED alive,
         NEW h \in alive, NEW c \in Class, NEW e \in PkEntry,
         pkrg[h] = NULL, PkPut(h, c, e)
  PROVE  PkInv'
<1>1. PICK i \in HashId :
        /\ Fresh(i)
        /\ pkrg' = [pkrg EXCEPT ![h] = i]
        /\ hash' = [hash EXCEPT ![i] = <<<<c, e>>>>]
        /\ cache' = [cache EXCEPT ![i] = NoCache]
        /\ frozen' = frozen \ {i} /\ found' = NULL
  BY DEF PkPut
<1>2. <<<<c, e>>>> \in Hashes /\ Keyed(<<<<c, e>>>>)
  BY OnePair
<1>3. PkTypeOK'
  BY <1>1, <1>2 DEF PkInv, PkTypeOK, Hashes, NoCache
<1>4. \A n \in alive : n # h => pkrg'[n] = pkrg[n] /\ pkrg[n] # i
  BY <1>1 DEF Fresh, Used, PkInv, PkTypeOK
<1>5. pkrg'[h] = i
  BY <1>1 DEF PkInv, PkTypeOK
<1>6. DeadHaveNone'
  BY <1>1 DEF PkInv, PkTypeOK, DeadHaveNone
<1>7. SharedIsFrozen'
  BY <1>1, <1>4, <1>5 DEF PkInv, SharedIsFrozen
<1>8. \A j \in HashId : Keyed(hash'[j])
  BY <1>1, <1>2 DEF PkInv, PkTypeOK
<1>9. CacheCoherent'
  <2> SUFFICES ASSUME NEW j \in Used' \ {NULL}, NEW d \in Class, cache'[j][d] # NULL
               PROVE  cache'[j][d] = Search(hash'[j], d)
    BY DEF CacheCoherent
  <2>1. j \in HashId
    BY <1>3 DEF Used, PkTypeOK
  <2>2. j # i
    BY <1>1, <2>1 DEF PkInv, PkTypeOK, NoCache
  <2>3. j \in Used
    BY <1>4, <1>5, <2>2 DEF Used
  <2> QED
    BY <1>1, <2>1, <2>2, <2>3 DEF PkInv, PkTypeOK, CacheCoherent
<1>10. LookupByRegistration'
  BY <1>1 DEF LookupByRegistration
<1> QED
  BY <1>3, <1>6, <1>7, <1>8, <1>9, <1>10 DEF PkInv

\* msgpack_packer_ext_registry_put for an object with a registry.
LEMMA PutInv ==
  ASSUME PkInv, alive \subseteq Holder, UNCHANGED alive,
         NEW h \in alive, NEW c \in Class, NEW e \in PkEntry,
         PkPut(h, c, e)
  PROVE  PkInv'
<1>1. CASE pkrg[h] = NULL
  BY <1>1, PutNewInv
<1>2. CASE pkrg[h] # NULL
  <2> DEFINE i == pkrg[h]
  <2>1. i \in HashId
    BY <1>2 DEF PkInv, PkTypeOK
  <2>2. /\ cache' = [cache EXCEPT ![i] = NoCache]
        /\ hash' = IF i \in frozen THEN hash ELSE [hash EXCEPT ![i] = Aset(@, c, e)]
        /\ pkrg' = pkrg /\ frozen' = frozen /\ found' = NULL
    BY <1>2 DEF PkPut
  <2>3. hash[i] \in Hashes /\ Keyed(hash[i])
    BY <2>1 DEF PkInv, PkTypeOK, Hashes
  <2>4. Aset(hash[i], c, e) \in Hashes /\ Keyed(Aset(hash[i], c, e))
    BY <2>3, AsetType, AsetKeyed
  <2>5. hash' \in [HashId -> Hashes] /\ \A j \in HashId : Keyed(hash'[j])
    BY <2>1, <2>2, <2>4 DEF PkInv, PkTypeOK, Hashes
  <2>6. PkTypeOK'
    BY <2>1, <2>2, <2>5 DEF PkInv, PkTypeOK, NoCache, Hashes
  <2>7. DeadHaveNone' /\ SharedIsFrozen'
    BY <2>2 DEF PkInv, DeadHaveNone, SharedIsFrozen
  <2>8. CacheCoherent'
    <3> SUFFICES ASSUME NEW j \in Used' \ {NULL}, NEW d \in Class, cache'[j][d] # NULL
                 PROVE  cache'[j][d] = Search(hash'[j], d)
      BY DEF CacheCoherent
    <3>1. j \in HashId /\ j \in Used
      BY <2>2, <2>6 DEF Used, PkTypeOK
    <3>2. j # i
      BY <2>2, <3>1 DEF PkInv, PkTypeOK, NoCache
    <3> QED
      BY <2>2, <3>1, <3>2 DEF PkInv, PkTypeOK, CacheCoherent
  <2>9. LookupByRegistration'
    BY <2>2 DEF LookupByRegistration
  <2> QED
    BY <2>5, <2>6, <2>7, <2>8, <2>9 DEF PkInv
<1> QED
  BY <1>1, <1>2

\* An object that appears with the registry of h.
LEMMA ShareInv ==
  ASSUME PkInv, alive \subseteq Holder, NEW h \in alive, NEW n \in Holder \ alive,
         alive' = alive \cup {n}, Share(h, n), found' = NULL,
         pkrg[h] = NULL \/ pkrg[h] \in frozen
  PROVE  PkInv'
<1> USE DEF Share
<1>1. PkTypeOK' /\ DeadHaveNone' /\ \A i \in HashId : Keyed(hash'[i])
  BY DEF PkInv, PkTypeOK, DeadHaveNone
<1>2. \A o \in alive : pkrg'[o] = pkrg[o]
  BY DEF PkInv, PkTypeOK
<1>3. pkrg'[n] = pkrg[h]
  BY DEF PkInv, PkTypeOK
<1>4. SharedIsFrozen'
  BY <1>2, <1>3 DEF PkInv, SharedIsFrozen
<1>5. Used' = Used
  BY <1>2, <1>3 DEF Used
<1>6. CacheCoherent'
  BY <1>5 DEF PkInv, CacheCoherent
<1>7. LookupByRegistration'
  BY DEF LookupByRegistration
<1> QED
  BY <1>1, <1>4, <1>6, <1>7 DEF PkInv

\* An object that appears with a copy of the registry of h.
LEMMA CopyInv ==
  ASSUME PkInv, alive \subseteq Holder, NEW h \in alive, NEW n \in Holder \ alive,
         alive' = alive \cup {n}, Copy(h, n), found' = NULL, pkrg[h] # NULL
  PROVE  PkInv'
<1>1. PICK i \in HashId :
        /\ Fresh(i)
        /\ pkrg' = [pkrg EXCEPT ![n] = i]
        /\ hash' = [hash EXCEPT ![i] = hash[pkrg[h]]]
        /\ cache' = [cache EXCEPT ![i] = cache[pkrg[h]]]
        /\ frozen' = frozen \ {i}
  BY DEF Copy
<1>2. pkrg[h] \in HashId /\ pkrg[h] \in Used \ {NULL}
  BY DEF PkInv, PkTypeOK, Used
<1>3. PkTypeOK' /\ DeadHaveNone' /\ \A j \in HashId : Keyed(hash'[j])
  BY <1>1, <1>2 DEF PkInv, PkTypeOK, DeadHaveNone
<1>4. \A o \in alive : pkrg'[o] = pkrg[o] /\ pkrg[o] # i
  BY <1>1 DEF Fresh, Used, PkInv, PkTypeOK
<1>5. pkrg'[n] = i
  BY <1>1 DEF PkInv, PkTypeOK
<1>6. SharedIsFrozen'
  BY <1>1, <1>4, <1>5 DEF PkInv, SharedIsFrozen
<1>7. CacheCoherent'
  <2> SUFFICES ASSUME NEW j \in Used' \ {NULL}, NEW d \in Class, cache'[j][d] # NULL
               PROVE  cache'[j][d] = Search(hash'[j], d)
    BY DEF CacheCoherent
  <2>1. j \in HashId
    BY <1>3 DEF Used, PkTypeOK
  <2>2. CASE j = i
    BY <1>1, <1>2, <2>2 DEF PkInv, PkTypeOK, CacheCoherent
  <2>3. CASE j # i
    <3>1. j \in Used
      BY <1>4, <1>5, <2>3 DEF Used
    <3> QED
      BY <1>1, <2>1, <2>3, <3>1 DEF PkInv, PkTypeOK, CacheCoherent
  <2> QED
    BY <2>2, <2>3
<1>8. LookupByRegistration'
  BY DEF LookupByRegistration
<1> QED
  BY <1>3, <1>6, <1>7, <1>8 DEF PkInv

LEMMA BorrowInv ==
  ASSUME PkInv, alive \subseteq Holder, NEW h \in alive, NEW n \in Holder \ alive,
         alive' = alive \cup {n}, PkBorrow(h, n) \/ PkDup(h, n)
  PROVE  PkInv'
BY ShareInv, CopyInv DEF PkBorrow, PkDup

\* Freezing never separates: who shares a Hash that is not frozen is alone.
LEMMA FreezeInv ==
  ASSUME PkInv, alive \subseteq Holder, UNCHANGED alive, NEW h \in alive, PkFreeze(h)
  PROVE  PkInv'
<1> USE DEF PkFreeze
<1>1. PkTypeOK' /\ DeadHaveNone' /\ \A i \in HashId : Keyed(hash'[i])
  BY DEF PkInv, PkTypeOK, DeadHaveNone
<1>2. SharedIsFrozen' /\ CacheCoherent' /\ LookupByRegistration'
  BY DEF PkInv, SharedIsFrozen, CacheCoherent, LookupByRegistration, Used
<1> QED
  BY <1>1, <1>2 DEF PkInv

\* What a plain lookup returns is what is registered: a cached entry is the
\* one that the search would give.
LEMMA LookupResult ==
  ASSUME PkInv, NEW i \in Used \ {NULL}, i \in HashId, NEW c \in Class
  PROVE  LET own   == Own(hash[i], c)
             at    == IF \E j \in own : Proc(hash[i][j][2]) THEN own ELSE Above(hash[i], c)
             entry == First(hash[i], at)
             above == Search(hash[i], c)
         IN  /\ Fetch(i, c) # NULL => Fetch(i, c) = IF Proc(entry) THEN entry ELSE NULL
             /\ Fetch(i, c) = NULL => above = entry
<1> DEFINE hs    == hash[i]
           own   == Own(hs, c)
           at    == IF \E j \in own : Proc(hs[j][2]) THEN own ELSE Above(hs, c)
           entry == First(hs, at)
           above == Search(hs, c)
<1>1. hs \in Hashes /\ Keyed(hs)
  BY DEF PkInv, PkTypeOK, Hashes
<1>2. CASE own = {}
  <2>1. Get(hs, c) = NULL /\ entry = above
    BY <1>2 DEF Get, First, Search
  <2>2. cache[i][c] # NULL => cache[i][c] = above
    BY DEF PkInv, CacheCoherent
  <2>3. Fetch(i, c) = IF Proc(cache[i][c]) THEN cache[i][c] ELSE NULL
    BY <2>1 DEF Fetch
  <2> QED
    BY <2>1, <2>2, <2>3, ClassAssumption DEF Proc
<1>3. CASE own # {}
  <2>1. PICK j \in DOMAIN hs : hs[j][1] = c
    BY <1>3 DEF Own
  <2>2. own = {j} /\ Get(hs, c) = hs[j][2]
    BY <1>1, <2>1, GetPair
  <2>3. hs[j][2] \in PkEntry
    BY <1>1, <2>1, Places
  <2>4. Fetch(i, c) = IF Proc(hs[j][2]) THEN hs[j][2] ELSE NULL
    BY <2>2, <2>3, ClassAssumption DEF Fetch
  <2>5. CASE Proc(hs[j][2])
    <3>1. entry = hs[j][2]
      BY <2>2, <2>5 DEF Get
    <3> QED
      BY <2>3, <2>4, <2>5, <3>1, ClassAssumption
  <2>6. CASE ~Proc(hs[j][2])
    BY <2>2, <2>4, <2>6 DEF Search
  <2> QED
    BY <2>5, <2>6
<1> HIDE DEF hs, own, at, entry, above
<1> QED
  BY <1>2, <1>3 DEF hs, own, at, entry, above

LEMMA LookupInv ==
  ASSUME PkInv, alive \subseteq Holder, UNCHANGED alive, NEW h \in alive,
         NEW c \in Class, NEW real \in Class, PkLookup(h, c, real)
  PROVE  PkInv'
<1> DEFINE i     == pkrg[h]
           above == Search(hash[i], c)
<1> USE DEF PkLookup
<1>1. i \in HashId /\ i \in Used \ {NULL}
  BY DEF PkInv, PkTypeOK, Used
<1>2. above \in PkEntry \cup {NULL}
  <2>1. hash[i] \in Hashes /\ Above(hash[i], c) \in SUBSET DOMAIN hash[i]
    BY <1>1 DEF PkInv, PkTypeOK, Hashes, Above
  <2> QED
    BY <2>1, FirstType DEF Search
<1>3. \A d \in Class : Fetch(i, d) \in PkEntry \cup {NULL}
  BY DEF Fetch, Proc
<1>4. cache' = cache \/ cache' = [cache EXCEPT ![i][c] = above]
  OBVIOUS
<1>5. \E e \in PkEntry \cup {NULL} :
        found' = [of |-> i, class |-> c, plain |-> c = real, entry |-> e]
  BY <1>2, <1>3
<1>6. PkTypeOK'
  <2>1. cache' \in [HashId -> [Class -> PkEntry \cup {NULL}]]
    <3>1. [cache[i] EXCEPT ![c] = above] \in [Class -> PkEntry \cup {NULL}]
      BY <1>1, <1>2 DEF PkInv, PkTypeOK
    <3> QED
      BY <1>1, <1>4, <3>1 DEF PkInv, PkTypeOK
  <2>2. (c = real) \in BOOLEAN
    OBVIOUS
  <2>3. found' \in [of : HashId, class : Class, plain : BOOLEAN, entry : PkEntry \cup {NULL}]
    BY <1>1, <1>5, <2>2
  <2> QED
    BY <2>1, <2>3 DEF PkInv, PkTypeOK
<1>7. DeadHaveNone' /\ SharedIsFrozen' /\ \A j \in HashId : Keyed(hash'[j])
  BY DEF PkInv, DeadHaveNone, SharedIsFrozen
<1>8. CacheCoherent'
  <2> SUFFICES ASSUME NEW j \in Used' \ {NULL}, NEW d \in Class, cache'[j][d] # NULL
               PROVE  cache'[j][d] = Search(hash'[j], d)
    BY DEF CacheCoherent
  <2>1. j \in HashId /\ j \in Used /\ hash' = hash
    BY <1>6 DEF Used, PkTypeOK
  <2>2. CASE cache'[j][d] = cache[j][d]
    BY <2>1, <2>2 DEF PkInv, CacheCoherent
  <2>3. CASE j = i /\ d = c /\ cache'[j][d] = above
    BY <2>1, <2>3
  <2> QED
    BY <1>1, <1>4, <2>1, <2>2, <2>3 DEF PkInv, PkTypeOK
<1>9. LookupByRegistration'
  <2>0. found'.plain => c = real
    <3>1. PICK e \in PkEntry \cup {NULL} :
            found' = [of |-> i, class |-> c, plain |-> c = real, entry |-> e]
      BY <1>5
    <3>2. [of |-> i, class |-> c, plain |-> c = real, entry |-> e].plain = (c = real)
      BY Zenon
    <3> QED
      BY <3>1, <3>2, Zenon
  <2> SUFFICES ASSUME c = real
               PROVE  LookupByRegistration'
    BY <2>0 DEF LookupByRegistration
  <2> DEFINE own   == Own(hash[i], c)
             at    == IF \E j \in own : Proc(hash[i][j][2]) THEN own ELSE Above(hash[i], c)
             entry == First(hash[i], at)
  <2>1. /\ Fetch(i, c) # NULL => Fetch(i, c) = IF Proc(entry) THEN entry ELSE NULL
        /\ Fetch(i, c) = NULL => above = entry
    BY <1>1, LookupResult
  <2>2. found'.entry = IF Proc(entry) THEN entry ELSE NULL
    BY <2>1
  <2>3. found'.of = i /\ found'.class = c /\ hash' = hash
    BY <1>5
  <2> HIDE DEF own, at, entry, i
  <2>4. found'.entry = LET hs    == hash'[found'.of]
                           ow    == Own(hs, found'.class)
                           a     == IF \E j \in ow : Proc(hs[j][2]) THEN ow
                                     ELSE Above(hs, found'.class)
                           en    == First(hs, a)
                       IN  IF Proc(en) THEN en ELSE NULL
    BY <2>2, <2>3 DEF own, at, entry
  <2> QED
    BY <2>4 DEF LookupByRegistration
<1> QED
  BY <1>6, <1>7, <1>8, <1>9 DEF PkInv

LEMMA ReleaseInv ==
  ASSUME PkInv, alive \subseteq Holder, NEW h \in alive, alive' = alive \ {h}, PkRelease(h)
  PROVE  PkInv'
<1> USE DEF PkRelease
<1> DEFINE kept == {pkrg[o] : o \in alive \ {h}}
<1>1. PkTypeOK'
  <2>1. hash' \in [HashId -> Seq(Class \X PkEntry)]
    BY DEF PkInv, PkTypeOK
  <2>2. cache' \in [HashId -> [Class -> PkEntry \cup {NULL}]]
    BY DEF PkInv, PkTypeOK, NoCache
  <2> QED
    BY <2>1, <2>2 DEF PkInv, PkTypeOK
<1>2. \A o \in alive' : pkrg'[o] = pkrg[o] /\ pkrg[o] \in kept
  BY DEF PkInv, PkTypeOK
<1>3. DeadHaveNone' /\ SharedIsFrozen'
  BY <1>2 DEF PkInv, PkTypeOK, DeadHaveNone, SharedIsFrozen
<1>4. \A j \in HashId : Keyed(hash'[j])
  BY DEF PkInv, Keyed
<1>5. CacheCoherent'
  <2>1. Used' \subseteq Used \cap kept
    BY <1>2 DEF Used
  <2>2. Used' \subseteq HashId \cup {NULL}
    BY <1>1 DEF Used, PkTypeOK
  <2> QED
    BY <2>1, <2>2 DEF PkInv, CacheCoherent
<1>6. LookupByRegistration'
  BY DEF LookupByRegistration
<1> QED
  BY <1>1, <1>3, <1>4, <1>5, <1>6 DEF PkInv
-----------------------------------------------------------------------------
(* The tables that objects see. *)

\* What an object sees of the Hashes: what rb_hash_lookup gives in the one it has.
PkSeen(h) == IF h \in alive /\ pkrg[h] # NULL
             THEN [c \in Class |-> Get(hash[pkrg[h]], c)]
             ELSE [c \in Class |-> NULL]

LEMMA PkTableSeen ==
  /\ PkTable = [h \in Holder |-> PkSeen(h)]
  /\ PkTable' = [h \in Holder |-> PkSeen(h)']
BY DEF PkTable, PkSeen

\* As long as every object sees what it saw, nothing happens to the tables.
LEMMA SamePkTables ==
  ASSUME \A h \in Holder : PkSeen(h)' = PkSeen(h)
  PROVE  PkTable' = PkTable
BY PkTableSeen

LEMMA PkTablesInit == alive = {} /\ PkInit => PkTables!Init
BY DEF PkTables!Init, PkTables!Empty, PkTable

\* An object appears without a registry, or a Hash is frozen, or looked up.
LEMMA QuietTables ==
  ASSUME PkInv, UNCHANGED <<pkrg, hash>>, alive \subseteq alive', alive' \subseteq Holder
  PROVE  PkTable' = PkTable
<1>1. \A h \in alive' \ alive : pkrg[h] = NULL
  BY DEF PkInv, DeadHaveNone
<1>2. \A h \in Holder : PkSeen(h)' = PkSeen(h)
  BY <1>1 DEF PkSeen
<1> QED
  BY <1>2, SamePkTables

\* A registration is seen by the object it is made on, and by no other.
LEMMA PutTables ==
  ASSUME PkInv, alive \subseteq Holder, UNCHANGED alive,
         NEW h \in alive, NEW c \in Class, NEW e \in PkEntry,
         PkPut(h, c, e)
  PROVE  [PkTables!Next]_PkTable
<1>0. h \in Holder
  OBVIOUS
<1> SUFFICES ASSUME ~(pkrg[h] # NULL /\ pkrg[h] \in frozen)
             PROVE  PkTables!Register(h)
  <2>1. CASE pkrg[h] # NULL /\ pkrg[h] \in frozen
    BY <2>1, QuietTables DEF PkPut
  <2> QED
    BY <1>0, <2>1 DEF PkTables!Next
<1>1. \E i \in HashId :
        /\ pkrg'[h] = i
        /\ \A o \in Holder : o # h => pkrg'[o] = pkrg[o]
        /\ \A o \in alive : o # h => pkrg[o] # i
        /\ \A j \in HashId : j # i => hash'[j] = hash[j]
        /\ \A d \in Class : Get(hash'[i], d) = IF d = c THEN e ELSE PkSeen(h)[d]
  <2>1. CASE pkrg[h] = NULL
    <3>1. PICK i \in HashId : /\ Fresh(i)
                              /\ pkrg' = [pkrg EXCEPT ![h] = i]
                              /\ hash' = [hash EXCEPT ![i] = <<<<c, e>>>>]
      BY <2>1 DEF PkPut
    <3>2. \A d \in Class : Get(<<<<c, e>>>>, d) = IF d = c THEN e ELSE PkSeen(h)[d]
      BY <2>1, OnePair DEF PkSeen
    <3> QED
      BY <3>1, <3>2 DEF Fresh, Used, PkInv, PkTypeOK
  <2>2. CASE pkrg[h] # NULL
    <3> DEFINE i == pkrg[h]
    <3>1. /\ i \in HashId /\ i \notin frozen
          /\ pkrg' = pkrg /\ hash' = [hash EXCEPT ![i] = Aset(hash[i], c, e)]
      BY <2>2 DEF PkPut, PkInv, PkTypeOK
    <3>2. hash[i] \in Hashes /\ Keyed(hash[i])
      BY <3>1 DEF PkInv, PkTypeOK, Hashes
    <3>3. \A d \in Class : Get(Aset(hash[i], c, e), d) = IF d = c THEN e ELSE PkSeen(h)[d]
      BY <2>2, <3>2, AsetGet DEF PkSeen
    <3>4. \A o \in alive : o # h => pkrg[o] # i
      BY <2>2, <3>1 DEF PkInv, SharedIsFrozen
    <3> QED
      BY <3>1, <3>3, <3>4 DEF PkInv, PkTypeOK
  <2> QED
    BY <2>1, <2>2
<1>2. PICK i \in HashId :
        /\ pkrg'[h] = i
        /\ \A o \in Holder : o # h => pkrg'[o] = pkrg[o]
        /\ \A o \in alive : o # h => pkrg[o] # i
        /\ \A j \in HashId : j # i => hash'[j] = hash[j]
        /\ \A d \in Class : Get(hash'[i], d) = IF d = c THEN e ELSE PkSeen(h)[d]
  BY <1>1
<1>3. PkSeen(h)' = [d \in Class |-> IF d = c THEN e ELSE PkSeen(h)[d]]
  BY <1>2, ClassAssumption DEF PkSeen
<1>4. PkSeen(h)' = [PkSeen(h) EXCEPT ![c] = e]
  BY <1>3 DEF PkSeen
<1>5. ASSUME NEW o \in Holder, o # h
      PROVE  PkSeen(o)' = PkSeen(o)
  <2>1. CASE o \in alive /\ pkrg[o] # NULL
    <3>1. pkrg'[o] = pkrg[o] /\ pkrg[o] \in HashId /\ pkrg[o] # i
      BY <1>2, <1>5, <2>1 DEF PkInv, PkTypeOK
    <3> QED
      BY <1>2, <2>1, <3>1 DEF PkSeen
  <2>2. CASE ~(o \in alive /\ pkrg[o] # NULL)
    BY <1>2, <1>5, <2>2 DEF PkSeen
  <2> QED
    BY <2>1, <2>2
<1>6. PkTable' = [PkTable EXCEPT ![h][c] = e]
  BY <1>0, <1>4, <1>5, PkTableSeen
<1> QED
  BY <1>6 DEF PkTables!Register

\* What a factory makes starts with a copy of its table, shared or not.
LEMMA BorrowTables ==
  ASSUME PkInv, alive \subseteq Holder, NEW h \in alive, NEW n \in Holder \ alive,
         alive' = alive \cup {n}, PkBorrow(h, n) \/ PkDup(h, n)
  PROVE  PkTables!Derive(h, n)
<1>1. CASE Share(h, n)
  <2>1. PkSeen(n)' = PkSeen(h)
    BY <1>1 DEF Share, PkSeen, PkInv, PkTypeOK
  <2>2. \A o \in Holder \ {n} : PkSeen(o)' = PkSeen(o)
    BY <1>1 DEF Share, PkSeen, PkInv, PkTypeOK
  <2>3. PkSeen(n) = PkTables!Empty
    BY DEF PkSeen, PkTables!Empty
  <2> QED
    BY <2>1, <2>2, <2>3, PkTableSeen DEF PkTables!Derive
<1>2. CASE Copy(h, n) /\ pkrg[h] # NULL
  <2>1. PICK i \in HashId : /\ Fresh(i)
                            /\ pkrg' = [pkrg EXCEPT ![n] = i]
                            /\ hash' = [hash EXCEPT ![i] = hash[pkrg[h]]]
    BY <1>2 DEF Copy
  <2>2. PkSeen(n)' = PkSeen(h)
    BY <1>2, <2>1, ClassAssumption DEF PkSeen, PkInv, PkTypeOK
  <2>3. ASSUME NEW o \in Holder \ {n}
        PROVE  PkSeen(o)' = PkSeen(o)
    <3>1. o \in alive => pkrg[o] # i
      BY <2>1 DEF Fresh, Used
    <3> QED
      BY <2>1, <3>1 DEF PkSeen, PkInv, PkTypeOK
  <2>4. PkSeen(n) = PkTables!Empty
    BY DEF PkSeen, PkTables!Empty
  <2> QED
    BY <2>2, <2>3, <2>4, PkTableSeen DEF PkTables!Derive
<1> QED
  BY <1>1, <1>2 DEF PkBorrow, PkDup

LEMMA ReleaseTables ==
  ASSUME PkInv, alive \subseteq Holder, NEW h \in alive, alive' = alive \ {h}, PkRelease(h)
  PROVE  PkTables!Discard(h)
<1>1. PkSeen(h)' = PkTables!Empty
  BY DEF PkSeen, PkTables!Empty
<1>2. ASSUME NEW o \in Holder \ {h}
      PROVE  PkSeen(o)' = PkSeen(o)
  <2>1. pkrg'[o] = pkrg[o]
    BY DEF PkRelease, PkInv, PkTypeOK
  <2>2. o \in alive /\ pkrg[o] # NULL => hash'[pkrg[o]] = hash[pkrg[o]]
    BY DEF PkRelease, PkInv, PkTypeOK
  <2> QED
    BY <2>1, <2>2 DEF PkSeen
<1> QED
  BY <1>1, <1>2, PkTableSeen DEF PkTables!Discard
-----------------------------------------------------------------------------
(* Factories. *)

FlagsOK ==
    /\ sealed \subseteq Factories
    /\ {has_symbol, has_bigint, oversized} \subseteq SUBSET (Factories \cup Packers)
    /\ optimized \subseteq Factories \cup Unpackers
    /\ puts \in 0 .. MaxPuts

\* The inductive invariant.
FactoryInv == UkInv /\ PkInv /\ FlagsOK

LEMMA FactoryInvInit == Init => FactoryInv
<1> SUFFICES ASSUME Init PROVE FactoryInv
  OBVIOUS
<1>1. UkInv /\ PkInv
  BY UkInvInit, PkInvInit DEF Init
<1>2. FlagsOK
  BY FactoryAssumption DEF Init, FlagsOK
<1> QED
  BY <1>1, <1>2 DEF FactoryInv
-----------------------------------------------------------------------------
(* Every step of a factory is one of the registries of unpackers, or none. *)

LEMMA RegistryStep ==
  ASSUME FactoryInv, [Next]_vars
  PROVE  [UkNext]_ukvars
<1>0. alive \subseteq Holder /\ Factories \subseteq Holder /\ Packers \subseteq Holder
      /\ Unpackers \subseteq Holder
  BY FactoryAssumption DEF FactoryInv, UkInv, UkTypeOK
<1>1. CASE \E n \in Holder : New(n)
  BY <1>1 DEF New, Appears, Idle, UkNew, UkNext
<1>2. CASE \E f, n \in Holder : MakePacker(f, n)
  BY <1>2 DEF MakePacker, Appears, Idle, UkNew, UkNext
<1>3. CASE \E f, n \in Holder : MakeUnpacker(f, n)
  BY <1>3 DEF MakeUnpacker, Appears, Idle, UkDerive, UkNext
<1>4. CASE \E f, n \in Holder : Dup(f, n)
  BY <1>4 DEF Dup, Appears, Idle, UkDerive, UkNext
<1>5. CASE \E f \in Factories : Freeze(f)
  BY <1>5 DEF Freeze, ukvars, tables, call
<1>6. CASE \E f \in Factories, c \in Class, e \in PkEntry, t \in ExtType, u \in UkEntry,
              big, fast \in BOOLEAN : RegisterType(f, c, e, t, u, big, fast)
  <2>1. PICK f \in Factories, c \in Class, e \in PkEntry, t \in ExtType, u \in UkEntry,
             big, fast \in BOOLEAN : RegisterType(f, c, e, t, u, big, fast)
    BY <1>6
  <2>2. UkPut(f, t, u)
    BY <2>1 DEF RegisterType, UkPut
  <2> QED
    BY <1>0, <2>2 DEF UkNext
<1>7. CASE \E p \in Packers, c \in Class, e \in PkEntry : PackerRegisterType(p, c, e)
  BY <1>7 DEF PackerRegisterType, ukvars, tables, call
<1>8. CASE \E n \in Unpackers, t \in ExtType, u \in UkEntry : UnpackerRegisterType(n, t, u)
  <2>1. PICK n \in Unpackers, t \in ExtType, u \in UkEntry : UnpackerRegisterType(n, t, u)
    BY <1>8
  <2>2. UkPut(n, t, u)
    BY <2>1 DEF UnpackerRegisterType, UkPut
  <2> QED
    BY <1>0, <2>2 DEF UkNext
<1>9. CASE \E r \in Registry : CowReturns(r)
  BY <1>9 DEF CowReturns, UkNext
<1>10. CASE PutReturns
  BY <1>10 DEF PutReturns, UkNext
<1>11. CASE \E p \in Packers, o \in Instances : Lookup(p, o[1], o[2])
  BY <1>11 DEF Lookup, ukvars, tables, call
<1>12. CASE \E h \in Holder : Die(h)
  BY <1>12 DEF Die, UkDie, UkNext
<1>13. CASE UNCHANGED vars
  BY <1>13 DEF vars
<1> QED
  BY <1>1, <1>2, <1>3, <1>4, <1>5, <1>6, <1>7, <1>8, <1>9, <1>10, <1>11, <1>12, <1>13
  DEF Next
-----------------------------------------------------------------------------
(* What the actions are for the registries of packers. *)

\* A step leaves the Hashes as they are, or is one of these operations.
PkQuiet ==
    /\ alive \subseteq alive' /\ UNCHANGED <<pkrg, hash, cache, frozen>>
    /\ found' = NULL \/ found' = found
PkPuts      == \E h \in alive, c \in Class, e \in PkEntry : PkPut(h, c, e) /\ UNCHANGED alive
PkDerives   == \E h \in alive, n \in Holder \ alive :
                 (PkBorrow(h, n) \/ PkDup(h, n)) /\ alive' = alive \cup {n}
PkFreezes   == \E h \in alive : PkFreeze(h) /\ UNCHANGED alive
PkLooksUp   == \E h \in alive, c, real \in Class : PkLookup(h, c, real) /\ UNCHANGED alive
PkDiscards  == \E h \in alive : PkRelease(h) /\ alive' = alive \ {h}
PkNext      == PkQuiet \/ PkPuts \/ PkDerives \/ PkFreezes \/ PkLooksUp \/ PkDiscards

LEMMA PackerRegistryStep ==
  ASSUME FactoryInv, [Next]_vars
  PROVE  PkNext
<1>0. alive \subseteq Holder
  BY DEF FactoryInv, UkInv, UkTypeOK
<1>1. CASE \E n \in Holder : New(n)
  BY <1>1 DEF New, Appears, PkQuiet, PkNext
<1>2. CASE \E f, n \in Holder : MakePacker(f, n)
  BY <1>2 DEF MakePacker, Appears, PkDerives, PkNext
<1>3. CASE \E f, n \in Holder : MakeUnpacker(f, n)
  BY <1>3 DEF MakeUnpacker, Appears, PkQuiet, PkNext
<1>4. CASE \E f, n \in Holder : Dup(f, n)
  BY <1>4 DEF Dup, Appears, PkDerives, PkNext
<1>5. CASE \E f \in Factories : Freeze(f)
  BY <1>5 DEF Freeze, PkFreezes, PkNext
<1>6. CASE \E f \in Factories, c \in Class, e \in PkEntry, t \in ExtType, u \in UkEntry,
              big, fast \in BOOLEAN : RegisterType(f, c, e, t, u, big, fast)
  BY <1>6 DEF RegisterType, PkPuts, PkNext
<1>7. CASE \E p \in Packers, c \in Class, e \in PkEntry : PackerRegisterType(p, c, e)
  BY <1>7 DEF PackerRegisterType, PkPuts, PkNext
<1>8. CASE \E n \in Unpackers, t \in ExtType, u \in UkEntry : UnpackerRegisterType(n, t, u)
  BY <1>8 DEF UnpackerRegisterType, PkQuiet, PkNext
<1>9. CASE \E r \in Registry : CowReturns(r)
  BY <1>9 DEF CowReturns, PkQuiet, PkNext
<1>10. CASE PutReturns
  BY <1>10 DEF PutReturns, PkQuiet, PkNext
<1>11. CASE \E p \in Packers, o \in Instances : Lookup(p, o[1], o[2])
  <2>1. PICK p \in Packers, o \in Instances : Lookup(p, o[1], o[2])
    BY <1>11
  <2>2. o[1] \in Class /\ o[2] \in Class
    BY ClassAssumption
  <2> QED
    BY <2>1, <2>2 DEF Lookup, PkLooksUp, PkNext
<1>12. CASE \E h \in Holder : Die(h)
  BY <1>12 DEF Die, PkDiscards, PkNext
<1>13. CASE UNCHANGED vars
  BY <1>13 DEF vars, ukvars, pkvars, PkQuiet, PkNext
<1> QED
  BY <1>1, <1>2, <1>3, <1>4, <1>5, <1>6, <1>7, <1>8, <1>9, <1>10, <1>11, <1>12, <1>13
  DEF Next

LEMMA PkInvStep ==
  ASSUME PkInv, alive \subseteq Holder, alive' \subseteq Holder, PkNext
  PROVE  PkInv'
<1>1. CASE PkQuiet
  BY <1>1, SameHashes DEF PkQuiet
<1>2. CASE PkPuts
  BY <1>2, PutInv DEF PkPuts
<1>3. CASE PkDerives
  BY <1>3, BorrowInv DEF PkDerives
<1>4. CASE PkFreezes
  BY <1>4, FreezeInv DEF PkFreezes
<1>5. CASE PkLooksUp
  BY <1>5, LookupInv DEF PkLooksUp
<1>6. CASE PkDiscards
  BY <1>6, ReleaseInv DEF PkDiscards
<1> QED
  BY <1>1, <1>2, <1>3, <1>4, <1>5, <1>6 DEF PkNext

LEMMA PkTablesStep ==
  ASSUME PkInv, alive \subseteq Holder, alive' \subseteq Holder, PkNext
  PROVE  [PkTables!Next]_PkTable
<1>1. CASE PkQuiet
  BY <1>1, QuietTables DEF PkQuiet
<1>2. CASE PkPuts
  BY <1>2, PutTables DEF PkPuts
<1>3. CASE PkDerives
  BY <1>3, BorrowTables DEF PkDerives, PkTables!Next
<1>4. CASE PkFreezes
  BY <1>4, QuietTables DEF PkFreezes, PkFreeze
<1>5. CASE PkLooksUp
  BY <1>5, QuietTables DEF PkLooksUp, PkLookup
<1>6. CASE PkDiscards
  BY <1>6, ReleaseTables DEF PkDiscards, PkTables!Next
<1> QED
  BY <1>1, <1>2, <1>3, <1>4, <1>5, <1>6 DEF PkNext
-----------------------------------------------------------------------------
LEMMA FlagsStep ==
  ASSUME FlagsOK, [Next]_vars
  PROVE  FlagsOK'
<1> USE DEF FlagsOK, Copied, flags
<1>1. CASE \E n \in Holder : New(n)
  BY <1>1 DEF New
<1>2. CASE \E f, n \in Holder : MakePacker(f, n)
  BY <1>2 DEF MakePacker
<1>3. CASE \E f, n \in Holder : MakeUnpacker(f, n)
  BY <1>3 DEF MakeUnpacker
<1>4. CASE \E f, n \in Holder : Dup(f, n)
  BY <1>4 DEF Dup
<1>5. CASE \E f \in Factories : Freeze(f)
  BY <1>5 DEF Freeze
<1>6. CASE \E f \in Factories, c \in Class, e \in PkEntry, t \in ExtType, u \in UkEntry,
              big, fast \in BOOLEAN : RegisterType(f, c, e, t, u, big, fast)
  BY <1>6, FactoryAssumption DEF RegisterType, Counted
<1>7. CASE \E p \in Packers, c \in Class, e \in PkEntry : PackerRegisterType(p, c, e)
  BY <1>7, FactoryAssumption DEF PackerRegisterType, Counted
<1>8. CASE \E n \in Unpackers, t \in ExtType, u \in UkEntry : UnpackerRegisterType(n, t, u)
  BY <1>8, FactoryAssumption DEF UnpackerRegisterType, Counted
<1>9. CASE \E r \in Registry : CowReturns(r)
  BY <1>9 DEF CowReturns
<1>10. CASE PutReturns
  BY <1>10 DEF PutReturns
<1>11. CASE \E p \in Packers, o \in Instances : Lookup(p, o[1], o[2])
  BY <1>11 DEF Lookup
<1>12. CASE \E h \in Holder : Die(h)
  BY <1>12 DEF Die
<1>13. CASE UNCHANGED vars
  BY <1>13 DEF vars
<1> QED
  BY <1>1, <1>2, <1>3, <1>4, <1>5, <1>6, <1>7, <1>8, <1>9, <1>10, <1>11, <1>12, <1>13
  DEF Next

LEMMA FactoryInvStep == FactoryInv /\ [Next]_vars => FactoryInv'
<1> SUFFICES ASSUME FactoryInv, [Next]_vars PROVE FactoryInv'
  OBVIOUS
<1>1. UkInv'
  BY RegistryStep, UkInvStep DEF FactoryInv
<1>2. alive \subseteq Holder /\ alive' \subseteq Holder
  BY <1>1 DEF FactoryInv, UkInv, UkTypeOK
<1>3. PkInv'
  BY <1>2, PackerRegistryStep, PkInvStep DEF FactoryInv
<1>4. FlagsOK'
  BY FlagsStep DEF FactoryInv
<1> QED
  BY <1>1, <1>3, <1>4 DEF FactoryInv
-----------------------------------------------------------------------------
\* Whatever is made, registered, frozen, looked up and collected, in any order,
\* the variables of factories and their registries keep their types.
THEOREM FactoryTypeCorrect == Spec => []TypeOK
<1>1. FactoryInv => TypeOK
  BY DEF FactoryInv, UkInv, PkInv, FlagsOK, TypeOK
<1> QED
  BY <1>1, FactoryInvInit, FactoryInvStep, PTL DEF Spec

\* The cache of a registry never holds what a search would not give now,
\* although it is copied and shared with the registry and lookups fill it.
THEOREM CachesAreCoherent == Spec => []CacheCoherent
<1>1. FactoryInv => CacheCoherent
  BY DEF FactoryInv, PkInv
<1> QED
  BY <1>1, FactoryInvInit, FactoryInvStep, PTL DEF Spec

\* What msgpack_packer_ext_registry_lookup returns for an object without a
\* singleton class depends on what is registered alone.
THEOREM LookupsAreByRegistration == Spec => []LookupByRegistration
<1>1. FactoryInv => LookupByRegistration
  BY DEF FactoryInv, PkInv
<1> QED
  BY <1>1, FactoryInvInit, FactoryInvStep, PTL DEF Spec

\* Factories, packers and unpackers use the registries of unpackers as
\* UnpackerExtRegistry allows: what is proved of those holds in them.
THEOREM FactoriesUseRegistries == Spec => UkSpec
<1>1. FactoryInv /\ [Next]_vars => [UkNext]_ukvars
  BY RegistryStep
<1>2. Init => alive = {} /\ UkInit
  BY DEF Init
<1> QED
  BY <1>1, <1>2, FactoryInvInit, FactoryInvStep, PTL DEF Spec, UkSpec

\* No unpacker or factory is left with a registry that is freed.
THEOREM FactoriesKeepRegistries == Spec => [](HeldAllocated /\ CountExact)
BY FactoriesUseRegistries, NothingHeldIsFreed, CountsAreExact, PTL

\* Every object made by a factory has a table of extension types of its own.
THEOREM FactoriesImplementTables == Spec => UkTablesSpec
BY FactoriesUseRegistries, RegistriesImplementTables, PTL

\* Sharing the Hashes that are frozen and copying the others cannot be told
\* from every factory and packer having a table of classes of its own.
THEOREM HashesImplementTables == Spec => PkTablesSpec
<1>1. FactoryInv /\ FactoryInv' /\ [Next]_vars => [PkTables!Next]_PkTable
  BY PackerRegistryStep, PkTablesStep DEF FactoryInv, UkInv, UkTypeOK
<1>2. Init => PkTables!Init
  BY PkTablesInit DEF Init
<1> QED
  BY <1>1, <1>2, FactoryInvInit, FactoryInvStep, PTL DEF Spec, PkTablesSpec, PkTables!Spec
=============================================================================
