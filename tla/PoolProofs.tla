----------------------------- MODULE PoolProofs -----------------------------
(***************************************************************************)
(* Proofs about Pool, for any number of calls, any size and any number of  *)
(* packers.                                                                *)
(***************************************************************************)
EXTENDS Pool, FiniteSetTheorems, SequenceTheorems, TLAPS

\* A call has a member from the pop or the new one to the end of `ensure`.
HeldInside ==
    \A c \in Call : member[c] # NULL <=> pc[c] \in {"yield", "reset", "push"}

\* What is pushed was reset.
ResetBeforePush == \A c \in Call : pc[c] = "push" => member[c] \notin dirty

\* Only without the mutex is the size checked before reset.
CheckedFirst ==
    size = 0 /\ ~ mutexed => Leaving = {}

IInv ==
    /\ TypeOK
    /\ HeldInside
    /\ ResetBeforePush
    /\ CheckedFirst
    /\ Exclusive
    /\ PooledClean
    /\ Bounded

LEMMA InitIInv == Init => IInv
<1> SUFFICES ASSUME Init PROVE IInv
  OBVIOUS
<1> USE PoolAssumption DEF Init
<1>1. TypeOK
  BY DEF TypeOK, Where
<1>2. Range(members) = {} /\ Len(members) = 0
  BY DEF Range
<1>3. Leaving = {}
  BY DEF Leaving
<1>4. HeldInside /\ ResetBeforePush /\ CheckedFirst
  BY <1>3 DEF HeldInside, ResetBeforePush, CheckedFirst
<1>5. Exclusive /\ PooledClean
  BY <1>2 DEF Exclusive, PooledClean, Pooled, Held
<1>6. Cardinality(Call) \in Nat /\ Cardinality(Call) > 0 /\ size \in Nat
  BY FS_CardinalityType, FS_EmptySet
<1>7. Bounded
  BY <1>2, <1>3, <1>6, FS_EmptySet DEF Bounded
<1> QED
  BY <1>1, <1>4, <1>5, <1>7 DEF IInv

\* The elements of a sequence without its last.
LEMMA FrontOf ==
  ASSUME NEW s \in Seq(Member), s # <<>>
  PROVE  /\ Front(s) \in Seq(Member)
         /\ Len(Front(s)) = Len(s) - 1 /\ Len(s) \in Nat \ {0}
         /\ \A i \in 1 .. Len(s) - 1 : Front(s)[i] = s[i]
         /\ Last(s) = s[Len(s)] /\ Last(s) \in Member
<1>1. Len(s) \in Nat \ {0} /\ \A i \in 1 .. Len(s) : s[i] \in Member
  OBVIOUS
<1>2. DEFINE k == Len(s) - 1
<1>3. k \in Nat /\ \A i \in 1 .. k : s[i] \in Member
  BY <1>1
<1>4. HIDE DEF k
<1>5. /\ SubSeq(s, 1, k) \in Seq(Member)
      /\ Len(SubSeq(s, 1, k)) = IF 1 <= k THEN k - 1 + 1 ELSE 0
      /\ \A i \in 1 .. k - 1 + 1 : SubSeq(s, 1, k)[i] = s[1 + i - 1]
  BY <1>3, SubSeqProperties
<1>6. Len(SubSeq(s, 1, k)) = k /\ \A i \in 1 .. k : SubSeq(s, 1, k)[i] = s[i]
  BY <1>3, <1>5
<1> QED
  BY <1>1, <1>5, <1>6 DEF Front, Last, k

\* Calls that leave can be counted.
LEMMA LeavingFinite ==
  /\ IsFiniteSet(Leaving) /\ Cardinality(Leaving) \in Nat
  /\ Cardinality(Call) \in Nat /\ Cardinality(Leaving) <= Cardinality(Call)
<1>1. Leaving \in SUBSET Call
  BY DEF Leaving
<1> QED
  BY <1>1, PoolAssumption, FS_Subset, FS_CardinalityType

\* When no call comes to leave and no member is added the bound holds on.
LEMMA StillBounded ==
  ASSUME IInv, UNCHANGED <<size, mutexed>>, Len(members') <= Len(members),
         Len(members') \in Nat, members' \in Seq(Member),
         Leaving' \in SUBSET Leaving
  PROVE  Bounded' /\ CheckedFirst'
<1>1. IsFiniteSet(Leaving') /\ Cardinality(Leaving') <= Cardinality(Leaving)
      /\ Cardinality(Leaving') \in Nat
  BY LeavingFinite, FS_Subset, FS_CardinalityType
<1>2. size \in Nat /\ Len(members) \in Nat
  BY PoolAssumption DEF IInv, TypeOK
<1>3. CASE mutexed
  BY <1>2, <1>3 DEF IInv, Bounded, CheckedFirst
<1>4. CASE ~ mutexed /\ size = 0
  BY <1>2, <1>4 DEF IInv, Bounded, CheckedFirst
<1>5. CASE ~ mutexed /\ size # 0
  BY <1>1, <1>2, <1>5, LeavingFinite DEF IInv, Bounded, CheckedFirst
<1> QED
  BY <1>3, <1>4, <1>5

-----------------------------------------------------------------------------
(* One lemma per step that moves a member. *)

LEMMA PopStep ==
  ASSUME IInv, NEW c \in Call, Pop(c)
  PROVE  IInv'
<1> USE DEF Pop, Go
<1> DEFINE n == Len(members)
           m == Last(members)
<1>1. /\ members' \in Seq(Member) /\ Len(members') = n - 1 /\ n \in Nat \ {0}
      /\ \A i \in 1 .. n - 1 : members'[i] = members[i]
      /\ m = members[n] /\ m \in Member
  BY FrontOf DEF IInv, TypeOK
<1>2. DOMAIN members = 1 .. n /\ DOMAIN members' = 1 .. n - 1
  BY <1>1 DEF IInv, TypeOK
<1>3. m \in Pooled /\ m # NULL /\ member[c] = NULL
  <2>1. n \in DOMAIN members
    BY <1>1, <1>2
  <2>2. m \in Pooled
    BY <1>1, <2>1 DEF Pooled, Range
  <2>3. member[c] = NULL
    BY DEF IInv, HeldInside
  <2> QED
    BY <1>1, <2>2, <2>3, PoolAssumption
<1>4. Pooled' = Pooled \ {m}
  BY <1>1, <1>2 DEF Pooled, Range, IInv, Exclusive
<1>5. Held' = Held \cup {m}
  BY <1>3 DEF Held, IInv, TypeOK
<1>6. TypeOK'
  BY <1>1 DEF IInv, TypeOK, Where
<1>7. HeldInside' /\ ResetBeforePush'
  BY <1>3, <1>6 DEF IInv, TypeOK, HeldInside, ResetBeforePush
<1>8. Exclusive'
  <2>1. \A d \in Call \ {c} : member[d] # m
    BY <1>3 DEF IInv, Exclusive, Held
  <2>2. Pooled' \cap Held' = {}
    BY <1>4, <1>5 DEF IInv, Exclusive
  <2>3. \A i, j \in DOMAIN members' : i # j => members'[i] # members'[j]
    BY <1>1, <1>2 DEF IInv, Exclusive
  <2>4. \A a, b \in Call : a # b /\ member'[a] # NULL => member'[a] # member'[b]
    BY <1>3, <2>1 DEF IInv, TypeOK, Exclusive
  <2> QED
    BY <2>2, <2>3, <2>4 DEF Exclusive
<1>9. PooledClean'
  BY <1>4 DEF IInv, PooledClean
<1>10. Leaving' \in SUBSET Leaving
  BY DEF Leaving, IInv, TypeOK
<1>11. Bounded' /\ CheckedFirst'
  BY <1>1, <1>10, StillBounded
<1> QED
  BY <1>6, <1>7, <1>8, <1>9, <1>11 DEF IInv

LEMMA NewMemberStep ==
  ASSUME IInv, NEW c \in Call, NewMember(c)
  PROVE  IInv'
<1> USE DEF NewMember, Go
<1>1. PICK m \in Member \ (Pooled \cup Held) :
             /\ member' = [member EXCEPT ![c] = m]
             /\ dirty' = dirty \ {m}
  OBVIOUS
<1>2. m # NULL /\ Pooled' = Pooled
  BY PoolAssumption DEF Pooled
<1>3. Held' \subseteq Held \cup {m}
  BY <1>1 DEF Held, IInv, TypeOK
<1>4. TypeOK'
  BY <1>1 DEF IInv, TypeOK, Where
<1>5. HeldInside' /\ ResetBeforePush'
  BY <1>1, <1>2 DEF IInv, TypeOK, HeldInside, ResetBeforePush
<1>6. Exclusive'
  <2>1. \A d \in Call \ {c} : member[d] # m
    BY <1>1, <1>2 DEF Held
  <2>2. \A a, b \in Call : a # b /\ member'[a] # NULL => member'[a] # member'[b]
    BY <1>1, <1>2, <2>1 DEF IInv, TypeOK, Exclusive
  <2> QED
    BY <1>1, <1>2, <1>3, <2>2 DEF IInv, Exclusive
<1>7. PooledClean'
  BY <1>1, <1>2 DEF IInv, PooledClean
<1>8. Leaving' \in SUBSET Leaving
  BY DEF Leaving, IInv, TypeOK
<1>9. Bounded' /\ CheckedFirst'
  BY <1>8, StillBounded DEF IInv, TypeOK
<1> QED
  BY <1>4, <1>5, <1>6, <1>7, <1>9 DEF IInv

LEMMA PushStep ==
  ASSUME IInv, NEW c \in Call, Push(c)
  PROVE  IInv'
<1> USE DEF Push, Go
<1> DEFINE n == Len(members)
           m == member[c]
<1>1. m \in Member /\ m # NULL /\ m \in Held /\ m \notin dirty
  BY PoolAssumption DEF IInv, TypeOK, HeldInside, Held, ResetBeforePush
<1>2. Held' = Held \ {m}
  BY <1>1 DEF Held, IInv, TypeOK, Exclusive
<1>3. Leaving' = Leaving \ {c} /\ c \in Leaving
  BY DEF Leaving, IInv, TypeOK
<1>4. Cardinality(Leaving') = Cardinality(Leaving) - 1
  BY <1>3, LeavingFinite, FS_RemoveElement
<1>5. HeldInside'
  BY DEF IInv, TypeOK, HeldInside
<1>6. ResetBeforePush'
  BY DEF IInv, TypeOK, ResetBeforePush
<1>7. n \in Nat /\ size \in Nat /\ DOMAIN members = 1 .. n
      /\ mutexed \in BOOLEAN
  BY PoolAssumption DEF IInv, TypeOK
<1>8. \A a, b \in Call : a # b /\ member'[a] # NULL => member'[a] # member'[b]
  BY DEF IInv, TypeOK, Exclusive
<1>9. CASE members' = members
  <2>1. TypeOK'
    BY <1>9 DEF IInv, TypeOK, Where
  <2>2. Exclusive' /\ PooledClean'
    BY <1>2, <1>8, <1>9 DEF IInv, Exclusive, PooledClean, Pooled
  <2>3. Bounded' /\ CheckedFirst'
    <3>1. Leaving' \in SUBSET Leaving /\ Len(members') = n
          /\ members' \in Seq(Member)
      BY <1>3, <1>9 DEF IInv, TypeOK
    <3>2. UNCHANGED <<size, mutexed>>
      OBVIOUS
    <3> HIDE DEF Push
    <3> QED
      BY <1>7, <3>1, <3>2, StillBounded
  <2> QED
    BY <1>5, <1>6, <2>1, <2>2, <2>3 DEF IInv
<1>10. CASE members' = Append(members, m) /\ (mutexed => n < size)
  <2>1. /\ members' \in Seq(Member) /\ Len(members') = n + 1
        /\ DOMAIN members' = 1 .. n + 1
        /\ \A i \in 1 .. n : members'[i] = members[i]
        /\ members'[n + 1] = m
    BY <1>1, <1>7, <1>10 DEF IInv, TypeOK
  <2>2. TypeOK'
    BY <2>1 DEF IInv, TypeOK, Where
  <2>3. Pooled' = Pooled \cup {m}
    BY <1>7, <2>1 DEF Pooled, Range
  <2>4. m \notin Pooled
    BY <1>1 DEF IInv, Exclusive
  <2>5. \A i, j \in DOMAIN members' : i # j => members'[i] # members'[j]
    <3>1. \A i \in 1 .. n : members[i] # m
      BY <1>7, <2>4 DEF Pooled, Range
    <3> QED
      BY <1>7, <2>1, <3>1 DEF IInv, Exclusive
  <2>6. Exclusive' /\ PooledClean'
    BY <1>1, <1>2, <1>8, <2>3, <2>5 DEF IInv, Exclusive, PooledClean
  <2>7. Bounded' /\ CheckedFirst'
    <3>1. CASE mutexed
      BY <1>7, <1>10, <2>1, <3>1 DEF Bounded, CheckedFirst
    <3>2. CASE ~ mutexed
      <4>1. size # 0
        BY <1>3, <3>2 DEF IInv, CheckedFirst
      <4> QED
        BY <1>4, <1>7, <2>1, <3>2, <4>1, LeavingFinite
        DEF IInv, Bounded, CheckedFirst
    <3> QED
      BY <3>1, <3>2
  <2> QED
    BY <1>5, <1>6, <2>2, <2>6, <2>7 DEF IInv
<1>11. \/ members' = members
       \/ members' = Append(members, m) /\ (mutexed => n < size)
  <2>1. Len(members) >= size \/ n < size
    BY <1>7
  <2>2. CASE mutexed /\ Len(members) >= size
    BY <2>2, Zenon
  <2>3. CASE ~ (mutexed /\ Len(members) >= size)
    BY <2>1, <2>3, Zenon
  <2> QED
    BY <2>2, <2>3
<1> QED
  BY <1>9, <1>10, <1>11

\* Steps that move no member.
Stays(c) == PopNil(c) \/ Yield(c) \/ Ensure(c) \/ Reset(c)
            \/ (Check(c) /\ pc'[c] = "reset")

LEMMA OtherStep ==
  ASSUME IInv, NEW c \in Call, Stays(c)
  PROVE  IInv'
<1> USE DEF Stays, PopNil, Yield, Ensure, Reset, Check, Go
<1>1. members' = members /\ member' = member /\ UNCHANGED <<size, mutexed>>
  BY DEF IInv, TypeOK
<1>2. Exclusive' /\ Pooled' = Pooled
  BY <1>1 DEF IInv, Exclusive, Pooled, Held
<1>3. \/ dirty' \subseteq dirty
      \/ pc[c] = "yield" /\ dirty' = dirty \cup {member[c]} /\ pc' = pc
  BY DEF IInv, TypeOK
<1>4. pc[c] = "yield" => member[c] \in Member /\ member[c] \in Held
  BY DEF IInv, TypeOK, HeldInside, Held
<1>5. PooledClean'
  BY <1>2, <1>3, <1>4 DEF IInv, PooledClean, Exclusive
<1>6. TypeOK'
  BY <1>1, <1>3, <1>4 DEF IInv, TypeOK, Where
<1>7. HeldInside'
  BY <1>1 DEF IInv, TypeOK, HeldInside
<1>8. ResetBeforePush'
  <2>1. ASSUME NEW d \in Call, pc'[d] = "push"
        PROVE  member[d] \notin dirty'
    <3>1. CASE d = c
      BY <2>1, <3>1 DEF IInv, TypeOK, ResetBeforePush
    <3>2. CASE d # c
      <4>1. pc[d] = "push" /\ member[d] # NULL /\ member[d] \notin dirty
        BY <2>1, <3>2 DEF IInv, TypeOK, HeldInside, ResetBeforePush
      <4>2. member[d] # member[c]
        BY <3>2, <4>1 DEF IInv, Exclusive
      <4> QED
        BY <1>3, <4>1, <4>2
    <3> QED
      BY <3>1, <3>2
  <2> QED
    BY <1>1, <2>1 DEF ResetBeforePush
<1>9. Bounded' /\ CheckedFirst'
  <2>1. size \in Nat /\ Len(members) \in Nat /\ mutexed \in BOOLEAN
    BY PoolAssumption DEF IInv, TypeOK
  <2>2. CASE mutexed
    BY <1>1, <2>2 DEF IInv, Bounded, CheckedFirst
  <2>3. CASE ~ mutexed /\ Leaving' \in SUBSET Leaving
    <3>1. members' \in Seq(Member) /\ Len(members') = Len(members)
      BY <1>1 DEF IInv, TypeOK
    <3> QED
      BY <1>1, <2>1, <2>3, <3>1, StillBounded
  <2>4. CASE Check(c) /\ pc'[c] = "reset"
    <3>1. Len(members) < size
      BY <2>4 DEF IInv, TypeOK
    <3>2. IsFiniteSet(Leaving)' /\ Cardinality(Leaving)' \in Nat
          /\ Cardinality(Leaving)' <= Cardinality(Call)
          /\ Cardinality(Call) \in Nat
      <4>1. Leaving' \in SUBSET Call
        BY DEF Leaving
      <4> QED
        BY <4>1, PoolAssumption, FS_Subset, FS_CardinalityType
    <3>3. ~ mutexed /\ size # 0
      BY <2>1, <2>4, <3>1
    <3>4. Len(members) + Cardinality(Leaving)' <= size + Cardinality(Call) - 1
      BY <2>1, <3>1, <3>2
    <3> QED
      BY <1>1, <3>3, <3>4 DEF Bounded, CheckedFirst
  <2>5. \/ mutexed
        \/ Leaving' \in SUBSET Leaving
        \/ Check(c) /\ pc'[c] = "reset"
    <3>1. PopNil(c) \/ Reset(c) => Leaving' \in SUBSET Leaving
      BY DEF Leaving, IInv, TypeOK
    <3>2. Yield(c) => Leaving' \in SUBSET Leaving
      BY DEF Leaving
    <3>3. Ensure(c) => mutexed
      BY Zenon
    <3> HIDE DEF PopNil, Yield, Ensure, Reset, Check
    <3> QED
      BY <3>1, <3>2, <3>3, Zenon
  <2> QED
    BY <2>1, <2>2, <2>3, <2>4, <2>5
<1> QED
  BY <1>2, <1>5, <1>6, <1>7, <1>8, <1>9 DEF IInv

\* Steps that lose a member, or give up before there is one.
Drops(c) == Interrupted(c) \/ (Check(c) /\ member'[c] = NULL)

LEMMA DropStep ==
  ASSUME IInv, NEW c \in Call, Drops(c)
  PROVE  IInv'
<1> USE DEF Drops, Interrupted, Check, Go
<1>0. Check(c) => member[c] # NULL
  BY DEF IInv, HeldInside
<1>1. /\ UNCHANGED <<mutexed, size, members, dirty>>
      /\ pc' = [pc EXCEPT ![c] = "outside"]
      /\ member' = [member EXCEPT ![c] = NULL]
  BY <1>0 DEF IInv, TypeOK
<1> HIDE DEF Drops, Interrupted, Check, Go
<1>2. Pooled' = Pooled /\ Held' \subseteq Held
  BY <1>1 DEF Pooled, Held, IInv, TypeOK
<1>3. Exclusive' /\ PooledClean'
  BY <1>1, <1>2 DEF IInv, TypeOK, Exclusive, PooledClean
<1>4. TypeOK' /\ HeldInside' /\ ResetBeforePush'
  BY <1>1 DEF IInv, TypeOK, Where, HeldInside, ResetBeforePush
<1>5. Leaving' \in SUBSET Leaving
  BY <1>1 DEF Leaving, IInv, TypeOK
<1>6. Len(members') <= Len(members) /\ Len(members') \in Nat
      /\ members' \in Seq(Member)
  BY <1>1 DEF IInv, TypeOK
<1>7. Bounded' /\ CheckedFirst'
  BY <1>1, <1>5, <1>6, StillBounded
<1> QED
  BY <1>3, <1>4, <1>7 DEF IInv

LEMMA NextIInv == IInv /\ [Next]_vars => IInv'
<1> SUFFICES ASSUME IInv, [Next]_vars PROVE IInv'
  OBVIOUS
<1>1. CASE UNCHANGED vars
  BY <1>1 DEF vars, IInv, TypeOK, HeldInside, ResetBeforePush, CheckedFirst,
              Leaving, Exclusive, PooledClean, Pooled, Held, Bounded
<1>2. ASSUME NEW c \in Call, Step(c)
      PROVE  IInv'
  <2>1. CASE Pop(c)
    BY <2>1, PopStep
  <2>2. CASE NewMember(c)
    BY <2>2, NewMemberStep
  <2>3. CASE Push(c)
    BY <2>3, PushStep
  <2>4. CASE Stays(c)
    BY <2>4, OtherStep
  <2>5. CASE Drops(c)
    BY <2>5, DropStep
  <2>6. Check(c) => pc'[c] = "reset" \/ member'[c] = NULL
    BY DEF Check, Go, IInv, TypeOK
  <2>7. Step(c) => Pop(c) \/ NewMember(c) \/ Push(c) \/ Stays(c) \/ Drops(c)
    BY <2>6, Zenon DEF Step, Stays, Drops
  <2> QED
    BY <1>2, <2>1, <2>2, <2>3, <2>4, <2>5, <2>7, Zenon
<1> QED
  BY <1>1, <1>2 DEF Next

\* The variables of the pool keep their types.
THEOREM TypeCorrect == Spec => []TypeOK
<1>1. IInv => TypeOK
  BY DEF IInv
<1> QED
  BY <1>1, InitIInv, NextIInv, PTL DEF Spec

\* No packer is ever used by two calls, however the calls interleave and
\* wherever they are interrupted, on MRI without any lock.
THEOREM NoSharedMember == Spec => []Exclusive
<1>1. IInv => Exclusive
  BY DEF IInv
<1> QED
  BY <1>1, InitIInv, NextIInv, PTL DEF Spec

\* Nothing is left in the packers of the pool from the calls before.
THEOREM NothingLeftBehind == Spec => []PooledClean
<1>1. IInv => PooledClean
  BY DEF IInv
<1> QED
  BY <1>1, InitIInv, NextIInv, PTL DEF Spec

\* The pool holds `size` members with the mutex, and without it at most one
\* more for each call but one.
THEOREM PoolIsBounded == Spec => []Bounded
<1>1. IInv => Bounded
  BY DEF IInv
<1> QED
  BY <1>1, InitIInv, NextIInv, PTL DEF Spec
=============================================================================
