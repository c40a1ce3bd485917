-------------------------------- MODULE Pool --------------------------------
(***************************************************************************)
(* MessagePack::Factory::Pool::MemberPool (lib/msgpack/factory.rb): the    *)
(* packers, or the unpackers, that calls of dump and load take from a pool *)
(* and give back.                                                          *)
(*                                                                         *)
(* On MRI there is no lock: Array#pop, Array#<<, Array#size and reset are  *)
(* single calls into C, and threads are switched between them.  The other  *)
(* engines have a mutex.  A call is one activation of `with`: calls of     *)
(* several threads interleave, and a call may be made inside another one's *)
(* block, by a proc that packs with the same pool.                         *)
(***************************************************************************)
EXTENDS Integers, Sequences, SequencesExt, FiniteSets

CONSTANTS
    Call,       \* activations of `with` that may be under way
    Member,     \* the packers there may be at a time
    Sizes,      \* the arguments of Factory#pool
    NULL

ASSUME PoolAssumption == /\ IsFiniteSet(Call) /\ Call # {}
                         /\ Sizes \subseteq Nat
                         /\ NULL \notin Member

VARIABLES
    mutexed,    \* the engine is not MRI
    size,       \* @size
    members,    \* @members
    pc,
    member,     \* the local variable of each call
    dirty       \* the members with something left in their buffer or stack

vars == <<mutexed, size, members, pc, member, dirty>>

Where == {"outside", "new_member", "yield", "reset", "push"}

TypeOK ==
    /\ mutexed \in BOOLEAN /\ size \in Sizes
    /\ members \in Seq(Member)
    /\ pc \in [Call -> Where]
    /\ member \in [Call -> Member \cup {NULL}]
    /\ dirty \subseteq Member

Init ==
    /\ mutexed \in BOOLEAN /\ size \in Sizes
    /\ members = <<>>
    /\ pc = [c \in Call |-> "outside"]
    /\ member = [c \in Call |-> NULL]
    /\ dirty = {}

Pooled  == Range(members)
Held    == {member[c] : c \in Call} \ {NULL}
Go(c, to) == pc' = [pc EXCEPT ![c] = to]
-----------------------------------------------------------------------------
\* Mutant: what an empty pool gives is used as it is.
PopUnchecked(c) ==
    /\ pc[c] = "outside"
    /\ member' = [member EXCEPT ![c] = IF members = <<>> THEN "nil" ELSE Last(members)]
    /\ members' = IF members = <<>> THEN <<>> ELSE Front(members)
    /\ Go(c, "yield")
    /\ UNCHANGED <<mutexed, size, dirty>>

\* Mutant: the last member is looked at and not taken.
PopLast(c) ==
    /\ pc[c] = "outside" /\ members # <<>>
    /\ member' = [member EXCEPT ![c] = Last(members)]
    /\ Go(c, "yield")
    /\ UNCHANGED <<mutexed, size, members, dirty>>

\* @members.pop, when there is one.
Pop(c) ==
    /\ pc[c] = "outside" /\ members # <<>>
    /\ member' = [member EXCEPT ![c] = Last(members)]
    /\ members' = Front(members)
    /\ Go(c, "yield")
    /\ UNCHANGED <<mutexed, size, dirty>>

\* @members.pop is nil.
PopNil(c) ==
    /\ pc[c] = "outside" /\ members = <<>>
    /\ Go(c, "new_member")
    /\ UNCHANGED <<mutexed, size, members, member, dirty>>

\* @new_member.call
NewMember(c) ==
    /\ pc[c] = "new_member"
    /\ \E m \in Member \ (Pooled \cup Held) :
         /\ member' = [member EXCEPT ![c] = m]
         /\ dirty' = dirty \ {m}
    /\ Go(c, "yield")
    /\ UNCHANGED <<mutexed, size, members>>

\* The block packs or unpacks; it may raise with the work half done.
Yield(c) ==
    /\ pc[c] = "yield"
    /\ \/ dirty' = dirty \cup {member[c]}
       \/ dirty' = dirty \ {member[c]}
    /\ UNCHANGED <<mutexed, size, members, pc, member>>

\* `ensure` without a mutex looks at the size first, and drops the member if
\* the pool is full.
Check(c) ==
    /\ pc[c] = "yield" /\ ~ mutexed
    /\ IF Len(members) < size
       THEN Go(c, "reset") /\ UNCHANGED member
       ELSE Go(c, "outside") /\ member' = [member EXCEPT ![c] = NULL]
    /\ UNCHANGED <<mutexed, size, members, dirty>>

\* `ensure` with a mutex goes to reset.
Ensure(c) ==
    /\ pc[c] = "yield" /\ mutexed
    /\ Go(c, "reset")
    /\ UNCHANGED <<mutexed, size, members, member, dirty>>

\* Mutant: the member goes back as it is.
ResetNothing(c) ==
    /\ pc[c] = "reset"
    /\ Go(c, "push")
    /\ UNCHANGED <<mutexed, size, members, member, dirty>>

\* member.reset
Reset(c) ==
    /\ pc[c] = "reset"
    /\ dirty' = dirty \ {member[c]}
    /\ Go(c, "push")
    /\ UNCHANGED <<mutexed, size, members, member>>

\* Mutant: the size is not looked at again.
PushAlways(c) ==
    /\ pc[c] = "push"
    /\ members' = Append(members, member[c])
    /\ member' = [member EXCEPT ![c] = NULL]
    /\ Go(c, "outside")
    /\ UNCHANGED <<mutexed, size, dirty>>

\* @members << member.  With the mutex the size is looked at here.
Push(c) ==
    /\ pc[c] = "push"
    /\ members' = IF mutexed /\ Len(members) >= size THEN members
                  ELSE Append(members, member[c])
    /\ member' = [member EXCEPT ![c] = NULL]
    /\ Go(c, "outside")
    /\ UNCHANGED <<mutexed, size, dirty>>

\* Timeout, Thread#raise or Thread#kill outside of the block: no member yet,
\* or the rest of `ensure` is skipped and the member is lost.
Interrupted(c) ==
    /\ pc[c] \in {"new_member", "reset", "push"}
    /\ member' = [member EXCEPT ![c] = NULL]
    /\ Go(c, "outside")
    /\ UNCHANGED <<mutexed, size, members, dirty>>

Step(c) == Pop(c) \/ PopNil(c) \/ NewMember(c) \/ Yield(c) \/ Check(c)
           \/ Ensure(c) \/ Reset(c) \/ Push(c) \/ Interrupted(c)

Next == \E c \in Call : Step(c)

Spec == Init /\ [][Next]_vars
-----------------------------------------------------------------------------
\* A packer is used by one call at a time: whoever takes it has it alone, and
\* it is in the pool once or not at all.
Exclusive ==
    /\ \A c, d \in Call : c # d /\ member[c] # NULL => member[c] # member[d]
    /\ Pooled \cap Held = {}
    /\ \A i, j \in DOMAIN members : i # j => members[i] # members[j]

\* Nothing that an earlier call left behind is in a packer of the pool, also
\* if the call raised or was interrupted.
PooledClean == Pooled \cap dirty = {}

\* With the mutex the pool keeps `size` members at most.  Without it calls may
\* have looked at the size before others pushed: each of them may add one.
Leaving == {c \in Call : pc[c] \in {"reset", "push"}}
Bounded ==
    IF mutexed THEN Len(members) <= size
    ELSE IF size = 0 THEN members = <<>>
    ELSE Len(members) + Cardinality(Leaving) <= size + Cardinality(Call) - 1
=============================================================================
