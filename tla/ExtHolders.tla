----------------------------- MODULE ExtHolders -----------------------------
(* The objects that have registries of extension types. *)
EXTENDS FiniteSets

CONSTANTS
    Holder,     \* factories, packers and unpackers
    NULL        \* the null pointer, Qnil

ASSUME HolderAssumption == /\ IsFiniteSet(Holder)
                           /\ NULL \notin Holder

VARIABLE alive  \* the objects that exist and are not collected yet
=============================================================================
