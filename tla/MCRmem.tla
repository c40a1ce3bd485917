------------------------------- MODULE MCRmem -------------------------------
(* Model checking of Rmem: the regions are interchangeable addresses. *)
EXTENDS Rmem, TLC

Symmetry == Permutations(Regions)
=============================================================================
