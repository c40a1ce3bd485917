------------------------------- MODULE MCPool -------------------------------
(* Model checking of Pool.  Packers are interchangeable, and so are calls. *)
EXTENDS Pool, TLC

Symmetry == Permutations(Member) \cup Permutations(Call)
=============================================================================
