------------------------------ MODULE MCMeshnet ------------------------------
(* Model checking instances of Meshnet.  The handlers are interchangeable.    *)
EXTENDS Meshnet, TLC

Symmetry == Permutations(Calls)
=============================================================================
