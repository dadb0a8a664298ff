-------------------------- MODULE MCConnectionArray --------------------------
(* ConnectionArray on small arrays.  Owners are interchangeable.           *)
EXTENDS ConnectionArray, TLC

Symmetry == Permutations(Owners)
=============================================================================
