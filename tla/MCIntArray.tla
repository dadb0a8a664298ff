------------------------------ MODULE MCIntArray ------------------------------
(* IntArray with small capacities, so that it grows, shrinks and regrows.  *)
EXTENDS IntArray, TLC
=============================================================================
