------------------------------ MODULE MCBackend ------------------------------
(***************************************************************************)
(* Four POSTs, of which one has a longer entry and one is malformed, and   *)
(* two GETs.                                                               *)
(***************************************************************************)
EXTENDS Backend, TLC

CONSTANTS p1, p2, long, bad, g1, g2

MCSymmetry == Permutations({p1, p2}) \cup Permutations({g1, g2})
==============================================================================
