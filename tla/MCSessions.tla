------------------------------- MODULE MCSessions -------------------------------
(* An instance of Sessions for TLC.  The symmetry is sound for invariants   *)
(* and for action properties.                                               *)
EXTENDS Sessions, TLC

SessionSymmetry == Permutations(Codes) \cup Permutations(Exchanges)
===============================================================================
