------------------------------- MODULE MCComments -------------------------------
(* An instance of Comments for TLC.  The symmetry is sound for invariants   *)
(* and for action properties.                                               *)
EXTENDS Comments, TLC

CommentsSymmetry ==
    Permutations(Requests) \cup Permutations(Posts) \cup Permutations(CommentIds)
===============================================================================
