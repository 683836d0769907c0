------------------------------- MODULE MCArticles -------------------------------
(* Instances of Articles for TLC. *)
EXTENDS Articles, TLC

\* Edits are interchangeable, and so are keys; sound for invariants and for
\* action properties.
RequestSymmetry == Permutations(Edits) \cup Permutations(Keys)
===============================================================================
