------------------------------- MODULE MCAccounts -------------------------------
(* Instances of Accounts for TLC. *)
EXTENDS Accounts, TLC

\* Sound for invariants and for action properties.
AccountSymmetry == Permutations(Requests) \cup Permutations(Users)
    \cup Permutations(Ids) \cup Permutations(Pictures)
===============================================================================
