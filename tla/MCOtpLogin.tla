------------------------------- MODULE MCOtpLogin -------------------------------
(* Instances of OtpLogin for TLC. *)
EXTENDS OtpLogin, TLC

\* Handlers of a kind are interchangeable; sound for invariants.
HandlerSymmetry == Permutations(Requests) \cup Permutations(Verifies)
===============================================================================
