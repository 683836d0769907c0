------------------------------ MODULE MCOAuthPopup ------------------------------
(* Instances of OAuthPopup for TLC. *)
EXTENDS OAuthPopup, TLC

\* Sound for invariants and for action properties.
BrowserSymmetry == Permutations(Popups) \cup Permutations(Providers) \cup Permutations(Users)
===============================================================================
