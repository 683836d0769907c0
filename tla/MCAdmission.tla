------------------------------ MODULE MCAdmission ------------------------------
(* An instance of Admission for TLC: two processes that share the table,   *)
(* or one that counts by itself.                                           *)
EXTENDS Admission, TLC

CONSTANTS i1, i2

MCConfigs ==
    [secret : BOOLEAN, table : {TRUE}, running : {{i1, i2}}]
        \cup [secret : BOOLEAN, table : {FALSE}, running : {{i1}}]

\* Visitors and ports are all alike.
Symmetry == Permutations(Visitors) \cup Permutations(Ports)
===============================================================================
