------------------------------ MODULE OneTimeCode ------------------------------
(***************************************************************************)
(* What a login code promises: it is issued once, it is accepted at most   *)
(* once and only before its deadline, and whatever then becomes of it, it  *)
(* never comes back.                                                       *)
(***************************************************************************)
EXTENDS Integers

CONSTANTS Codes,    \* the codes that can be issued
          CodeTtl,  \* no code is good for longer than this
          MaxClock  \* bound: the clock stops here

VARIABLES clock,
          life,     \* how far each code has come
          deadline  \* until when an issued code is accepted

vars == <<clock, life, deadline>>

Init ==
    /\ clock = 0
    /\ life = [c \in Codes |-> "unissued"]
    /\ deadline = [c \in Codes |-> 0]

Tick ==
    /\ clock < MaxClock
    /\ clock' = clock + 1
    /\ UNCHANGED <<life, deadline>>

Issue(c) ==
    /\ life[c] = "unissued"
    /\ life' = [life EXCEPT ![c] = "live"]
    /\ \E d \in 0 .. clock + CodeTtl : deadline' = [deadline EXCEPT ![c] = d]
    /\ UNCHANGED clock

Accept(c) ==
    /\ life[c] = "live"
    /\ clock <= deadline[c]
    /\ life' = [life EXCEPT ![c] = "accepted"]
    /\ UNCHANGED <<clock, deadline>>

Redeem(c) ==
    /\ life[c] = "accepted"
    /\ life' = [life EXCEPT ![c] = "redeemed"]
    /\ UNCHANGED <<clock, deadline>>

\* Codes that expire, are swept away or lose their account.
Void(S) ==
    /\ \A c \in S : life[c] \in {"live", "accepted"}
    /\ life' = [c \in Codes |-> IF c \in S THEN "void" ELSE life[c]]
    /\ UNCHANGED <<clock, deadline>>

Next ==
    \/ Tick
    \/ \E c \in Codes : Issue(c) \/ Accept(c) \/ Redeem(c)
    \/ \E S \in SUBSET Codes : Void(S)

Spec == Init /\ [][Next]_vars
===============================================================================
