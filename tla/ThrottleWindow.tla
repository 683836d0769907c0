---------------------------- MODULE ThrottleWindow ----------------------------
(***************************************************************************)
(* The rate-limiting decision of src/common/throttler/throttle-window.ts,  *)
(* which the code keeps as one pure function, advanceThrottleWindow.       *)
(*                                                                         *)
(* A missing window (`current === null`) is NoWindow: its end, 0, lies at  *)
(* or before every instant, so the code's two reasons to start afresh,     *)
(* "no window" and "window over", are one test.                            *)
(***************************************************************************)
EXTENDS Integers

\* What a route asks for (ThrottleLimits).
CONSTANTS Ttl,            \* length of a window
          Limit,          \* requests let through per window
          BlockDuration   \* how long a key over the limit is refused

ASSUME ThrottleAssumption ==
    /\ Ttl \in Nat \ {0}
    /\ Limit \in Nat
    /\ BlockDuration \in Nat \ {0}

Windows == [totalHits : Nat, windowEndsAt : Nat, blockedUntil : Nat]

NoWindow == [totalHits |-> 0, windowEndsAt |-> 0, blockedUntil |-> 0]

FreshWindow(now) ==
    [totalHits |-> 0, windowEndsAt |-> now + Ttl, blockedUntil |-> 0]

\* Mutant: a window ends one tick early.
WindowOver_Early(w, now) ==
    \/ w.windowEndsAt <= now + 1
    \/ w.blockedUntil > 0 /\ w.blockedUntil <= now

\* A window is over when its time is up, or when a block inside it has run out.
WindowOver(w, now) ==
    \/ w.windowEndsAt <= now
    \/ w.blockedUntil > 0 /\ w.blockedUntil <= now

CurrentWindow(w, now) ==
    IF WindowOver(w, now) THEN FreshWindow(now) ELSE w

\* A blocked key accumulates no hits.
CountHit(w) ==
    IF w.blockedUntil = 0 THEN [w EXCEPT !.totalHits = @ + 1] ELSE w

BlockOverLimit(w, now) ==
    IF w.totalHits > Limit /\ w.blockedUntil = 0
    THEN [w EXCEPT !.blockedUntil = now + BlockDuration]
    ELSE w

AdvanceThrottleWindow(w, now) ==
    BlockOverLimit(CountHit(CurrentWindow(w, now)), now)

IsBlocked(w, now) == w.blockedUntil > now
===============================================================================
