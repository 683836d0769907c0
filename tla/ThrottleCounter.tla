---------------------------- MODULE ThrottleCounter ----------------------------
(***************************************************************************)
(* What the rate limiter promises for one key: every request that is       *)
(* counted is counted atomically, against the latest state, at an instant  *)
(* no earlier than the last change of that state.  The storage that talks  *)
(* to DynamoDB (ThrottlerStorage) is shown to implement this module.       *)
(*                                                                         *)
(* The one exception is a request that has looked at a window which is     *)
(* forgotten before it is done: such a late request may take the window    *)
(* that has begun since for the one it knows, and overwrite it.            *)
(*                                                                         *)
(* A request the store could not count is let through unmetered: the code  *)
(* fails open on purpose (dynamodb-throttler-storage.ts 100-117).          *)
(***************************************************************************)
EXTENDS ThrottleWindow

CONSTANTS Requests,       \* concurrent requests that share one throttler key
          MaxClock        \* bound: the clock stops here

VARIABLES clock,      \* real time, read by every instance
          window,     \* the state of the key
          changedAt,  \* when window last changed
          status,     \* what became of each request
          admitted,   \* counted requests let through in the current window
          late,       \* waiting requests that know a window since forgotten
          overwrites  \* how often such a request overwrote the current window

vars == <<clock, window, changedAt, status, admitted, late, overwrites>>

Answers == {"admitted", "refused", "unmetered"}

TypeOK ==
    /\ clock \in Nat
    /\ window \in Windows
    /\ changedAt \in Nat
    /\ status \in [Requests -> Answers \cup {"idle", "waiting"}]
    /\ admitted \in Nat
    /\ late \subseteq Requests
    /\ overwrites \in Nat

Init ==
    /\ clock = 0
    /\ window = NoWindow
    /\ changedAt = 0
    /\ status = [r \in Requests |-> "idle"]
    /\ admitted = 0
    /\ late = {}
    /\ overwrites = 0

Tick ==
    /\ clock < MaxClock
    /\ clock' = clock + 1
    /\ UNCHANGED <<window, changedAt, status, admitted, late, overwrites>>

Arrive(r) ==
    /\ status[r] # "waiting"
    /\ status' = [status EXCEPT ![r] = "waiting"]
    /\ UNCHANGED <<clock, window, changedAt, admitted, late, overwrites>>

\* Counted requests, and overwritings, of the window that a hit at instant `now`
\* falls into.
AdmittedBefore(now) == IF WindowOver(window, now) THEN 0 ELSE admitted
OverwritesBefore(now) == IF WindowOver(window, now) THEN 0 ELSE overwrites

\* The request is answered by the verdict; or its answer is lost, and it either
\* goes on waiting, and may be counted again, or is let through unmetered.
Answer(r, now) ==
    \/ /\ IsBlocked(window', now)
       /\ status' = [status EXCEPT ![r] = "refused"]
       /\ admitted' = AdmittedBefore(now)
    \/ /\ ~IsBlocked(window', now)
       /\ status' = [status EXCEPT ![r] = "admitted"]
       /\ admitted' = AdmittedBefore(now) + 1
    \/ /\ \E s \in {"waiting", "unmetered"} : status' = [status EXCEPT ![r] = s]
       /\ admitted' = AdmittedBefore(now)

\* The request is counted at instant `now`.
Count(r, now) ==
    /\ status[r] = "waiting"
    /\ now \in changedAt .. clock
    /\ window' = AdvanceThrottleWindow(window, now)
    /\ changedAt' = now
    /\ Answer(r, now)
    /\ late' = late \ {r}
    /\ overwrites' = OverwritesBefore(now)
    /\ UNCHANGED clock

\* What a hit at instant `now` makes of whatever window it knows.
LeftByHit(w, now) ==
    /\ w.totalHits \in 1 .. Limit + 1
    /\ w.windowEndsAt \in now + 1 .. now + Ttl
    /\ IF w.totalHits > Limit
       THEN w.blockedUntil \in now + 1 .. now + BlockDuration
       ELSE w.blockedUntil = 0

\* A late request puts what it has made of the window it knows in the place of
\* the current one, and erases the hits counted there.
Overwrite(r, now) ==
    /\ r \in late
    /\ now \in 0 .. clock
    /\ window' \in Windows
    /\ LeftByHit(window', now)
    /\ changedAt' = now
    /\ Answer(r, now)
    /\ late' = late \ {r}
    /\ overwrites' = OverwritesBefore(now) + 1
    /\ UNCHANGED clock

\* A late request looks again, and is late no more.
LookAgain(r) ==
    /\ r \in late
    /\ late' = late \ {r}
    /\ UNCHANGED <<clock, window, changedAt, status, admitted, overwrites>>

LetThrough(r) ==
    /\ status[r] = "waiting"
    /\ status' = [status EXCEPT ![r] = "unmetered"]
    /\ late' = late \ {r}
    /\ UNCHANGED <<clock, window, changedAt, admitted, overwrites>>

\* A window that is over may be dropped from the store, whoever knows it.
Forget ==
    /\ WindowOver(window, clock)
    /\ window' = NoWindow
    /\ changedAt' = 0
    /\ admitted' = 0
    /\ overwrites' = 0
    /\ \E S \in SUBSET {r \in Requests : status[r] = "waiting"} : late' = late \cup S
    /\ UNCHANGED <<clock, status>>

Next ==
    \/ Tick
    \/ Forget
    \/ \E r \in Requests :
          \/ Arrive(r)
          \/ LookAgain(r)
          \/ LetThrough(r)
          \/ \E now \in 0 .. clock : Count(r, now) \/ Overwrite(r, now)

Spec == Init /\ [][Next]_vars

(***************************************************************************)
(* A window lets through at most Limit of the requests it counts, however  *)
(* the requests interleave (throttle-window.ts 70-76); each overwriting    *)
(* hands out at most one more budget.                                      *)
(***************************************************************************)
AdmittedWithinLimit == admitted <= Limit * (1 + overwrites)

(***************************************************************************)
(* A blocked key accumulates no hits (throttle-window.ts 39-40, 70-72): a  *)
(* block starts with the first hit over the limit, and the count stays     *)
(* there for as long as the block is recorded.                             *)
(***************************************************************************)
HitsStopAtBlock ==
    /\ window.totalHits <= Limit + 1
    /\ window.blockedUntil > 0 <=> window.totalHits = Limit + 1
===============================================================================
