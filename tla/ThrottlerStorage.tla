---------------------------- MODULE ThrottlerStorage ----------------------------
(***************************************************************************)
(* DynamoDbThrottlerStorage.increment                                      *)
(* (src/common/throttler/dynamodb-throttler-storage.ts): concurrent        *)
(* requests, in any number of processes, count themselves in one DynamoDB  *)
(* item by optimistic concurrency on its `version`.                        *)
(*                                                                         *)
(* One attempt is three steps that other requests interleave with: the     *)
(* consistent read, the decision (which samples the clock once the read    *)
(* has returned), and the conditional write.                               *)
(*                                                                         *)
(* A missing item is NoItem, version 0.  Written versions start at 1, so   *)
(* `attribute_not_exists(pk)` and `version = :version` are both the test   *)
(* that the stored version is the one read.                                *)
(*                                                                         *)
(* They start at 1 again once the item has been deleted.  A request that   *)
(* holds an item deleted since (`late`) may therefore find its version     *)
(* stored once more, in an item it has never seen.                         *)
(***************************************************************************)
EXTENDS ThrottleWindow

CONSTANTS Requests,       \* concurrent requests that share one throttler key
          MaxAttempts,    \* MAX_ATTEMPTS: conditional writes per request
          Grace,          \* GARBAGE_COLLECTION_GRACE_SECONDS
          MaxClock,       \* bound: the clock stops here
          MaxChanges      \* bound: no request starts after this many of the item

ASSUME StorageAssumption ==
    /\ MaxAttempts \in Nat \ {0}
    /\ Grace \in Nat
    /\ MaxClock \in Nat
    /\ MaxChanges \in Nat

VARIABLES clock,      \* Date.now()
          item,       \* the DynamoDB item of the key
          pc,         \* where each request is, or how it was answered
          attempt,    \* the loop counter of each request
          snapshot,   \* the item each request has read
          at,         \* `now`, as each request sampled it
          changedAt,  \* history: the `now` the stored item was written with
          admitted,   \* history: counted requests let through in the window
          late,       \* history: requests that hold an item deleted since
          overwrites, \* history: how often such a request overwrote the window
          changes,    \* history: writes and deletions of the item so far
          base        \* history: those made when a request started

storeVars == <<item, changedAt, admitted, overwrites, changes>>
vars == <<clock, item, pc, attempt, snapshot, at, changedAt, admitted, late,
          overwrites, changes, base>>

Items == [window : Windows, version : Nat]
NoItem == [window |-> NoWindow, version |-> 0]

Answers == {"admitted", "refused", "unmetered"}
InFlight == {"reading", "deciding", "writing"}

TypeInvariant ==
    /\ clock \in Nat
    /\ item \in Items
    /\ pc \in [Requests -> Answers \cup InFlight \cup {"idle"}]
    /\ attempt \in [Requests -> Nat]
    /\ snapshot \in [Requests -> Items]
    /\ at \in [Requests -> Nat]
    /\ changedAt \in Nat
    /\ admitted \in Nat
    /\ late \subseteq Requests
    /\ overwrites \in Nat
    /\ changes \in Nat
    /\ base \in [Requests -> Nat]

Init ==
    /\ clock = 0
    /\ item = NoItem
    /\ pc = [r \in Requests |-> "idle"]
    /\ attempt = [r \in Requests |-> 0]
    /\ snapshot = [r \in Requests |-> NoItem]
    /\ at = [r \in Requests |-> 0]
    /\ changedAt = 0
    /\ admitted = 0
    /\ late = {}
    /\ overwrites = 0
    /\ changes = 0
    /\ base = [r \in Requests |-> 0]

Tick ==
    /\ clock < MaxClock
    /\ clock' = clock + 1
    /\ UNCHANGED <<pc, attempt, snapshot, at, late, base>>
    /\ UNCHANGED storeVars

-------------------------------------------------------------------------------
\* The guard calls increment for a new request.
Start(r) ==
    /\ pc[r] \notin InFlight
    /\ changes < MaxChanges
    /\ pc' = [pc EXCEPT ![r] = "reading"]
    /\ attempt' = [attempt EXCEPT ![r] = 0]
    /\ base' = [base EXCEPT ![r] = changes]
    /\ UNCHANGED <<clock, snapshot, at, late>>
    /\ UNCHANGED storeVars

\* What a request read is forgotten once its attempt is over.
EndAttempt(r) ==
    /\ snapshot' = [snapshot EXCEPT ![r] = NoItem]
    /\ at' = [at EXCEPT ![r] = 0]
    /\ late' = late \ {r}

Read(r) ==
    /\ pc[r] = "reading"
    /\ snapshot' = [snapshot EXCEPT ![r] = item]
    /\ pc' = [pc EXCEPT ![r] = "deciding"]
    /\ UNCHANGED <<clock, attempt, at, late, base>>
    /\ UNCHANGED storeVars

\* Mutant: only the first attempt reads the clock.
Decide_ClockOnce(r) ==
    /\ pc[r] = "deciding"
    /\ at' = IF attempt[r] = 0 THEN [at EXCEPT ![r] = clock] ELSE at
    /\ pc' = [pc EXCEPT ![r] = "writing"]
    /\ UNCHANGED <<clock, attempt, snapshot, late, base>>
    /\ UNCHANGED storeVars

Decide(r) ==
    /\ pc[r] = "deciding"
    /\ at' = [at EXCEPT ![r] = clock]
    /\ pc' = [pc EXCEPT ![r] = "writing"]
    /\ UNCHANGED <<clock, attempt, snapshot, late, base>>
    /\ UNCHANGED storeVars

\* `next`, the window the request is about to write.
NextWindow(r) ==
    AdvanceThrottleWindow(snapshot[r].window, at[r])

\* Mutant: the write carries no condition.
Unchanged_Unconditional(r) == TRUE

\* ConditionExpression: nobody wrote the item since it was read.
Unchanged(r) == item.version = snapshot[r].version

\* A request that has read the item and not yet written it.
Holds(r) == pc[r] \in {"deciding", "writing"}

\* History: counted requests, and overwritings, of the window that this write
\* falls into.
AdmittedBefore(r) ==
    IF WindowOver(item.window, at[r]) THEN 0 ELSE admitted
OverwritesBefore(r) ==
    IF WindowOver(item.window, at[r]) THEN 0 ELSE overwrites

\* History: when the item was written, and whether on an older one's account.
Note(r) ==
    /\ changedAt' = at[r]
    /\ changes' = changes + 1
    /\ overwrites' = OverwritesBefore(r) + (IF r \in late THEN 1 ELSE 0)

\* Mutant: only the first write sets the version.
Put_KeepsVersion(r) ==
    /\ item' = [window |-> NextWindow(r),
                version |-> IF snapshot[r].version = 0 THEN 1 ELSE snapshot[r].version]
    /\ Note(r)

\* What the store does with a write whose condition holds.
Put(r) ==
    /\ item' = [window |-> NextWindow(r), version |-> snapshot[r].version + 1]
    /\ Note(r)

Write(r) ==
    /\ pc[r] = "writing"
    /\ Unchanged(r)
    /\ Put(r)
    /\ IF IsBlocked(NextWindow(r), at[r])
       THEN /\ pc' = [pc EXCEPT ![r] = "refused"]
            /\ admitted' = AdmittedBefore(r)
       ELSE /\ pc' = [pc EXCEPT ![r] = "admitted"]
            /\ admitted' = AdmittedBefore(r) + 1
    /\ EndAttempt(r)
    /\ UNCHANGED <<clock, attempt, base>>

\* Mutant: a lost round writes again without reading again.
Retry_WithoutReading(r) ==
    /\ attempt' = [attempt EXCEPT ![r] = @ + 1]
    /\ pc' = [pc EXCEPT ![r] =
                IF attempt[r] + 1 < MaxAttempts THEN "writing" ELSE "unmetered"]
    /\ UNCHANGED <<clock, base, snapshot, at, late>>

\* ConditionalCheckFailedException: another round, or, after the last one,
\* the request passes uncounted.
Retry(r) ==
    /\ attempt' = [attempt EXCEPT ![r] = @ + 1]
    /\ pc' = [pc EXCEPT ![r] =
                IF attempt[r] + 1 < MaxAttempts THEN "reading" ELSE "unmetered"]
    /\ EndAttempt(r)
    /\ UNCHANGED <<clock, base>>

\* Mutant: a lost conditional write is taken for a counted hit.
WriteConflict_Answers(r) ==
    /\ pc[r] = "writing"
    /\ ~Unchanged(r)
    /\ pc' = [pc EXCEPT ![r] = "admitted"]
    /\ EndAttempt(r)
    /\ UNCHANGED <<clock, attempt, base>>
    /\ UNCHANGED storeVars

WriteConflict(r) ==
    /\ pc[r] = "writing"
    /\ ~Unchanged(r)
    /\ Retry(r)
    /\ UNCHANGED storeVars

\* Any other error of a read or a write: the outer catch lets the request pass.
FailOpen(r) ==
    /\ pc' = [pc EXCEPT ![r] = "unmetered"]
    /\ EndAttempt(r)
    /\ UNCHANGED <<clock, attempt, base>>

\* Mutant: every error is retried, not only a lost round.
StoreFails_Retries(r) ==
    /\ pc[r] \in {"reading", "writing"}
    /\ pc' = [pc EXCEPT ![r] = "reading"]
    /\ EndAttempt(r)
    /\ UNCHANGED <<clock, attempt, base>>
    /\ UNCHANGED storeVars

StoreFails(r) ==
    /\ pc[r] \in {"reading", "writing"}
    /\ FailOpen(r)
    /\ UNCHANGED storeVars

\* The write is applied but its answer is lost.  The SDK sends it again and the
\* request then loses to its own write; or the SDK gives up and the error
\* reaches increment.
WriteUnacknowledged(r) ==
    /\ pc[r] = "writing"
    /\ Unchanged(r)
    /\ Put(r)
    /\ admitted' = AdmittedBefore(r)
    /\ Retry(r) \/ FailOpen(r)

Step(r) ==
    \/ Read(r)
    \/ Decide(r)
    \/ Write(r)
    \/ WriteConflict(r)
    \/ WriteUnacknowledged(r)
    \/ StoreFails(r)

\* Mutant: the grace is counted from the write, not from the window's end.
ExpiresAt_FromWrite == changedAt + Grace

ExpiresAt == item.window.windowEndsAt + Grace

\* DynamoDB deletes an item at some time after `expiresAt`, whoever has read it
\* meanwhile.
Sweep ==
    /\ item # NoItem
    /\ ExpiresAt <= clock
    /\ item' = NoItem
    /\ changedAt' = 0
    /\ admitted' = 0
    /\ overwrites' = 0
    /\ changes' = changes + 1
    /\ late' = late \cup {r \in Requests : Holds(r) /\ snapshot[r] # NoItem}
    /\ UNCHANGED <<clock, pc, attempt, snapshot, at, base>>

Next ==
    \/ Tick
    \/ Sweep
    \/ \E r \in Requests : Start(r) \/ Step(r)

Spec == Init /\ [][Next]_vars

\* Every await ends: the SDK bounds each call, and the event loop then resumes
\* the handler.  Nothing makes new requests arrive or the store answer well.
Fairness == \A r \in Requests : WF_vars(Step(r))

FairSpec == Spec /\ Fairness

-------------------------------------------------------------------------------
(***************************************************************************)
(* "Write if nothing changed underneath" (dynamodb-throttler-storage.ts    *)
(* 44-45), as far as it goes: a request whose conditional write would      *)
(* succeed holds the item that is stored, unless the one it has read was   *)
(* deleted and the next has come to the same version (163, 166-173).       *)
(***************************************************************************)
WritesBuildOnStoredState ==
    \A r \in Requests \ late :
        Holds(r) /\ Unchanged(r) => snapshot[r] = item

(***************************************************************************)
(* A hit is never counted with a clock reading older than the item it      *)
(* replaces, with the same exception: the clock is sampled after the read  *)
(* (increment, 67-68).                                                     *)
(***************************************************************************)
WritesInClockOrder ==
    \A r \in Requests \ late :
        pc[r] = "writing" /\ Unchanged(r) => at[r] >= changedAt

(***************************************************************************)
(* A window lets through at most Limit of the requests it counts, whatever *)
(* the interleaving of their reads and writes (increment, 56-87), and at   *)
(* most Limit more for each request that took it for a deleted one.        *)
(***************************************************************************)
AdmittedWithinLimit == admitted <= Limit * (1 + overwrites)

(***************************************************************************)
(* A request is let through uncounted for contention only after the item   *)
(* has changed as often as it has attempts: each lost round is somebody's  *)
(* hit that did count (increment, 84-86), or the deletion of an item that  *)
(* was over.                                                               *)
(***************************************************************************)
LostRoundsAreChanges ==
    \A r \in Requests : attempt[r] <= changes - base[r]

(***************************************************************************)
(* Every request gets an answer, however the store fails and however hot   *)
(* the key is (increment, 65-117).                                         *)
(***************************************************************************)
EveryRequestAnswered ==
    \A r \in Requests : pc[r] \in InFlight ~> pc[r] \in Answers

-------------------------------------------------------------------------------
\* Refinement: a request in flight is waiting, an answered one has its answer.
\* The clock, the histories and `late` are the counter's own.
Counter == INSTANCE ThrottleCounter
    WITH window <- item.window,
         status <- [r \in Requests |->
                       IF pc[r] \in InFlight THEN "waiting" ELSE pc[r]]

(***************************************************************************)
(* The read / decide / conditional-write loop counts each request as if it *)
(* were one atomic step (increment, 56-118); a request that holds a        *)
(* deleted item may overwrite what others have counted, and nobody else    *)
(* may.                                                                    *)
(***************************************************************************)
ImplementsCounter == Counter!Spec
===============================================================================
