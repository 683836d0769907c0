------------------------------- MODULE Admission -------------------------------
(***************************************************************************)
(* The way of a request to a handler: the edge guard                       *)
(* (src/common/edge/edge-origin.guard.ts), the address it is charged to    *)
(* (src/common/throttler/client-tracker.ts) and the window of that address *)
(* in the store the process was given (throttler-storage.factory.ts), in   *)
(* the order of app.module.ts.                                             *)
(*                                                                         *)
(* Visitors are network addresses.  One route is modelled; every route has *)
(* windows of its own.  That a hit is one atomic step is ThrottlerStorage; *)
(* what a deleted item makes of it is the same as an item that is over.    *)
(***************************************************************************)
EXTENDS ThrottleWindow, Sequences

CONSTANTS Visitors,       \* addresses that requests come from
          Ports,          \* the ports they come from
          Processes,      \* instances of the API
          Configs,        \* environments they may be started with
          Table,          \* the DynamoDB table, as a store
          Missing,        \* a header that is not there
          MaxTime         \* bound: time stops here

ASSUME AdmissionAssumption ==
    /\ Limit > 0
    /\ BlockDuration >= Ttl   \* the default of ThrottlerGuard; no route sets another
    /\ MaxTime \in Nat
    /\ Configs \subseteq [secret : BOOLEAN, table : BOOLEAN, running : SUBSET Processes]
    /\ Table \notin Processes
    /\ Missing \notin Processes \cup {Table}

VARIABLES time,
          config,     \* is there a secret, is there a table, who runs
          forwards,   \* does the CDN forward the viewer's address?
          windows,    \* per store and key: the window and when it last changed
          reported,   \* has a process reported a missing viewer address?
          watched,    \* history: a visitor ...
          passed,     \* ... when its requests were counted and let through, ...
          charged,    \* ... when they were charged at all, both newest first, ...
          refused     \* ... and where it has just been refused

logs == <<passed, charged, refused>>
admissionVars == <<time, config, forwards, windows, reported, watched, logs>>

Stores == Processes \cup {Table}

\* Keys of windows: addresses, unless something goes wrong with them.
Keys == Visitors \cup (Visitors \X Ports)
NoHits == [window |-> NoWindow, changedAt |-> 0]

\* Mutant: the library's storage, in the process, though there is a table.
StoreOf_InProcess(p) == p

\* (A table without a region is no environment: no process starts in it.)
StoreOf(p) == IF config.table THEN Table ELSE p

\* Whose budget a request to p is part of: everybody's, if there is a table.
BudgetOf(p) == IF config.table THEN Table ELSE p

AdmissionInit ==
    /\ time = 0
    /\ config \in Configs
    /\ forwards = TRUE
    /\ windows = [s \in Stores |-> [k \in Keys |-> NoHits]]
    /\ reported = FALSE
    /\ watched \in Visitors
    /\ passed = [s \in Stores |-> <<>>]
    /\ charged = passed
    /\ refused = Missing

-------------------------------------------------------------------------------
(* What a request brings.                                                  *)

\* X-Forwarded-For begins with whatever the visitor made it begin with.  With no
\* CDN, and so no secret, whatever stands in front is taken at its word.
Forwarded(v) == IF config.secret THEN Visitors ELSE {v}

\* CloudFront adds the secret and, if told to, the address it answers.
ThroughEdge(v) ==
    {[secret |-> "right", forwarded |-> a,
      viewer |-> IF forwards THEN <<v, n>> ELSE Missing] : a \in Forwarded(v), n \in Ports}

\* Whoever calls the origin directly sends the headers of its choice, the
\* secret excepted.  (A header sent twice is not a string.)
Direct(v) ==
    [secret : {"none", "wrong", "twice"}, forwarded : Forwarded(v),
     viewer : (Visitors \X Ports) \cup {Missing}]

-------------------------------------------------------------------------------
(* The guards.                                                             *)

\* Mutant: the guard only asks whether the header is there.
EdgeOriginGuard_AnyHeader(q) == config.secret => q.secret # "none"

EdgeOriginGuard(q) == config.secret => q.secret = "right"

CameThroughEdge(q) == config.secret /\ q.secret = "right"

\* Mutant: the port stays.
WithoutPort_KeepsPort(viewer) == viewer

WithoutPort(viewer) == viewer[1]

\* Mutant: request.ip, the library's default.
ResolveClientTracker_RequestIp(q) == q.forwarded

ResolveClientTracker(q) ==
    IF CameThroughEdge(q) /\ q.viewer # Missing THEN WithoutPort(q.viewer)
                                                ELSE q.forwarded

\* Mutant: a missing header goes unreported.
Warns_Never(q) == FALSE

Warns(q) == CameThroughEdge(q) /\ q.viewer = Missing

\* Bound: no property looks further back than this.
Remembered == 2 * Limit

Newest(log, now) ==
    <<now>> \o (IF Len(log) < Remembered THEN log ELSE SubSeq(log, 1, Remembered - 1))

Logged(logOf, p, now) == [logOf EXCEPT ![BudgetOf(p)] = Newest(@, now)]

\* What the watched visitor is told, or that its answer was lost and it was let
\* through uncounted.
Answer(p, isBlocked, now) ==
    \/ isBlocked /\ refused' = BudgetOf(p) /\ UNCHANGED passed
    \/ ~isBlocked /\ passed' = Logged(passed, p, now) /\ refused' = Missing
    \/ config.table /\ refused' = Missing /\ UNCHANGED passed

\* The hit of v counts at instant `now` in the window of key k.
Hit(p, v, k, now) ==
    LET s == StoreOf(p)
        next == AdvanceThrottleWindow(windows[s][k].window, now)
    IN
    /\ windows' = [windows EXCEPT ![s][k] = [window |-> next, changedAt |-> now]]
    /\ IF v = watched
       THEN charged' = Logged(charged, p, now) /\ Answer(p, IsBlocked(next, now), now)
       ELSE refused' = Missing /\ UNCHANGED <<passed, charged>>

\* The clock was read once the window had been, and in one process both are one.
Samples(p, k) ==
    IF config.table THEN windows[StoreOf(p)][k].changedAt .. time ELSE {time}

\* A request of v reaches process p.  One that the edge guard turns away, or
\* that the table could not count, leaves no trace.
\* (Bound: once somebody has reported that it cannot tell the visitors apart,
\* nothing more is asked.)
Admit(p, v) ==
    /\ ~reported
    /\ \E charge \in {[key |-> ResolveClientTracker(q), warns |-> Warns(q)] :
                       q \in {x \in ThroughEdge(v) \cup Direct(v) : EdgeOriginGuard(x)}} :
           /\ \E now \in Samples(p, charge.key) : Hit(p, v, charge.key, now)
           /\ reported' = charge.warns
           /\ UNCHANGED <<time, config, forwards, watched>>

TimePasses ==
    /\ time < MaxTime
    /\ time' = time + 1
    /\ refused' = Missing
    /\ UNCHANGED <<config, forwards, windows, reported, watched, passed, charged>>

\* What a process has counted dies with it.
Restart(p) ==
    /\ windows' = [windows EXCEPT ![p] = [k \in Keys |-> NoHits]]
    /\ passed' = [passed EXCEPT ![p] = <<>>]
    /\ charged' = [charged EXCEPT ![p] = <<>>]
    /\ refused' = Missing
    /\ UNCHANGED <<time, config, forwards, reported, watched>>

\* Somebody changes what the CDN forwards.
ChangePolicy ==
    /\ forwards' = ~forwards
    /\ UNCHANGED <<time, config, windows, reported, watched, logs>>

AdmissionNext ==
    \/ TimePasses
    \/ ChangePolicy
    \/ \E p \in config.running : Restart(p) \/ \E v \in Visitors : Admit(p, v)

AdmissionSpec == AdmissionInit /\ [][AdmissionNext]_admissionVars

-------------------------------------------------------------------------------
(***************************************************************************)
(* With the default block (blockDuration = ttl, throttle-window.ts 44) no  *)
(* stretch of time as long as one window sees two full windows' worth of   *)
(* requests of one visitor, whatever it claims to be, whichever process    *)
(* answers it, and though processes restart: from any of its requests to   *)
(* the one that makes it 2 * Limit, a window passes.  A window opens with  *)
(* a hit, so a stretch that cuts into one misses at least that hit.        *)
(* Without a table that is true of each process (client-tracker.ts 26-48,  *)
(* throttler-storage.factory.ts 29-35, throttle-window.ts 62-76).          *)
(***************************************************************************)
BudgetPerInterval ==
    ~reported => \A s \in Stores :
        Len(passed[s]) = 2 * Limit => passed[s][1] - passed[s][2 * Limit] >= Ttl

(***************************************************************************)
(* Nobody pays for others: whoever is refused has itself sent more than    *)
(* the limit within the length of a window, up to this request             *)
(* (client-tracker.ts 49-71, edge-origin.guard.ts 51-67).                  *)
(***************************************************************************)
RefusalsAreEarned ==
    ~reported /\ refused # Missing =>
        /\ Len(charged[refused]) > Limit
        /\ charged[refused][1] - charged[refused][Limit + 1] < Ttl
===============================================================================
