-------------------------- MODULE ThrottlerStorageProofs --------------------------
(***************************************************************************)
(* Optimistic counting is correct for every number of concurrent requests, *)
(* limit, window length, number of attempts and grace; and what it counts  *)
(* keeps the budget of each visitor, for any processes and environments.   *)
(***************************************************************************)
EXTENDS ThrottlerStorage, Admission, TLAPS

Deciding == {"deciding", "writing"}

\* Version 0 is the item that is not there.
IsItem(i) == i \in Items /\ (i.version = 0 => i = NoItem)

\* The window of an item written by instant t: its count says whether the key is
\* blocked, and neither its end nor its block lies further off than a hit at t
\* would put them.
WindowFits(w, t) ==
    /\ w.totalHits <= Limit + 1
    /\ w.blockedUntil > 0 <=> w.totalHits = Limit + 1
    /\ w.windowEndsAt <= t + Ttl
    /\ w.blockedUntil <= t + BlockDuration

\* Unless it has been deleted, what a request holds is what is stored if the
\* version is, and an older state otherwise; and whoever holds another version,
\* or an item deleted since, has lost its round to a change.
SnapshotBelongs(r) ==
    /\ r \in late => snapshot[r].version > 0 /\ base[r] + attempt[r] + 1 <= changes
    /\ r \notin late => snapshot[r].version <= item.version
    /\ r \notin late /\ snapshot[r].version = item.version => snapshot[r] = item
    /\ snapshot[r].version # item.version => base[r] + attempt[r] + 1 <= changes
    /\ WindowFits(snapshot[r].window, clock)
    /\ pc[r] = "writing" =>
          /\ at[r] <= clock
          /\ r \notin late /\ snapshot[r].version = item.version => at[r] >= changedAt
          /\ WindowFits(snapshot[r].window, at[r])

IInv ==
    /\ TypeInvariant
    /\ changedAt <= clock
    /\ IsItem(item)
    /\ WindowFits(item.window, clock)
    /\ \A r \in Requests : IsItem(snapshot[r])
    /\ \A r \in late : pc[r] \in Deciding
    /\ \A r \in Requests : base[r] + attempt[r] <= changes
    /\ \A r \in Requests : pc[r] \in Deciding => SnapshotBelongs(r)

LEMMA AdvanceWindowType ==
    ASSUME NEW w \in Windows, NEW now \in Nat
    PROVE  AdvanceThrottleWindow(w, now) \in Windows
BY ThrottleAssumption DEF AdvanceThrottleWindow, BlockOverLimit, CountHit,
    CurrentWindow, FreshWindow, WindowOver, Windows

\* A hit starts a fresh window, adds one to an unblocked one, or leaves a blocked
\* one as it is.
LEMMA AdvanceIsLeftByHit ==
    ASSUME NEW w \in Windows, NEW now \in Nat, WindowFits(w, now)
    PROVE  Counter!LeftByHit(AdvanceThrottleWindow(w, now), now)
<1> USE ThrottleAssumption DEF Counter!LeftByHit, AdvanceThrottleWindow, BlockOverLimit,
       CountHit, Windows, WindowFits
<1>1. CASE WindowOver(w, now)
  <2>1. CurrentWindow(w, now) = FreshWindow(now)
    BY <1>1 DEF CurrentWindow
  <2>2. CASE Limit = 0
    BY <2>1, <2>2 DEF FreshWindow
  <2>3. CASE Limit > 0
    BY <2>1, <2>3 DEF FreshWindow
  <2>4. QED BY <2>2, <2>3
<1>2. CASE ~WindowOver(w, now)
  <2>1. CurrentWindow(w, now) = w
    BY <1>2 DEF CurrentWindow
  <2>2. w.windowEndsAt > now /\ (w.blockedUntil > 0 => w.blockedUntil > now)
    BY <1>2 DEF WindowOver
  <2>3. CASE w.blockedUntil = 0
    BY <2>1, <2>2, <2>3
  <2>4. CASE w.blockedUntil > 0
    BY <2>1, <2>2, <2>4
  <2>5. QED BY <2>3, <2>4
<1>3. QED BY <1>1, <1>2

LEMMA LeftByHitFits ==
    ASSUME NEW w \in Windows, NEW now \in Nat, NEW t \in Nat, now <= t,
           Counter!LeftByHit(w, now)
    PROVE  WindowFits(w, t)
BY ThrottleAssumption DEF Counter!LeftByHit, WindowFits, Windows

LEMMA WindowGoesOnFitting ==
    ASSUME NEW w \in Windows, NEW now \in Nat, NEW t \in Nat, now <= t,
           WindowFits(w, now)
    PROVE  WindowFits(w, t)
BY ThrottleAssumption DEF WindowFits, Windows

LEMMA NoItemType ==
    /\ NoItem \in Items /\ IsItem(NoItem)
    /\ NoItem.version = 0
    /\ \A t \in Nat : WindowFits(NoItem.window, t)
BY ThrottleAssumption DEF NoItem, Items, NoWindow, Windows, IsItem, WindowFits

LEMMA PutType ==
    ASSUME TypeInvariant, NEW r \in Requests, Put(r)
    PROVE  /\ item' \in Items
           /\ item'.version = snapshot[r].version + 1
           /\ item'.window = AdvanceThrottleWindow(snapshot[r].window, at[r])
           /\ changedAt' = at[r]
           /\ changedAt' \in Nat
           /\ changes' = changes + 1
           /\ overwrites' \in Nat
<1>1. snapshot[r] \in Items /\ snapshot[r].window \in Windows /\ at[r] \in Nat
  BY DEF TypeInvariant, Items
<1>2. NextWindow(r) \in Windows
  BY <1>1, AdvanceWindowType DEF NextWindow
<1>3. overwrites' \in Nat
  BY DEF Put, Note, OverwritesBefore, TypeInvariant
<1>4. QED BY <1>1, <1>2, <1>3 DEF Put, Note, NextWindow, Items

LEMMA InitIInv == Init => IInv
BY NoItemType DEF Init, IInv, TypeInvariant, Deciding, NoItem, Answers, InFlight

-------------------------------------------------------------------------------
(* One lemma per action. *)

LEMMA TickIInv ==
    ASSUME IInv, Tick PROVE IInv'
<1>1. TypeInvariant'
  BY DEF IInv, Tick, storeVars, TypeInvariant
<1>2. clock \in Nat /\ clock' \in Nat /\ clock <= clock'
  BY DEF IInv, Tick, TypeInvariant
<1>3. WindowFits(item'.window, clock')
  BY <1>2, WindowGoesOnFitting DEF IInv, Tick, storeVars, TypeInvariant, Items
<1>4. ASSUME NEW s \in Requests, pc'[s] \in Deciding PROVE SnapshotBelongs(s)'
  <2>1. SnapshotBelongs(s) /\ snapshot[s].window \in Windows
    BY <1>4 DEF IInv, Tick, TypeInvariant, Items
  <2>2. WindowFits(snapshot[s].window, clock')
    BY <1>2, <2>1, WindowGoesOnFitting DEF SnapshotBelongs
  <2>3. at[s] <= clock => at[s] <= clock'
    BY <1>2 DEF IInv, TypeInvariant
  <2>4. QED BY <2>1, <2>2, <2>3 DEF SnapshotBelongs, Tick, storeVars
<1>5. QED BY <1>1, <1>2, <1>3, <1>4 DEF IInv, Tick, storeVars, TypeInvariant

LEMMA StartIInv ==
    ASSUME IInv, NEW r \in Requests, Start(r)
    PROVE  IInv'
<1>1. TypeInvariant'
  BY DEF IInv, Start, storeVars, TypeInvariant, InFlight, Answers, Items
<1>2. \A s \in Requests : base'[s] + attempt'[s] <= changes'
  BY DEF IInv, Start, storeVars, TypeInvariant, Items
<1>3. \A s \in Requests : pc'[s] \in Deciding => SnapshotBelongs(s)'
  BY DEF IInv, Start, storeVars, TypeInvariant, SnapshotBelongs, Deciding
<1>4. \A s \in late' : pc'[s] \in Deciding
  BY DEF IInv, Start, TypeInvariant, Deciding, InFlight
<1>5. QED BY <1>1, <1>2, <1>3, <1>4 DEF IInv, Start, storeVars

LEMMA ReadIInv ==
    ASSUME IInv, NEW r \in Requests, Read(r)
    PROVE  IInv'
<1>1. TypeInvariant'
  BY DEF IInv, Read, storeVars, TypeInvariant, InFlight
<1>2. \A s \in Requests : pc'[s] \in Deciding => SnapshotBelongs(s)'
  <2>1. ASSUME NEW s \in Requests, pc'[s] \in Deciding PROVE SnapshotBelongs(s)'
    <3>1. CASE s = r
      <4>1. r \notin late
        BY DEF IInv, Read, Deciding
      <4>2. pc'[r] # "writing"
        BY DEF IInv, Read, TypeInvariant
      <4>3. snapshot'[r] = item /\ item' = item /\ late' = late /\ clock' = clock
        BY DEF IInv, Read, storeVars, TypeInvariant
      <4>4. item.version \in Nat
        BY DEF IInv, TypeInvariant, Items
      <4>5. QED BY <3>1, <4>1, <4>2, <4>3, <4>4 DEF IInv, SnapshotBelongs
    <3>2. CASE s # r
      BY <2>1, <3>2 DEF IInv, Read, storeVars, TypeInvariant, SnapshotBelongs
    <3>3. QED BY <3>1, <3>2
  <2>2. QED BY <2>1
<1>3. \A s \in late' : pc'[s] \in Deciding
  BY DEF IInv, Read, TypeInvariant, Deciding
<1>4. \A s \in Requests : IsItem(snapshot'[s])
  BY DEF IInv, Read, TypeInvariant
<1>5. QED BY <1>1, <1>2, <1>3, <1>4 DEF IInv, Read, storeVars

LEMMA DecideIInv ==
    ASSUME IInv, NEW r \in Requests, Decide(r)
    PROVE  IInv'
<1>1. TypeInvariant'
  BY DEF IInv, Decide, storeVars, TypeInvariant, InFlight
<1>2. \A s \in Requests : pc'[s] \in Deciding => SnapshotBelongs(s)'
  <2>1. ASSUME NEW s \in Requests, pc'[s] \in Deciding PROVE SnapshotBelongs(s)'
    <3>1. CASE s = r
      BY <2>1, <3>1 DEF IInv, Decide, storeVars, TypeInvariant, SnapshotBelongs,
         Deciding
    <3>2. CASE s # r
      BY <2>1, <3>2 DEF IInv, Decide, storeVars, TypeInvariant, SnapshotBelongs
    <3>3. QED BY <3>1, <3>2
  <2>2. QED BY <2>1
<1>3. \A s \in late' : pc'[s] \in Deciding
  BY DEF IInv, Decide, TypeInvariant, Deciding
<1>4. QED BY <1>1, <1>2, <1>3 DEF IInv, Decide, storeVars

\* What both ways of ending an attempt without a new version leave true.
LEMMA RetryIInv ==
    ASSUME IInv, NEW r \in Requests, pc[r] = "writing", ~Unchanged(r),
           Retry(r), UNCHANGED storeVars
    PROVE  IInv'
<1>1. TypeInvariant'
  BY NoItemType DEF IInv, Retry, EndAttempt, storeVars, TypeInvariant, InFlight, Answers
<1>2. \A s \in Requests : base'[s] + attempt'[s] <= changes'
  <2>1. base[r] + attempt[r] + 1 <= changes
    BY DEF IInv, SnapshotBelongs, Deciding, Unchanged
  <2>2. base'[r] + attempt'[r] <= changes'
    BY <2>1 DEF IInv, Retry, storeVars, TypeInvariant
  <2>3. ASSUME NEW s \in Requests, s # r
        PROVE  base'[s] + attempt'[s] <= changes'
    BY <2>3 DEF IInv, Retry, storeVars, TypeInvariant
  <2>4. QED BY <2>2, <2>3
<1>3. \A s \in Requests : pc'[s] \in Deciding => SnapshotBelongs(s)'
  BY DEF IInv, Retry, EndAttempt, storeVars, TypeInvariant, SnapshotBelongs, Deciding
<1>4. IsItem(item') /\ \A s \in Requests : IsItem(snapshot'[s])
  BY NoItemType DEF IInv, Retry, EndAttempt, storeVars, TypeInvariant
<1>5. \A s \in late' : pc'[s] \in Deciding
  BY DEF IInv, Retry, EndAttempt, TypeInvariant
<1>6. QED BY <1>1, <1>2, <1>3, <1>4, <1>5 DEF IInv, Retry, storeVars, IsItem

LEMMA FailOpenIInv ==
    ASSUME IInv, NEW r \in Requests, FailOpen(r), UNCHANGED storeVars
    PROVE  IInv'
<1>1. TypeInvariant'
  BY NoItemType DEF IInv, FailOpen, EndAttempt, storeVars, TypeInvariant, Answers
<1>2. \A s \in Requests : pc'[s] \in Deciding => SnapshotBelongs(s)'
  BY DEF IInv, FailOpen, EndAttempt, storeVars, TypeInvariant, SnapshotBelongs, Deciding
<1>3. IsItem(item') /\ \A s \in Requests : IsItem(snapshot'[s])
  BY NoItemType DEF IInv, FailOpen, EndAttempt, storeVars, TypeInvariant
<1>4. \A s \in late' : pc'[s] \in Deciding
  BY DEF IInv, FailOpen, EndAttempt, TypeInvariant
<1>5. QED BY <1>1, <1>2, <1>3, <1>4 DEF IInv, FailOpen, storeVars, IsItem

\* A successful conditional write, however the request itself goes on.
LEMMA PutIInv ==
    ASSUME IInv, NEW r \in Requests, pc[r] = "writing", Unchanged(r), Put(r),
           admitted' \in Nat, UNCHANGED <<clock, base>>, EndAttempt(r),
           NEW p \in (Answers \cup InFlight) \ Deciding, pc' = [pc EXCEPT ![r] = p],
           NEW n \in {attempt[r], attempt[r] + 1}, attempt' = [attempt EXCEPT ![r] = n]
    PROVE  IInv'
<1>1. SnapshotBelongs(r) /\ snapshot[r] \in Items /\ item \in Items
  BY DEF IInv, Deciding, TypeInvariant
<1>3. /\ item' \in Items
      /\ item'.version = item.version + 1
      /\ item'.window = AdvanceThrottleWindow(snapshot[r].window, at[r])
      /\ changedAt' = at[r]
      /\ changedAt' \in Nat
      /\ changes' = changes + 1
      /\ overwrites' \in Nat
  BY PutType DEF IInv, Unchanged
<1>4. TypeInvariant'
  BY <1>3, NoItemType DEF IInv, EndAttempt, TypeInvariant
<1>5. changedAt' <= clock'
  BY <1>1, <1>3 DEF SnapshotBelongs
<1>6. \A s \in Requests : base'[s] + attempt'[s] <= changes'
  BY <1>3 DEF IInv, TypeInvariant, Items
<1>7. \A s \in Requests : pc'[s] \in Deciding => SnapshotBelongs(s)'
  <2>1. ASSUME NEW s \in Requests, pc'[s] \in Deciding PROVE SnapshotBelongs(s)'
    <3>1. s # r
      BY <2>1 DEF IInv, TypeInvariant
    <3>2. /\ pc'[s] = pc[s] /\ at'[s] = at[s] /\ snapshot'[s] = snapshot[s]
          /\ attempt'[s] = attempt[s] /\ base'[s] = base[s] /\ clock' = clock
          /\ s \in late' <=> s \in late
      BY <3>1 DEF IInv, TypeInvariant, EndAttempt
    <3>3. /\ SnapshotBelongs(s) /\ snapshot[s].version \in Nat /\ item.version \in Nat
          /\ base[s] \in Nat /\ attempt[s] \in Nat /\ changes \in Nat
      BY <2>1, <3>2 DEF IInv, TypeInvariant, Items
    <3>4. s \notin late' => snapshot'[s].version < item'.version
      BY <1>3, <3>2, <3>3 DEF SnapshotBelongs
    <3>5. base'[s] + attempt'[s] + 1 <= changes'
      BY <1>3, <3>2, <3>3 DEF IInv
    <3>6. /\ WindowFits(snapshot'[s].window, clock')
          /\ pc'[s] = "writing" =>
                at'[s] <= clock' /\ WindowFits(snapshot'[s].window, at'[s])
      BY <3>2, <3>3 DEF SnapshotBelongs
    <3>7. s \in late' => snapshot'[s].version > 0
      BY <3>2, <3>3 DEF SnapshotBelongs
    <3>8. snapshot'[s].version \in Nat /\ item'.version \in Nat
      BY <1>3, <3>2, <3>3
    <3>9. QED BY <3>4, <3>5, <3>6, <3>7, <3>8 DEF SnapshotBelongs
  <2>2. QED BY <2>1
<1>8. IsItem(item') /\ \A s \in Requests : IsItem(snapshot'[s])
  <2>1. IsItem(item')
    BY <1>1, <1>3 DEF IsItem, Items
  <2>2. QED BY <2>1, NoItemType DEF IInv, EndAttempt, TypeInvariant
<1>9. WindowFits(item'.window, clock')
  <2>1. /\ snapshot[r].window \in Windows /\ at[r] \in Nat /\ clock' \in Nat
        /\ at[r] <= clock' /\ WindowFits(snapshot[r].window, at[r])
        /\ item'.window \in Windows
    BY <1>1, <1>3 DEF SnapshotBelongs, IInv, TypeInvariant, Items
  <2>2. QED BY <1>3, <2>1, AdvanceIsLeftByHit, LeftByHitFits
<1>10. \A s \in late' : pc'[s] \in Deciding
  BY DEF IInv, EndAttempt, TypeInvariant
<1>11. QED BY <1>4, <1>5, <1>6, <1>7, <1>8, <1>9, <1>10 DEF IInv

LEMMA WriteIInv ==
    ASSUME IInv, NEW r \in Requests, Write(r)
    PROVE  IInv'
<1>1. AdmittedBefore(r) \in Nat
  BY DEF AdmittedBefore, IInv, TypeInvariant
<1>2. attempt' = [attempt EXCEPT ![r] = attempt[r]]
  BY DEF Write, IInv, TypeInvariant
<1>3. PICK p \in {"refused", "admitted"} : pc' = [pc EXCEPT ![r] = p]
  BY DEF Write
<1>4. p \in (Answers \cup InFlight) \ Deciding
  BY DEF Answers, InFlight, Deciding
<1>5. admitted' \in Nat
  BY <1>1 DEF Write
<1>6. QED BY <1>2, <1>3, <1>4, <1>5, PutIInv DEF Write

LEMMA WriteUnacknowledgedIInv ==
    ASSUME IInv, NEW r \in Requests, WriteUnacknowledged(r)
    PROVE  IInv'
<1>1. admitted' \in Nat
  BY DEF AdmittedBefore, IInv, TypeInvariant, WriteUnacknowledged
<1>2. {"reading", "unmetered"} \subseteq (Answers \cup InFlight) \ Deciding
  BY DEF Answers, InFlight, Deciding
<1>3. CASE Retry(r)
  <2>1. PICK p \in {"reading", "unmetered"} : pc' = [pc EXCEPT ![r] = p]
    BY <1>3 DEF Retry
  <2>2. attempt' = [attempt EXCEPT ![r] = attempt[r] + 1]
    BY <1>3 DEF Retry
  <2>3. QED BY <1>1, <1>2, <1>3, <2>1, <2>2, PutIInv DEF WriteUnacknowledged, Retry
<1>4. CASE FailOpen(r)
  <2>1. pc' = [pc EXCEPT ![r] = "unmetered"]
    BY <1>4 DEF FailOpen
  <2>2. attempt' = [attempt EXCEPT ![r] = attempt[r]]
    BY <1>4 DEF FailOpen, IInv, TypeInvariant
  <2>3. QED BY <1>1, <1>2, <1>4, <2>1, <2>2, PutIInv DEF WriteUnacknowledged, FailOpen
<1>5. QED BY <1>3, <1>4 DEF WriteUnacknowledged

\* Whoever holds the item that is deleted, or an older state of it, is late, and
\* has lost a round; whoever has found none holds again what is stored.
LEMMA SweepIInv ==
    ASSUME IInv, Sweep PROVE IInv'
<1>1. TypeInvariant'
  BY NoItemType DEF IInv, Sweep, TypeInvariant
<1>2. item' = NoItem /\ item'.version = 0 /\ changes' = changes + 1 /\ changedAt' = 0
  BY NoItemType DEF Sweep
<1>3. \A s \in Requests : base'[s] + attempt'[s] <= changes'
  BY <1>2 DEF IInv, Sweep, TypeInvariant
<1>4. ASSUME NEW s \in Requests, pc'[s] \in Deciding PROVE SnapshotBelongs(s)'
  <2>1. /\ pc[s] \in Deciding /\ SnapshotBelongs(s) /\ Holds(s)
        /\ snapshot'[s] = snapshot[s] /\ at'[s] = at[s] /\ pc'[s] = pc[s]
        /\ clock' = clock
    BY <1>4 DEF IInv, Sweep, Holds, Deciding
  <2>2. base'[s] + attempt'[s] + 1 <= changes'
    BY <1>2 DEF IInv, Sweep, TypeInvariant
  <2>3. IsItem(snapshot[s]) /\ snapshot[s].version \in Nat /\ at[s] \in Nat
    BY DEF IInv, TypeInvariant, Items
  <2>4. CASE snapshot[s] = NoItem
    <3>1. s \notin late'
      BY <2>1, <2>4, NoItemType DEF Sweep, SnapshotBelongs
    <3>2. QED BY <1>2, <2>1, <2>2, <2>3, <2>4, <3>1 DEF SnapshotBelongs
  <2>5. CASE snapshot[s] # NoItem
    <3>1. s \in late' /\ snapshot[s].version > 0
      BY <2>1, <2>3, <2>5 DEF Sweep, IsItem
    <3>2. QED BY <1>2, <2>1, <2>2, <2>3, <3>1 DEF SnapshotBelongs
  <2>6. QED BY <2>4, <2>5
<1>5. \A s \in late' : pc'[s] \in Deciding
  BY DEF IInv, Sweep, Holds, Deciding
<1>6. WindowFits(item'.window, clock')
  BY <1>1, <1>2, NoItemType DEF TypeInvariant
<1>7. QED BY <1>1, <1>2, <1>3, <1>4, <1>5, <1>6, NoItemType DEF IInv, Sweep, TypeInvariant

LEMMA NextIInv == IInv /\ [Next]_vars => IInv'
<1> SUFFICES ASSUME IInv, [Next]_vars PROVE IInv'
    OBVIOUS
<1>1. CASE Tick
  BY <1>1, TickIInv
<1>0. CASE Sweep
  BY <1>0, SweepIInv
<1>2. ASSUME NEW r \in Requests, Start(r) PROVE IInv'
  BY <1>2, StartIInv
<1>3. ASSUME NEW r \in Requests, Step(r) PROVE IInv'
  BY <1>3, ReadIInv, DecideIInv, WriteIInv, WriteUnacknowledgedIInv, RetryIInv,
     FailOpenIInv DEF Step, WriteConflict, StoreFails
<1>4. CASE UNCHANGED vars
  BY <1>4 DEF vars, IInv, TypeInvariant, SnapshotBelongs
<1>5. QED BY <1>1, <1>0, <1>2, <1>3, <1>4 DEF Next

-------------------------------------------------------------------------------
\* A version identifies the state it was written with for as long as the item
\* stays; whoever holds another one has lost its round to a change.
THEOREM StorageInvariant == Spec => []IInv
<1>1. QED BY InitIInv, NextIInv, PTL DEF Spec

\* Every variable stays within its type.
THEOREM StorageTypes == Spec => []TypeInvariant
<1>1. IInv => TypeInvariant
  BY DEF IInv
<1>2. QED BY <1>1, StorageInvariant, PTL

\* A conditional write that succeeds was decided on the stored state, unless the
\* item it was decided on has been deleted.
THEOREM StorageWritesBuildOnStoredState == Spec => []WritesBuildOnStoredState
<1>1. IInv => WritesBuildOnStoredState
  BY DEF IInv, SnapshotBelongs, Deciding, Holds, Unchanged, WritesBuildOnStoredState
<1>2. QED BY <1>1, StorageInvariant, PTL

\* Nor is it counted with a clock reading older than the item it replaces.
THEOREM StorageWritesInClockOrder == Spec => []WritesInClockOrder
<1>1. IInv => WritesInClockOrder
  BY DEF IInv, SnapshotBelongs, Deciding, Unchanged, WritesInClockOrder
<1>2. QED BY <1>1, StorageInvariant, PTL

\* Each round a request loses is a write that did count, or the deletion.
THEOREM StorageLostRounds == Spec => []LostRoundsAreChanges
<1>1. IInv => LostRoundsAreChanges
  BY DEF IInv, TypeInvariant, Items, LostRoundsAreChanges
<1>2. QED BY <1>1, StorageInvariant, PTL

-------------------------------------------------------------------------------
(* The loop implements the atomic counter.                                 *)

\* The counter advances its window with the function the storage uses.
LEMMA OneWindowFunction ==
    /\ \A w, now : Counter!AdvanceThrottleWindow(w, now) = AdvanceThrottleWindow(w, now)
    /\ \A w, now : Counter!WindowOver(w, now) <=> WindowOver(w, now)
    /\ \A w, now : Counter!IsBlocked(w, now) <=> IsBlocked(w, now)
    /\ Counter!NoWindow = NoWindow /\ Counter!Windows = Windows
BY DEF Counter!AdvanceThrottleWindow, AdvanceThrottleWindow,
    Counter!BlockOverLimit, BlockOverLimit, Counter!CountHit, CountHit,
    Counter!CurrentWindow, CurrentWindow, Counter!FreshWindow, FreshWindow,
    Counter!WindowOver, WindowOver, Counter!IsBlocked, IsBlocked,
    Counter!NoWindow, NoWindow, Counter!Windows, Windows

LEMMA InitRefines == Init => Counter!Init
BY DEF Init, Counter!Init, NoItem, InFlight, Counter!NoWindow, NoWindow

\* A step that only moves a request along its loop is invisible, or ends its
\* being late.
LEMMA MoveIsStutter ==
    ASSUME TypeInvariant, NEW r \in Requests, pc[r] \in InFlight,
           NEW p \in InFlight, pc' = [pc EXCEPT ![r] = p],
           late' = late \/ late' = late \ {r},
           UNCHANGED clock, UNCHANGED storeVars
    PROVE  (UNCHANGED Counter!vars) \/ Counter!LookAgain(r)
<1>1. CASE late' = late
  BY <1>1 DEF TypeInvariant, storeVars, Counter!vars
<1>2. CASE late' = late \ {r} /\ r \in late
  BY <1>2 DEF TypeInvariant, storeVars, Counter!LookAgain
<1>3. QED BY <1>1, <1>2

\* A request that gives up or meets an error is let through.
LEMMA GivingUpIsLetThrough ==
    ASSUME TypeInvariant, NEW r \in Requests, pc[r] \in InFlight,
           pc' = [pc EXCEPT ![r] = "unmetered"], late' = late \ {r},
           UNCHANGED clock, UNCHANGED storeVars
    PROVE  Counter!LetThrough(r)
BY DEF TypeInvariant, storeVars, Counter!LetThrough, InFlight

\* An applied write is one atomic hit on the stored window, or the overwriting of
\* it by a request that holds a deleted item.
LEMMA PutIsHit ==
    ASSUME IInv, NEW r \in Requests, pc[r] = "writing", Unchanged(r), Put(r),
           EndAttempt(r), UNCHANGED clock, Counter!Answer(r, at[r])
    PROVE  \E now \in 0 .. clock : Counter!Count(r, now) \/ Counter!Overwrite(r, now)
<1>1. /\ SnapshotBelongs(r) /\ item \in Items /\ snapshot[r].window \in Windows
      /\ at[r] \in Nat /\ clock \in Nat /\ changedAt \in Nat /\ late \subseteq Requests
  BY DEF IInv, Deciding, TypeInvariant, Items
<1>2. at[r] \in 0 .. clock /\ WindowFits(snapshot[r].window, at[r])
  BY <1>1 DEF SnapshotBelongs
<1>3. item'.window = AdvanceThrottleWindow(snapshot[r].window, at[r]) /\ changedAt' = at[r]
  BY PutType DEF IInv
<1>4. [s \in Requests |-> IF pc[s] \in InFlight THEN "waiting" ELSE pc[s]][r] = "waiting"
  BY DEF InFlight
<1>5. Counter!OverwritesBefore(at[r]) = OverwritesBefore(r)
  BY OneWindowFunction DEF Counter!OverwritesBefore, OverwritesBefore
<1>6. overwrites' = OverwritesBefore(r) + (IF r \in late THEN 1 ELSE 0)
  BY DEF Put, Note
<1>7. OverwritesBefore(r) \in Nat
  BY DEF IInv, TypeInvariant, OverwritesBefore
<1>8. CASE r \notin late
  <2>1. snapshot[r] = item /\ at[r] \in changedAt .. clock
    BY <1>1, <1>2, <1>8 DEF SnapshotBelongs, Unchanged
  <2>2. Counter!Count(r, at[r])
    BY <1>3, <1>4, <1>5, <1>6, <1>7, <1>8, <2>1, OneWindowFunction
       DEF Counter!Count, EndAttempt
  <2>3. QED BY <1>2, <2>2
<1>9. CASE r \in late
  <2>1. item'.window \in Windows
    BY <1>1, <1>3, AdvanceWindowType
  <2>2. Counter!LeftByHit(item'.window, at[r])
    BY <1>1, <1>2, <1>3, AdvanceIsLeftByHit
  <2>3. Counter!Overwrite(r, at[r])
    BY <1>2, <1>3, <1>5, <1>6, <1>9, <2>1, <2>2, OneWindowFunction
       DEF Counter!Overwrite, EndAttempt
  <2>4. QED BY <1>2, <2>3
<1>10. QED BY <1>8, <1>9

LEMMA StepRefines ==
    ASSUME IInv, NEW r \in Requests, Step(r)
    PROVE  \/ UNCHANGED Counter!vars
           \/ Counter!LookAgain(r)
           \/ Counter!LetThrough(r)
           \/ \E now \in 0 .. clock : Counter!Count(r, now) \/ Counter!Overwrite(r, now)
<1> USE DEF InFlight
<1>0. TypeInvariant
  BY DEF IInv
<1>1. CASE Read(r)
  BY <1>0, <1>1, MoveIsStutter DEF Read
<1>2. CASE Decide(r)
  BY <1>0, <1>2, MoveIsStutter DEF Decide
<1>3. CASE Write(r)
  <2>1. /\ item'.window = NextWindow(r)
        /\ Counter!AdmittedBefore(at[r]) = AdmittedBefore(r)
    BY <1>3, OneWindowFunction
       DEF Write, Put, Counter!AdmittedBefore, AdmittedBefore
  <2>2. \/ pc' = [pc EXCEPT ![r] = "refused"] /\ IsBlocked(item'.window, at[r])
           /\ admitted' = Counter!AdmittedBefore(at[r])
        \/ pc' = [pc EXCEPT ![r] = "admitted"] /\ ~IsBlocked(item'.window, at[r])
           /\ admitted' = Counter!AdmittedBefore(at[r]) + 1
    BY <1>3, <2>1 DEF Write
  <2>3. Counter!Answer(r, at[r])
    BY <1>0, <2>2, OneWindowFunction DEF Counter!Answer, TypeInvariant
  <2>4. QED BY <1>3, <2>3, PutIsHit DEF Write
<1>4. CASE WriteConflict(r)
  BY <1>0, <1>4, MoveIsStutter, GivingUpIsLetThrough DEF WriteConflict, Retry, EndAttempt
<1>5. CASE WriteUnacknowledged(r)
  <2>1. PICK p \in {"reading", "unmetered"} : pc' = [pc EXCEPT ![r] = p]
    BY <1>5 DEF WriteUnacknowledged, Retry, FailOpen
  <2>2. (UNCHANGED clock) /\ EndAttempt(r)
    BY <1>5 DEF WriteUnacknowledged, Retry, FailOpen
  <2>3. admitted' = Counter!AdmittedBefore(at[r])
    BY <1>5, OneWindowFunction
       DEF WriteUnacknowledged, Counter!AdmittedBefore, AdmittedBefore
  <2>4. Counter!Answer(r, at[r])
    BY <1>0, <2>1, <2>3 DEF Counter!Answer, TypeInvariant
  <2>5. QED BY <1>5, <2>2, <2>4, PutIsHit DEF WriteUnacknowledged
<1>6. CASE StoreFails(r)
  BY <1>0, <1>6, GivingUpIsLetThrough DEF StoreFails, FailOpen, EndAttempt
<1>7. QED BY <1>1, <1>2, <1>3, <1>4, <1>5, <1>6 DEF Step

LEMMA SweepRefines ==
    ASSUME IInv, Sweep PROVE Counter!Forget
<1>1. WindowOver(item.window, clock)
  BY StorageAssumption DEF IInv, TypeInvariant, Items, Windows, Sweep, ExpiresAt, WindowOver
<1>2. item'.window = NoWindow
  BY DEF Sweep, NoItem
<1> DEFINE seen == {r \in Requests : Holds(r) /\ snapshot[r] # NoItem}
           status == [r \in Requests |-> IF pc[r] \in InFlight THEN "waiting" ELSE pc[r]]
<1>3. seen \in SUBSET {r \in Requests : status[r] = "waiting"}
  BY DEF Holds, InFlight
<1>4. late' = late \cup seen
  BY DEF Sweep
<1>5. QED BY <1>1, <1>2, <1>3, <1>4, OneWindowFunction DEF Sweep, Counter!Forget

LEMMA NextRefines == IInv /\ [Next]_vars => [Counter!Next]_Counter!vars
<1> SUFFICES ASSUME IInv, [Next]_vars PROVE [Counter!Next]_Counter!vars
    OBVIOUS
<1>1. CASE Tick
  BY <1>1 DEF Tick, storeVars, Counter!Next, Counter!Tick
<1>2. ASSUME NEW r \in Requests, Start(r) PROVE Counter!Arrive(r)
  BY <1>2 DEF IInv, TypeInvariant, Start, storeVars, Counter!Arrive, InFlight, Answers
<1>3. ASSUME NEW r \in Requests, Step(r) PROVE [Counter!Next]_Counter!vars
  BY <1>3, StepRefines DEF Counter!Next
<1>4. CASE UNCHANGED vars
  BY <1>4 DEF vars, Counter!vars
<1>5. CASE Sweep
  BY <1>5, SweepRefines DEF Counter!Next
<1>6. QED BY <1>1, <1>2, <1>3, <1>4, <1>5 DEF Next, Counter!Next

\* Concurrent increments count each request as one atomic step would, and only a
\* request that holds a deleted item may overwrite what was counted since, for
\* every number of requests, processes and attempts.
THEOREM StorageImplementsCounter == Spec => ImplementsCounter
<1>1. QED BY InitRefines, NextRefines, StorageInvariant, PTL
          DEF Spec, ImplementsCounter, Counter!Spec

-------------------------------------------------------------------------------
(* The promises of the counter, for any number of requests.                *)

\* The count says whether the key is blocked, and with what overwritings have
\* handed out, c, it bounds who was let through.
CountExplainsBlock(w, n, c) ==
    /\ w.totalHits <= Limit + 1
    /\ w.blockedUntil > 0 <=> w.totalHits = Limit + 1
    /\ n <= c + Limit
    /\ n <= c + w.totalHits

CounterInv ==
    /\ Counter!TypeOK
    /\ CountExplainsBlock(item.window, admitted, Limit * overwrites)

LEMMA Budgets ==
    /\ Limit * 0 = 0
    /\ \A o \in Nat : Limit * o \in Nat /\ Limit * (o + 1) = Limit * o + Limit
BY ThrottleAssumption

\* A hit that finds the window over is the first of a fresh one; otherwise it
\* adds one to an unblocked window and leaves a blocked one as it is.
LEMMA AdvanceKeepsCount ==
    ASSUME NEW w \in Windows, NEW now \in Nat, NEW n \in Nat, NEW c \in Nat,
           CountExplainsBlock(w, n, c)
    PROVE  LET before == IF WindowOver(w, now) THEN 0 ELSE n
               credit == IF WindowOver(w, now) THEN 0 ELSE c
               next   == AdvanceThrottleWindow(w, now)
           IN  /\ CountExplainsBlock(next, before, credit)
               /\ ~IsBlocked(next, now) => CountExplainsBlock(next, before + 1, credit)
<1>1. CASE WindowOver(w, now)
  <2>1. CurrentWindow(w, now) = FreshWindow(now)
    BY <1>1 DEF CurrentWindow
  <2>2. CASE Limit = 0
    BY <1>1, <2>1, <2>2, ThrottleAssumption DEF AdvanceThrottleWindow,
       BlockOverLimit, CountHit, FreshWindow, Windows, IsBlocked, CountExplainsBlock
  <2>3. CASE Limit > 0
    BY <1>1, <2>1, <2>3, ThrottleAssumption DEF AdvanceThrottleWindow,
       BlockOverLimit, CountHit, FreshWindow, Windows, IsBlocked, CountExplainsBlock
  <2>4. QED BY <2>2, <2>3, ThrottleAssumption
<1>2. CASE ~WindowOver(w, now)
  <2>1. CurrentWindow(w, now) = w
    BY <1>2 DEF CurrentWindow
  <2>2. CASE w.blockedUntil = 0
    BY <1>2, <2>1, <2>2, ThrottleAssumption DEF AdvanceThrottleWindow,
       BlockOverLimit, CountHit, Windows, IsBlocked, CountExplainsBlock
  <2>3. CASE w.blockedUntil > 0
    BY <1>2, <2>1, <2>3, ThrottleAssumption DEF AdvanceThrottleWindow,
       BlockOverLimit, CountHit, Windows, IsBlocked, CountExplainsBlock, WindowOver
  <2>4. QED BY <2>2, <2>3 DEF Windows
<1>3. QED BY <1>1, <1>2

\* An overwriting adds a budget to what was handed out.
LEMMA OverwriteKeepsCount ==
    ASSUME NEW w \in Windows, NEW n \in Nat, NEW c \in Nat, CountExplainsBlock(w, n, c),
           NEW now \in Nat, NEW next \in Windows, Counter!LeftByHit(next, now)
    PROVE  LET before == IF WindowOver(w, now) THEN 0 ELSE n
               credit == IF WindowOver(w, now) THEN 0 ELSE c
           IN  /\ CountExplainsBlock(next, before, credit + Limit)
               /\ ~IsBlocked(next, now) => CountExplainsBlock(next, before + 1, credit + Limit)
<1> USE ThrottleAssumption DEF CountExplainsBlock, Counter!LeftByHit, IsBlocked, Windows
<1>1. CASE WindowOver(w, now)
  BY <1>1
<1>2. CASE ~WindowOver(w, now)
  BY <1>2
<1>3. QED BY <1>1, <1>2

LEMMA InitCounterInv == Counter!Init => CounterInv
<1> SUFFICES ASSUME Counter!Init PROVE CounterInv
    OBVIOUS
<1>1. /\ item.window = NoWindow /\ admitted = 0 /\ clock = 0 /\ changedAt = 0
      /\ late = {} /\ overwrites = 0
  BY OneWindowFunction DEF Counter!Init
<1>2. NoWindow \in Windows /\ CountExplainsBlock(NoWindow, 0, 0)
  BY ThrottleAssumption DEF NoWindow, Windows, CountExplainsBlock
<1>3. Counter!TypeOK
  BY <1>1, <1>2, OneWindowFunction DEF Counter!Init, Counter!TypeOK, Counter!Answers
<1>4. QED BY <1>1, <1>2, <1>3, Budgets DEF CounterInv

\* One hit, acknowledged or not, on the current window or over it.
LEMMA HitKeepsCounterInv ==
    ASSUME CounterInv, NEW r \in Requests, NEW now \in 0 .. clock,
           Counter!Count(r, now) \/ Counter!Overwrite(r, now)
    PROVE  CounterInv'
<1>1. /\ now \in Nat /\ item.window \in Windows /\ admitted \in Nat
      /\ overwrites \in Nat /\ clock' = clock /\ changedAt' = now
      /\ late' = late \ {r} /\ Counter!Answer(r, now)
  BY OneWindowFunction DEF CounterInv, Counter!TypeOK, Counter!Count, Counter!Overwrite
<1> DEFINE before == IF WindowOver(item.window, now) THEN 0 ELSE admitted
           o == IF WindowOver(item.window, now) THEN 0 ELSE overwrites
           credit == IF WindowOver(item.window, now) THEN 0 ELSE Limit * overwrites
<1>2. /\ Counter!AdmittedBefore(now) = before /\ before \in Nat
      /\ Counter!OverwritesBefore(now) = o /\ o \in Nat
      /\ credit = Limit * o /\ credit \in Nat /\ Limit * overwrites \in Nat
  BY <1>1, OneWindowFunction, Budgets DEF Counter!AdmittedBefore, Counter!OverwritesBefore
<1>3. \/ admitted' = before
      \/ admitted' = before + 1 /\ ~IsBlocked(item'.window, now)
  BY <1>1, <1>2, OneWindowFunction DEF Counter!Answer
<1>4. CountExplainsBlock(item.window, admitted, Limit * overwrites)
  BY DEF CounterInv
<1>5. /\ item'.window \in Windows
      /\ overwrites' \in Nat
      /\ CountExplainsBlock(item'.window, admitted', Limit * overwrites')
  <2>1. CASE Counter!Count(r, now)
    <3>1. item'.window = AdvanceThrottleWindow(item.window, now) /\ overwrites' = o
      BY <1>2, <2>1, OneWindowFunction DEF Counter!Count
    <3>2. CountExplainsBlock(item'.window, admitted', credit)
      BY <1>1, <1>2, <1>3, <1>4, <3>1, AdvanceKeepsCount
    <3>3. QED BY <1>1, <1>2, <3>1, <3>2, AdvanceWindowType
  <2>2. CASE Counter!Overwrite(r, now)
    <3>1. /\ item'.window \in Windows /\ Counter!LeftByHit(item'.window, now)
          /\ overwrites' = o + 1
      BY <1>2, <2>2, OneWindowFunction DEF Counter!Overwrite
    <3>2. CountExplainsBlock(item'.window, admitted', credit + Limit)
      BY <1>1, <1>2, <1>3, <1>4, <3>1, OverwriteKeepsCount
    <3>3. Limit * overwrites' = credit + Limit
      BY <1>2, <3>1, Budgets
    <3>4. QED BY <1>2, <3>1, <3>2, <3>3
  <2>3. QED BY <2>1, <2>2
<1>6. Counter!TypeOK'
  <2>1. admitted' \in Nat
    BY <1>2, <1>3
  <2>2. QED BY <1>1, <1>5, <2>1, OneWindowFunction DEF CounterInv, Counter!TypeOK,
               Counter!Answers, Counter!Answer
<1>7. QED BY <1>5, <1>6 DEF CounterInv

LEMMA NextCounterInv == CounterInv /\ [Counter!Next]_Counter!vars => CounterInv'
<1> SUFFICES ASSUME CounterInv, [Counter!Next]_Counter!vars PROVE CounterInv'
    OBVIOUS
<1>1. CASE Counter!Tick
  BY <1>1 DEF Counter!Tick, Counter!TypeOK, CounterInv, CountExplainsBlock
<1>2. CASE Counter!Forget
  <2>1. /\ item'.window = NoWindow /\ admitted' = 0 /\ clock' = clock
        /\ changedAt' = 0 /\ overwrites' = 0
    BY <1>2, OneWindowFunction DEF Counter!Forget
  <2>2. NoWindow \in Windows /\ CountExplainsBlock(NoWindow, 0, 0)
    BY ThrottleAssumption DEF NoWindow, Windows, CountExplainsBlock
  <2>3. late' \subseteq Requests
    BY <1>2 DEF Counter!Forget, Counter!TypeOK, CounterInv
  <2>4. Counter!TypeOK'
    BY <1>2, <2>1, <2>2, <2>3, OneWindowFunction DEF Counter!Forget, Counter!TypeOK, CounterInv
  <2>5. QED BY <2>1, <2>2, <2>4, Budgets DEF CounterInv
<1>3. ASSUME NEW r \in Requests,
             Counter!Arrive(r) \/ Counter!LookAgain(r) \/ Counter!LetThrough(r)
      PROVE  CounterInv'
  BY <1>3 DEF Counter!Arrive, Counter!LookAgain, Counter!LetThrough, Counter!TypeOK,
     CounterInv, CountExplainsBlock, Counter!Answers
<1>4. ASSUME NEW r \in Requests, NEW now \in 0 .. clock,
             Counter!Count(r, now) \/ Counter!Overwrite(r, now)
      PROVE  CounterInv'
  BY <1>4, HitKeepsCounterInv
<1>5. CASE UNCHANGED Counter!vars
  BY <1>5 DEF Counter!vars, Counter!TypeOK, CounterInv, CountExplainsBlock
<1>6. QED BY <1>1, <1>2, <1>3, <1>4, <1>5 DEF Counter!Next

\* The counter stays within its types and its count explains its block.
THEOREM CounterInvariant == Counter!Spec => []CounterInv
BY InitCounterInv, NextCounterInv, PTL DEF Counter!Spec

\* No window lets through more than Limit counted requests, and Limit more for
\* each overwriting, for every limit and every number of concurrent requests.
THEOREM CounterAdmitsWithinLimit == Counter!Spec => []Counter!AdmittedWithinLimit
<1>1. CounterInv => Counter!AdmittedWithinLimit
  BY Budgets, ThrottleAssumption
     DEF CounterInv, Counter!TypeOK, CountExplainsBlock, Counter!AdmittedWithinLimit
<1>2. QED BY <1>1, CounterInvariant, PTL

\* A block begins with the first hit over the limit and freezes the count.
THEOREM CounterHitsStopAtBlock == Counter!Spec => []Counter!HitsStopAtBlock
<1>1. CounterInv => Counter!HitsStopAtBlock
  BY DEF CounterInv, CountExplainsBlock, Counter!HitsStopAtBlock
<1>2. QED BY <1>1, CounterInvariant, PTL

\* Both carry over to the loop: however many requests race for the item, no
\* window lets through more than Limit counted requests, and Limit more for each
\* that took it for a deleted one ...
THEOREM StorageAdmitsWithinLimit == Spec => []AdmittedWithinLimit
<1>1. Counter!AdmittedWithinLimit => AdmittedWithinLimit
  BY DEF Counter!AdmittedWithinLimit, AdmittedWithinLimit
<1>2. QED BY <1>1, StorageImplementsCounter, CounterAdmitsWithinLimit, PTL
          DEF ImplementsCounter

\* ... and the stored count stops at the block.
THEOREM StorageHitsStopAtBlock == Spec => []Counter!HitsStopAtBlock
BY StorageImplementsCounter, CounterHitsStopAtBlock, PTL DEF ImplementsCounter

-------------------------------------------------------------------------------
(* The way to the window: what a visitor is let through in any stretch of  *)
(* time, and for what it is refused.                                       *)

AdmissionTypes ==
    /\ time \in Nat
    /\ config \in [secret : BOOLEAN, table : BOOLEAN, running : SUBSET Processes]
    /\ forwards \in BOOLEAN
    /\ windows \in [Stores -> [Keys -> [window : Windows, changedAt : Nat]]]
    /\ reported \in BOOLEAN
    /\ watched \in Visitors
    /\ passed \in [Stores -> Seq(Nat)]
    /\ charged \in [Stores -> Seq(Nat)]
    /\ refused \in Stores \cup {Missing}

Opened(w) == w.windowEndsAt - Ttl

\* A window that last changed at t: it opened with a hit, and is blocked, to its
\* end at least, from the first hit over the limit.
InOrder(w, t) ==
    /\ w.totalHits <= Limit + 1
    /\ w.blockedUntil = 0 => w.totalHits <= Limit
    /\ w.blockedUntil # 0 => w.totalHits = Limit + 1 /\ w.windowEndsAt <= w.blockedUntil
    /\ IF w.totalHits = 0 THEN w.windowEndsAt = 0
                          ELSE Opened(w) <= t /\ t < w.windowEndsAt

\* The n newest passes of a log belong to window w; if they are all of its hits up
\* to the limit, they begin where it opened.  The rest are older, and all but the
\* last Limit - 1 of them by a whole window.
Fits(log, w, t, n) ==
    /\ n <= Limit /\ n <= w.totalHits /\ n <= Len(log)
    /\ 0 < n /\ n \in {Limit, w.totalHits} => log[n] <= Opened(w)
    /\ \A k \in 1 .. Len(log) :
          /\ log[k] <= t
          /\ n < k => log[k] <= Opened(w)
          /\ n + Limit <= k => log[k] <= Opened(w) - Ttl

PassesFit(log, w, t) ==
    /\ Len(log) <= Remembered
    /\ Len(log) = Remembered => log[1] - log[Remembered] >= Ttl
    /\ \E n \in Nat : Fits(log, w, t, n)

\* Every hit of a window is in the log of what was charged.
ChargesFit(log, w, t) ==
    /\ w.totalHits <= Len(log)
    /\ \A k \in 1 .. w.totalHits : Opened(w) <= log[k] /\ log[k] <= t

AdmissionInv ==
    /\ AdmissionTypes
    /\ \A s \in Stores, k \in Keys : windows[s][k].changedAt <= time
    /\ ~reported => \A s \in Stores :
          LET w == windows[s][watched].window
              t == windows[s][watched].changedAt
          IN  InOrder(w, t) /\ PassesFit(passed[s], w, t) /\ ChargesFit(charged[s], w, t)
    /\ RefusalsAreEarned

-------------------------------------------------------------------------------
(* Logs.                                                                   *)

LEMMA NewestEntries ==
    ASSUME NEW log \in Seq(Nat), NEW now \in Nat
    PROVE  /\ Newest(log, now) \in Seq(Nat)
           /\ Len(Newest(log, now)) =
                 IF Len(log) < Remembered THEN Len(log) + 1 ELSE Remembered
           /\ Newest(log, now)[1] = now
           /\ \A k \in 2 .. Len(Newest(log, now)) :
                 k - 1 \in 1 .. Len(log) /\ Newest(log, now)[k] = log[k - 1]
<1>1. Remembered \in Nat \ {0, 1}
  BY ThrottleAssumption, AdmissionAssumption DEF Remembered
<1>2. CASE Len(log) < Remembered
  <2>1. Newest(log, now) = <<now>> \o log
    BY <1>2 DEF Newest
  <2> QED
    BY <1>1, <1>2, <2>1
<1>3. CASE ~(Len(log) < Remembered)
  <2> DEFINE old == SubSeq(log, 1, Remembered - 1)
  <2>1. old \in Seq(Nat) /\ Len(old) = Remembered - 1
    BY <1>1, <1>3
  <2>2. \A k \in 1 .. Remembered - 1 : old[k] = log[k]
    BY <1>1, <1>3
  <2>3. Newest(log, now) = <<now>> \o old
    BY <1>3 DEF Newest
  <2> HIDE DEF old
  <2> QED
    BY <1>1, <1>3, <2>1, <2>2, <2>3
<1> QED
  BY <1>2, <1>3

-------------------------------------------------------------------------------
(* Windows.                                                                *)

\* What a hit makes of a window that is over, and of one that is not.
LEMMA FreshHit ==
    ASSUME NEW w \in Windows, NEW now \in Nat, w.windowEndsAt <= now
    PROVE  AdvanceThrottleWindow(w, now) =
              [totalHits |-> 1, windowEndsAt |-> now + Ttl, blockedUntil |-> 0]
BY ThrottleAssumption, AdmissionAssumption DEF AdvanceThrottleWindow, BlockOverLimit,
    CountHit, CurrentWindow, FreshWindow, WindowOver, Windows

LEMMA FurtherHit ==
    ASSUME NEW w \in Windows, NEW t \in Nat, NEW now \in Nat,
           InOrder(w, t), now < w.windowEndsAt
    PROVE  /\ w.totalHits > 0
           /\ IF w.blockedUntil # 0
              THEN AdvanceThrottleWindow(w, now) = w
              ELSE AdvanceThrottleWindow(w, now) =
                     [totalHits |-> w.totalHits + 1, windowEndsAt |-> w.windowEndsAt,
                      blockedUntil |-> IF w.totalHits = Limit THEN now + BlockDuration ELSE 0]
<1>1. w.totalHits > 0
  BY DEF InOrder, Windows
<1>2. ~WindowOver(w, now)
  BY DEF InOrder, WindowOver, Windows
<1>3. CurrentWindow(w, now) = w
  BY <1>2 DEF CurrentWindow
<1>4. CASE w.blockedUntil # 0
  BY <1>1, <1>3, <1>4 DEF AdvanceThrottleWindow, BlockOverLimit, CountHit
<1>5. CASE w.blockedUntil = 0
  <2>1. CountHit(w) = [totalHits |-> w.totalHits + 1, windowEndsAt |-> w.windowEndsAt,
                       blockedUntil |-> 0]
    BY <1>5 DEF CountHit, Windows
  <2>2. w.totalHits <= Limit /\ w.totalHits \in Nat
    BY <1>5 DEF InOrder, Windows
  <2> QED
    BY <1>1, <1>3, <1>5, <2>1, <2>2, ThrottleAssumption
       DEF AdvanceThrottleWindow, BlockOverLimit
<1> QED
  BY <1>1, <1>4, <1>5

LEMMA HitKeepsOrder ==
    ASSUME NEW w \in Windows, NEW t \in Nat, NEW now \in Nat, t <= now, InOrder(w, t)
    PROVE  LET next == AdvanceThrottleWindow(w, now) IN
           /\ next \in Windows
           /\ InOrder(next, now)
           /\ IsBlocked(next, now) <=> next.totalHits = Limit + 1
<1> DEFINE next == AdvanceThrottleWindow(w, now)
<1> USE ThrottleAssumption, AdmissionAssumption
<1>1. CASE w.windowEndsAt <= now
  <2>1. next = [totalHits |-> 1, windowEndsAt |-> now + Ttl, blockedUntil |-> 0]
    BY <1>1, FreshHit
  <2> HIDE DEF next
  <2> QED
    BY <2>1 DEF InOrder, Opened, IsBlocked, Windows, next
<1>2. CASE now < w.windowEndsAt
  <2>1. w.totalHits > 0
    BY <1>2 DEF InOrder, Windows
  <2>2. CASE w.blockedUntil # 0
    <3>1. next = w
      BY <1>2, <2>2, FurtherHit
    <3> HIDE DEF next
    <3> QED
      BY <1>2, <2>1, <2>2, <3>1 DEF InOrder, Opened, IsBlocked, Windows, next
  <2>3. CASE w.blockedUntil = 0
    <3>1. next = [totalHits |-> w.totalHits + 1, windowEndsAt |-> w.windowEndsAt,
                  blockedUntil |-> IF w.totalHits = Limit THEN now + BlockDuration ELSE 0]
      BY <1>2, <2>3, FurtherHit
    <3> HIDE DEF next
    <3>2. w.totalHits \in Nat /\ w.windowEndsAt \in Nat /\ w.totalHits <= Limit
      BY <2>3 DEF InOrder, Windows
    <3>3. Opened(w) <= t
      BY <2>1 DEF InOrder
    <3>4. w.windowEndsAt <= now + BlockDuration
      BY <3>2, <3>3 DEF Opened
    <3> QED
      BY <1>2, <2>1, <3>1, <3>2, <3>3, <3>4 DEF InOrder, Opened, IsBlocked, Windows, next
  <2> QED
    BY <2>2, <2>3
<1> QED
  BY <1>1, <1>2 DEF Windows

\* Of any Limit passes the first had come when the window opened.
LEMMA AllButTheLastAreOld ==
    ASSUME NEW w \in Windows, NEW t \in Nat, NEW log \in Seq(Nat), NEW n \in Nat,
           Fits(log, w, t, n), NEW k \in 1 .. Len(log), Limit <= k
    PROVE  log[k] <= Opened(w)
<1>1. n <= Limit /\ n <= k
  BY ThrottleAssumption DEF Fits
<1>2. CASE n < k
  BY <1>2 DEF Fits
<1>3. CASE n = k
  BY <1>1, <1>3, ThrottleAssumption, AdmissionAssumption DEF Fits
<1> QED
  BY <1>1, <1>2, <1>3

(***************************************************************************)
(* A hit that is not let through leaves the log as it is.                  *)
(***************************************************************************)
LEMMA RefusalFits ==
    ASSUME NEW w \in Windows, NEW t \in Nat, NEW now \in Nat, t <= now, InOrder(w, t),
           NEW log \in Seq(Nat), PassesFit(log, w, t)
    PROVE  PassesFit(log, AdvanceThrottleWindow(w, now), now)
<1> DEFINE next == AdvanceThrottleWindow(w, now)
<1> USE ThrottleAssumption, AdmissionAssumption
<1>1. PICK n \in Nat : Fits(log, w, t, n)
  BY DEF PassesFit
<1>2. Len(log) \in Nat /\ \A k \in 1 .. Len(log) : log[k] \in Nat
  OBVIOUS
<1>3. w.windowEndsAt \in Nat /\ w.totalHits \in Nat
  BY DEF Windows
<1>4. CASE w.windowEndsAt <= now
  <2>1. next = [totalHits |-> 1, windowEndsAt |-> now + Ttl, blockedUntil |-> 0]
    BY <1>4, FreshHit
  <2> HIDE DEF next
  <2>2. Opened(next) = now /\ next.totalHits = 1 /\ Opened(w) <= now - Ttl
    BY <1>3, <1>4, <2>1 DEF Opened
  <2>3. \A k \in 1 .. Len(log) : Limit <= k => log[k] <= Opened(w)
    BY <1>1, <1>2, <1>3, AllButTheLastAreOld
  <2>4. ASSUME NEW k \in 1 .. Len(log)
        PROVE  log[k] <= now /\ (Limit <= k => log[k] <= now - Ttl)
    <3>1. log[k] \in Nat /\ log[k] <= t /\ (Limit <= k => log[k] <= Opened(w))
      BY <1>1, <1>2, <2>3 DEF Fits
    <3>2. Opened(w) \in Int
      BY <1>3 DEF Opened
    <3> QED
      BY <2>2, <3>1, <3>2
  <2>5. Fits(log, next, now, 0)
    BY <1>2, <2>2, <2>4 DEF Fits
  <2> QED
    BY <2>5 DEF PassesFit, next
<1>5. CASE now < w.windowEndsAt
  <2>1. Opened(next) = Opened(w) /\ next.totalHits \in {w.totalHits, w.totalHits + 1}
    BY <1>3, <1>5, FurtherHit DEF Opened
  <2> HIDE DEF next
  <2>2. n <= Limit /\ n <= w.totalHits /\ n <= Len(log)
    BY <1>1 DEF Fits
  <2>3. 0 < n /\ n \in {Limit, next.totalHits} => log[n] <= Opened(next)
    <3>1. n = next.totalHits => n = w.totalHits
      BY <1>3, <2>1, <2>2
    <3> QED
      BY <1>1, <2>1, <3>1 DEF Fits
  <2>4. ASSUME NEW k \in 1 .. Len(log)
        PROVE  /\ log[k] <= now
               /\ n < k => log[k] <= Opened(next)
               /\ n + Limit <= k => log[k] <= Opened(next) - Ttl
    <3>1. log[k] \in Nat /\ log[k] <= t
      BY <1>1, <1>2 DEF Fits
    <3>2. log[k] <= now
      BY <3>1
    <3> QED
      BY <1>1, <2>1, <3>2 DEF Fits
  <2>5. Fits(log, next, now, n)
    <3>1. n <= next.totalHits
      BY <1>3, <2>1, <2>2
    <3> QED
      BY <2>2, <2>3, <2>4, <3>1 DEF Fits
  <2> QED
    BY <2>5 DEF PassesFit, next
<1> QED
  BY <1>3, <1>4, <1>5

(***************************************************************************)
(* A hit that is let through is one window younger than what it makes the  *)
(* oldest of 2 * Limit passes.                                             *)
(***************************************************************************)
LEMMA PassFits ==
    ASSUME NEW w \in Windows, NEW t \in Nat, NEW now \in Nat, t <= now, InOrder(w, t),
           NEW log \in Seq(Nat), PassesFit(log, w, t),
           AdvanceThrottleWindow(w, now).totalHits <= Limit
    PROVE  PassesFit(Newest(log, now), AdvanceThrottleWindow(w, now), now)
<1> DEFINE next == AdvanceThrottleWindow(w, now)
           new == Newest(log, now)
<1> USE ThrottleAssumption, AdmissionAssumption
<1>1. PICK n \in Nat : Fits(log, w, t, n)
  BY DEF PassesFit
<1>2. Len(log) \in Nat /\ \A k \in 1 .. Len(log) : log[k] \in Nat
  OBVIOUS
<1>3. w.windowEndsAt \in Nat /\ w.totalHits \in Nat
  BY DEF Windows
<1>4. /\ new \in Seq(Nat) /\ Len(new) \in Nat /\ 0 < Len(new) /\ Len(new) <= Remembered
      /\ Len(new) <= Len(log) + 1
      /\ \A k \in Nat : k <= Len(log) /\ k < Remembered => k + 1 <= Len(new)
      /\ new[1] = now
      /\ \A k \in 2 .. Len(new) : k - 1 \in 1 .. Len(log) /\ new[k] = log[k - 1]
  <2>1. Len(log) <= Remembered /\ Remembered \in Nat /\ 0 < Remembered
    BY DEF PassesFit, Remembered
  <2>2. Len(new) = IF Len(log) < Remembered THEN Len(log) + 1 ELSE Remembered
    BY NewestEntries
  <2>3. new \in Seq(Nat) /\ new[1] = now
        /\ \A k \in 2 .. Len(new) : k - 1 \in 1 .. Len(log) /\ new[k] = log[k - 1]
    BY NewestEntries
  <2> HIDE DEF new
  <2> QED
    BY <1>2, <2>1, <2>2, <2>3
<1>5. \A k \in 1 .. Len(log) : Limit <= k => log[k] <= Opened(w)
  BY <1>1, AllButTheLastAreOld
<1>6. CASE w.windowEndsAt <= now
  <2>1. next = [totalHits |-> 1, windowEndsAt |-> now + Ttl, blockedUntil |-> 0]
    BY <1>6, FreshHit
  <2> HIDE DEF next, new
  <2>2. Opened(next) = now /\ next.totalHits = 1 /\ Opened(w) <= now - Ttl
    BY <1>3, <1>6, <2>1 DEF Opened
  <2>3. \A k \in 2 .. Len(new) : new[k] <= now /\ (Limit <= k - 1 => new[k] <= now - Ttl)
    <3>1. SUFFICES ASSUME NEW k \in 2 .. Len(new)
                   PROVE  new[k] <= now /\ (Limit <= k - 1 => new[k] <= now - Ttl)
      OBVIOUS
    <3>2. k - 1 \in 1 .. Len(log) /\ new[k] = log[k - 1]
      BY <1>4
    <3>3. log[k - 1] <= t
      BY <1>1, <3>2 DEF Fits
    <3>4. Limit <= k - 1 => log[k - 1] <= Opened(w)
      BY <1>5, <3>2
    <3>5. Opened(w) \in Int /\ log[k - 1] \in Nat
      BY <1>2, <1>3, <3>2 DEF Opened
    <3> QED
      BY <2>2, <3>2, <3>3, <3>4, <3>5
  <2>4. Fits(new, next, now, 1)
    BY <1>4, <2>2, <2>3 DEF Fits
  <2>5. Len(new) = Remembered => new[1] - new[Remembered] >= Ttl
    <3>1. SUFFICES ASSUME Len(new) = Remembered PROVE now - new[Remembered] >= Ttl
      BY <1>4
    <3>2. Remembered \in 2 .. Len(new) /\ Limit <= Remembered - 1
      BY <3>1 DEF Remembered
    <3>3. new[Remembered] <= now - Ttl /\ new[Remembered] \in Nat
      BY <1>2, <1>4, <2>3, <3>2
    <3> QED
      BY <3>3
  <2> QED
    BY <1>4, <2>4, <2>5 DEF PassesFit, next, new
<1>7. CASE now < w.windowEndsAt
  <2>1. w.totalHits > 0 /\ w.blockedUntil = 0
    <3>1. w.blockedUntil # 0 => next = w
      BY <1>7, FurtherHit
    <3> QED
      BY <1>3, <1>7, <3>1, FurtherHit DEF InOrder
  <2>2. next = [totalHits |-> w.totalHits + 1, windowEndsAt |-> w.windowEndsAt,
                blockedUntil |-> IF w.totalHits = Limit THEN now + BlockDuration ELSE 0]
    BY <1>7, <2>1, FurtherHit
  <2>3. next.totalHits <= Limit
    OBVIOUS
  <2> HIDE DEF next, new
  <2>4. Opened(next) = Opened(w) /\ next.totalHits = w.totalHits + 1 /\ w.totalHits < Limit
    BY <1>3, <2>2, <2>3 DEF Opened
  <2>5. Opened(w) \in Int /\ Opened(w) <= now
    BY <1>3, <2>1 DEF InOrder, Opened
  <2>6. n < Limit /\ n <= w.totalHits /\ n <= Len(log)
    BY <1>1, <1>3, <2>4 DEF Fits
  <2>7. \A k \in 2 .. Len(new) :
            /\ new[k] <= now
            /\ n + 1 < k => new[k] <= Opened(w)
            /\ n + 1 + Limit <= k => new[k] <= Opened(w) - Ttl
    <3>1. SUFFICES ASSUME NEW k \in 2 .. Len(new)
                   PROVE  /\ new[k] <= now
                          /\ n + 1 < k => new[k] <= Opened(w)
                          /\ n + 1 + Limit <= k => new[k] <= Opened(w) - Ttl
      OBVIOUS
    <3>2. k - 1 \in 1 .. Len(log) /\ new[k] = log[k - 1]
      BY <1>4
    <3>3. /\ log[k - 1] <= t
          /\ n < k - 1 => log[k - 1] <= Opened(w)
          /\ n + Limit <= k - 1 => log[k - 1] <= Opened(w) - Ttl
      BY <1>1, <3>2 DEF Fits
    <3>4. log[k - 1] \in Nat
      BY <1>2, <3>2
    <3> QED
      BY <2>5, <3>2, <3>3, <3>4
  <2>8. n + 1 <= Len(new)
    BY <1>4, <2>6 DEF Remembered
  <2>9. n + 1 \in {Limit, next.totalHits} => new[n + 1] <= Opened(w)
    <3>1. SUFFICES ASSUME n + 1 \in {Limit, w.totalHits + 1} PROVE new[n + 1] <= Opened(w)
      BY <2>4
    <3>2. n = w.totalHits
      BY <1>3, <2>4, <2>6, <3>1
    <3>3. log[n] <= Opened(w)
      BY <1>1, <2>1, <3>2 DEF Fits
    <3>4. n + 1 \in 2 .. Len(new)
      <4>1. 1 <= n
        BY <1>3, <2>1, <3>2
      <4>2. Len(new) \in Nat
        BY <1>4
      <4> QED
        BY <2>8, <4>1, <4>2
    <3>5. new[n + 1] = log[n + 1 - 1]
      BY <1>4, <3>4
    <3> QED
      BY <3>3, <3>5
  <2>10. Fits(new, next, now, n + 1)
    <3>1. n + 1 <= Limit /\ n + 1 <= next.totalHits
      BY <1>3, <2>4, <2>6
    <3> QED
      BY <1>4, <2>4, <2>7, <2>8, <2>9, <3>1 DEF Fits
  <2>11. Len(new) = Remembered => new[1] - new[Remembered] >= Ttl
    <3>1. SUFFICES ASSUME Len(new) = Remembered PROVE now - new[Remembered] >= Ttl
      BY <1>4
    <3>2. Remembered \in 2 .. Len(new) /\ n + 1 + Limit <= Remembered
      BY <2>6, <3>1 DEF Remembered
    <3>3. new[Remembered] <= Opened(w) - Ttl /\ new[Remembered] \in Nat
      BY <1>2, <1>4, <2>7, <3>2
    <3> QED
      BY <2>5, <3>3
  <2> QED
    BY <1>4, <2>10, <2>11 DEF PassesFit, next, new
<1> QED
  BY <1>3, <1>6, <1>7

(***************************************************************************)
(* Every hit is charged, so that a refusal has a window full of charges    *)
(* behind it.                                                              *)
(***************************************************************************)
LEMMA ChargeFits ==
    ASSUME NEW w \in Windows, NEW t \in Nat, NEW now \in Nat, t <= now, InOrder(w, t),
           NEW log \in Seq(Nat), ChargesFit(log, w, t)
    PROVE  ChargesFit(Newest(log, now), AdvanceThrottleWindow(w, now), now)
<1> DEFINE next == AdvanceThrottleWindow(w, now)
           new == Newest(log, now)
<1> USE ThrottleAssumption, AdmissionAssumption
<1>1. Len(log) \in Nat /\ \A k \in 1 .. Len(log) : log[k] \in Nat
  OBVIOUS
<1>2. w.windowEndsAt \in Nat /\ w.totalHits \in Nat /\ Opened(w) \in Int
  BY DEF Windows, Opened
<1>3. next \in Windows /\ InOrder(next, now)
  BY HitKeepsOrder
<1>4. /\ new \in Seq(Nat) /\ Len(new) \in Nat
      /\ Len(new) = IF Len(log) < Remembered THEN Len(log) + 1 ELSE Remembered
      /\ new[1] = now
      /\ \A k \in 2 .. Len(new) : k - 1 \in 1 .. Len(log) /\ new[k] = log[k - 1]
  BY <1>1, NewestEntries
<1>5. CASE w.windowEndsAt <= now
  <2>1. next = [totalHits |-> 1, windowEndsAt |-> now + Ttl, blockedUntil |-> 0]
    BY <1>5, FreshHit
  <2> HIDE DEF next, new
  <2>2. next.totalHits = 1 /\ Opened(next) = now
    BY <2>1 DEF Opened
  <2>3. 1 <= Len(new)
    BY <1>1, <1>4 DEF Remembered
  <2> QED
    BY <1>4, <2>2, <2>3 DEF ChargesFit, next, new
<1>6. CASE now < w.windowEndsAt
  <2>1. /\ w.totalHits > 0
        /\ Opened(next) = Opened(w)
        /\ next.totalHits \in {w.totalHits, w.totalHits + 1}
    BY <1>2, <1>6, FurtherHit DEF Opened
  <2> HIDE DEF next, new
  <2>2. Opened(w) <= now
    BY <1>2, <2>1 DEF InOrder
  <2>3. next.totalHits <= Len(new)
    <3>1. next.totalHits <= Remembered
      BY <1>2, <1>3, <2>1 DEF InOrder, Remembered
    <3>2. next.totalHits <= Len(log) + 1
      BY <1>1, <1>2, <2>1 DEF ChargesFit
    <3> QED
      BY <1>1, <1>4, <3>1, <3>2
  <2>4. ASSUME NEW k \in 1 .. next.totalHits
        PROVE  Opened(next) <= new[k] /\ new[k] <= now
    <3>1. CASE k = 1
      BY <1>4, <2>1, <2>2, <3>1
    <3>2. CASE k # 1
      <4>1. k \in 2 .. Len(new) /\ k - 1 \in 1 .. w.totalHits
        <5>1. next.totalHits \in Nat /\ Len(new) \in Nat
          BY <1>2, <1>4, <2>1
        <5>2. k \in Nat /\ 2 <= k /\ k <= next.totalHits
          BY <3>2, <5>1
        <5>3. k <= w.totalHits + 1
          BY <1>2, <2>1, <5>1, <5>2
        <5> QED
          BY <1>2, <2>3, <5>1, <5>2, <5>3
      <4>2. new[k] = log[k - 1] /\ log[k - 1] \in Nat
        BY <1>1, <1>4, <4>1
      <4>3. Opened(w) <= log[k - 1] /\ log[k - 1] <= t
        BY <4>1 DEF ChargesFit
      <4> QED
        BY <1>2, <2>1, <4>2, <4>3
    <3> QED
      BY <3>1, <3>2
  <2> QED
    BY <2>3, <2>4 DEF ChargesFit, next, new
<1> QED
  BY <1>2, <1>5, <1>6

LEMMA FullWindowIsEarned ==
    ASSUME NEW w \in Windows, NEW now \in Nat, InOrder(w, now), w.totalHits = Limit + 1,
           NEW log \in Seq(Nat), ChargesFit(log, w, now), log[1] <= now
    PROVE  Len(log) > Limit /\ log[1] - log[Limit + 1] < Ttl
<1> USE ThrottleAssumption, AdmissionAssumption
<1>1. Limit + 1 \in 1 .. w.totalHits /\ w.totalHits <= Len(log) /\ Len(log) \in Nat
  BY DEF ChargesFit
<1>2. Opened(w) <= log[Limit + 1] /\ log[1] \in Nat /\ log[Limit + 1] \in Nat
  BY <1>1 DEF ChargesFit
<1>3. now < Opened(w) + Ttl /\ Opened(w) \in Int
  BY DEF InOrder, Opened, Windows
<1> QED
  BY <1>1, <1>2, <1>3

-------------------------------------------------------------------------------
(* Whom a request is charged to.                                           *)

\* Whatever a request claims to be: as long as the addresses of visitors are
\* forwarded, it is charged to the one who sent it.
LEMMA ChargedToSender ==
    ASSUME AdmissionTypes, NEW v \in Visitors,
           NEW q \in ThroughEdge(v) \cup Direct(v), EdgeOriginGuard(q)
    PROVE  /\ ResolveClientTracker(q) \in Visitors
           /\ ~Warns(q) => ResolveClientTracker(q) = v
<1>1. CASE q \in ThroughEdge(v)
  <2>1. PICK a \in Forwarded(v), n \in Ports :
            q = [secret |-> "right", forwarded |-> a,
                 viewer |-> IF forwards THEN <<v, n>> ELSE Missing]
    BY <1>1 DEF ThroughEdge
  <2>2. q.secret = "right" /\ q.forwarded = a /\ (q.viewer = Missing \/ q.viewer = <<v, n>>)
    BY <2>1
  <2>3. a \in Visitors /\ (~config.secret => a = v)
    BY DEF Forwarded
  <2>4. WithoutPort(<<v, n>>) = v
    BY DEF WithoutPort
  <2> QED
    BY <2>2, <2>3, <2>4 DEF ResolveClientTracker, CameThroughEdge, Warns
<1>2. CASE q \in Direct(v)
  <2>1. q.secret # "right" /\ q.forwarded \in Forwarded(v)
    BY <1>2 DEF Direct
  <2>2. ~config.secret
    BY <2>1 DEF EdgeOriginGuard
  <2>3. q.forwarded = v /\ ~CameThroughEdge(q)
    BY <2>1, <2>2 DEF Forwarded, CameThroughEdge
  <2> QED
    BY <2>3 DEF ResolveClientTracker
<1> QED
  BY <1>1, <1>2

-------------------------------------------------------------------------------
(* One lemma per action.                                                   *)

\* Nothing has been counted.
LEMMA NothingFits ==
    /\ NoHits \in [window : Windows, changedAt : Nat]
    /\ NoHits.window = NoWindow /\ NoHits.changedAt = 0
    /\ InOrder(NoWindow, 0) /\ PassesFit(<<>>, NoWindow, 0) /\ ChargesFit(<<>>, NoWindow, 0)
<1> USE ThrottleAssumption, AdmissionAssumption
<1>1. NoWindow \in Windows /\ NoWindow.totalHits = 0 /\ NoWindow.windowEndsAt = 0
      /\ NoWindow.blockedUntil = 0
  BY DEF NoWindow, Windows
<1>2. InOrder(NoWindow, 0)
  BY <1>1 DEF InOrder
<1>3. Fits(<<>>, NoWindow, 0, 0)
  BY <1>1 DEF Fits
<1>4. PassesFit(<<>>, NoWindow, 0)
  BY <1>3 DEF PassesFit, Remembered
<1>5. ChargesFit(<<>>, NoWindow, 0)
  BY <1>1 DEF ChargesFit
<1> QED
  BY <1>1, <1>2, <1>4, <1>5 DEF NoHits

LEMMA InitAdmissionInv == ASSUME AdmissionInit PROVE AdmissionInv
<1>1. AdmissionTypes
  <2>1. <<>> \in Seq(Nat)
    OBVIOUS
  <2> QED
    BY <2>1, NothingFits, AdmissionAssumption DEF AdmissionInit, AdmissionTypes
<1>2. ASSUME NEW s \in Stores, NEW k \in Keys
      PROVE  windows[s][k] = NoHits /\ passed[s] = <<>> /\ charged[s] = <<>>
  BY <1>2 DEF AdmissionInit
<1>3. watched \in Keys /\ time = 0 /\ refused = Missing
  BY DEF AdmissionInit, Keys
<1> QED
  BY <1>1, <1>2, <1>3, NothingFits DEF AdmissionInv, RefusalsAreEarned

LEMMA TimePassesInv == ASSUME AdmissionInv, TimePasses PROVE AdmissionInv'
<1>1. AdmissionTypes'
  BY DEF AdmissionInv, AdmissionTypes, TimePasses
<1>2. time' = time + 1 /\ time \in Nat /\ windows' = windows
  BY DEF AdmissionInv, AdmissionTypes, TimePasses
<1>3. \A s \in Stores, k \in Keys : windows[s][k].changedAt \in Nat
  BY DEF AdmissionInv, AdmissionTypes
<1>4. (\A s \in Stores, k \in Keys : windows[s][k].changedAt <= time)'
  BY <1>2, <1>3 DEF AdmissionInv
<1> QED
  BY <1>1, <1>4 DEF AdmissionInv, RefusalsAreEarned, TimePasses

LEMMA ChangePolicyInv == ASSUME AdmissionInv, ChangePolicy PROVE AdmissionInv'
BY DEF AdmissionInv, AdmissionTypes, RefusalsAreEarned, ChangePolicy, logs

LEMMA RestartInv ==
    ASSUME AdmissionInv, NEW p \in Processes, Restart(p)
    PROVE  AdmissionInv'
<1>1. AdmissionTypes
  BY DEF AdmissionInv
<1>2. p \in Stores /\ watched \in Keys /\ UNCHANGED <<time, watched, reported>>
  BY <1>1 DEF Stores, Keys, AdmissionTypes, Restart
<1>3. AdmissionTypes'
  <2>1. <<>> \in Seq(Nat) /\ [k \in Keys |-> NoHits] \in [Keys -> [window : Windows, changedAt : Nat]]
    BY NothingFits
  <2> QED
    BY <1>1, <1>2, <2>1 DEF AdmissionTypes, Restart
<1>4. ASSUME NEW s \in Stores, NEW k \in Keys
      PROVE  IF s = p
             THEN windows[s][k]' = NoHits /\ passed[s]' = <<>> /\ charged[s]' = <<>>
             ELSE UNCHANGED <<windows[s][k], passed[s], charged[s]>>
  BY <1>1, <1>2, <1>4 DEF AdmissionTypes, Restart
<1>5. ASSUME NEW s \in Stores, NEW k \in Keys
      PROVE  windows'[s][k].changedAt <= time'
  <2>1. CASE s = p
    <3>1. windows'[s][k].changedAt = 0
      BY <1>4, <2>1, NothingFits
    <3> QED
      BY <1>1, <1>2, <3>1 DEF AdmissionTypes
  <2>2. CASE s # p
    BY <1>2, <1>4, <2>2 DEF AdmissionInv
  <2> QED
    BY <2>1, <2>2
<1>6. ASSUME ~reported', NEW s \in Stores
      PROVE  LET h == windows[s][watched]'
             IN  /\ InOrder(h.window, h.changedAt)
                 /\ PassesFit(passed[s]', h.window, h.changedAt)
                 /\ ChargesFit(charged[s]', h.window, h.changedAt)
  BY <1>2, <1>4, <1>6, NothingFits DEF AdmissionInv
<1>7. RefusalsAreEarned'
  BY DEF RefusalsAreEarned, Restart
<1> QED
  BY <1>3, <1>5, <1>6, <1>7 DEF AdmissionInv

LEMMA AdmitInv ==
    ASSUME AdmissionInv, NEW p \in Processes, NEW v \in Visitors, Admit(p, v)
    PROVE  AdmissionInv'
<1> DEFINE S == StoreOf(p)
           StateOf(s) == windows[s][watched]
<1>1. AdmissionTypes /\ ~reported
  BY DEF AdmissionInv, Admit
<1>2. PICK q \in ThroughEdge(v) \cup Direct(v) :
          /\ EdgeOriginGuard(q)
          /\ \E now \in Samples(p, ResolveClientTracker(q)) :
                Hit(p, v, ResolveClientTracker(q), now)
          /\ reported' = Warns(q)
          /\ UNCHANGED <<time, config, forwards, watched>>
  BY DEF Admit
<1> DEFINE k == ResolveClientTracker(q)
<1>3. k \in Visitors /\ k \in Keys /\ (~reported' => k = v)
  BY <1>1, <1>2, ChargedToSender DEF Keys
<1> HIDE DEF k
<1>4. PICK now \in Samples(p, k) : Hit(p, v, k, now)
  BY <1>2 DEF k
<1>5. S \in Stores /\ BudgetOf(p) = S /\ watched \in Keys
  BY <1>1 DEF StoreOf, BudgetOf, Stores, Keys, AdmissionTypes
<1> HIDE DEF S
<1> DEFINE w == windows[S][k].window
           t == windows[S][k].changedAt
           next == AdvanceThrottleWindow(w, now)
<1>6. w \in Windows /\ t \in Nat /\ time \in Nat /\ t <= time
  BY <1>1, <1>3, <1>5 DEF AdmissionInv, AdmissionTypes
<1>7. now \in Nat /\ t <= now /\ now <= time
  BY <1>4, <1>6 DEF Samples, S
<1>8. next \in Windows
  BY <1>6, <1>7, AdvanceWindowType
<1>9. /\ windows' = [windows EXCEPT ![S][k] = [window |-> next, changedAt |-> now]]
      /\ IF v = watched
         THEN charged' = Logged(charged, p, now) /\ Answer(p, IsBlocked(next, now), now)
         ELSE refused' = Missing /\ UNCHANGED <<passed, charged>>
  BY <1>4 DEF Hit, S
<1> HIDE DEF w, t, next
<1>10. ASSUME NEW s \in Stores, NEW j \in Keys
       PROVE  windows'[s][j] = IF s = S /\ j = k THEN [window |-> next, changedAt |-> now]
                                                 ELSE windows[s][j]
  BY <1>1, <1>3, <1>5, <1>9 DEF AdmissionTypes
<1>11. ASSUME NEW log \in [Stores -> Seq(Nat)]
       PROVE  /\ Logged(log, p, now) \in [Stores -> Seq(Nat)]
              /\ \A s \in Stores : Logged(log, p, now)[s] =
                                     IF s = S THEN Newest(log[S], now) ELSE log[s]
  <2>1. Newest(log[S], now) \in Seq(Nat)
    BY <1>5, <1>7, NewestEntries
  <2> QED
    BY <1>5, <2>1 DEF Logged
<1>12. AdmissionTypes'
  <2>1. windows' \in [Stores -> [Keys -> [window : Windows, changedAt : Nat]]]
    BY <1>1, <1>3, <1>5, <1>7, <1>8, <1>9 DEF AdmissionTypes
  <2>2. passed' \in [Stores -> Seq(Nat)] /\ charged' \in [Stores -> Seq(Nat)]
    BY <1>1, <1>9, <1>11 DEF AdmissionTypes, Answer
  <2>3. refused' \in Stores \cup {Missing}
    BY <1>5, <1>9 DEF Answer
  <2>4. reported' \in BOOLEAN
    BY <1>2 DEF Warns
  <2> QED
    BY <1>1, <1>2, <2>1, <2>2, <2>3, <2>4 DEF AdmissionTypes
<1>13. ASSUME NEW s \in Stores, NEW j \in Keys
       PROVE  windows'[s][j].changedAt <= time'
  <2>1. CASE s = S /\ j = k
    BY <1>2, <1>7, <1>10, <2>1
  <2>2. CASE ~(s = S /\ j = k)
    BY <1>2, <1>10, <2>2 DEF AdmissionInv
  <2> QED
    BY <2>1, <2>2
<1>14. ASSUME ~reported', NEW s \in Stores
       PROVE  LET h == windows'[s][watched']
              IN  /\ InOrder(h.window, h.changedAt)
                  /\ PassesFit(passed'[s], h.window, h.changedAt)
                  /\ ChargesFit(charged'[s], h.window, h.changedAt)
  <2>1. k = v /\ watched' = watched
    BY <1>2, <1>3, <1>14
  <2>2. LET h == windows[s][watched]
        IN  /\ InOrder(h.window, h.changedAt)
            /\ PassesFit(passed[s], h.window, h.changedAt)
            /\ ChargesFit(charged[s], h.window, h.changedAt)
    BY <1>1 DEF AdmissionInv
  <2>3. CASE v = watched /\ s = S
    <3>1. InOrder(w, t) /\ PassesFit(passed[S], w, t) /\ ChargesFit(charged[S], w, t)
      BY <2>1, <2>2, <2>3 DEF w, t
    <3>2. windows'[s][watched'] = [window |-> next, changedAt |-> now]
      BY <1>3, <1>10, <2>1, <2>3
    <3>3. passed[S] \in Seq(Nat) /\ charged[S] \in Seq(Nat)
      BY <1>1, <1>5 DEF AdmissionTypes
    <3>4. InOrder(next, now) /\ (IsBlocked(next, now) <=> next.totalHits = Limit + 1)
      BY <1>6, <1>7, <3>1, HitKeepsOrder DEF next
    <3>5. charged'[s] = Newest(charged[S], now)
      BY <1>1, <1>9, <1>11, <2>3 DEF AdmissionTypes
    <3>6. ChargesFit(charged'[s], next, now)
      BY <1>6, <1>7, <3>1, <3>3, <3>5, ChargeFits DEF next
    <3>7. PassesFit(passed'[s], next, now)
      <4>1. CASE passed' = passed
        BY <1>6, <1>7, <2>3, <3>1, <3>3, <4>1, RefusalFits DEF next
      <4>2. CASE ~IsBlocked(next, now) /\ passed' = Logged(passed, p, now)
        <5>1. passed'[s] = Newest(passed[S], now)
          BY <1>1, <1>11, <2>3, <4>2 DEF AdmissionTypes
        <5>2. next.totalHits <= Limit
          BY <1>8, <3>4, <4>2, ThrottleAssumption DEF InOrder, Windows
        <5> QED
          BY <1>6, <1>7, <3>1, <3>3, <5>1, <5>2, PassFits DEF next
      <4> QED
        BY <1>9, <2>3, <4>1, <4>2 DEF Answer
    <3> QED
      BY <3>2, <3>4, <3>6, <3>7
  <2>4. CASE ~(v = watched /\ s = S)
    <3>1. windows'[s][watched'] = windows[s][watched]
      BY <1>5, <1>10, <2>1, <2>4
    <3>2. passed'[s] = passed[s] /\ charged'[s] = charged[s]
      BY <1>1, <1>9, <1>11, <2>4 DEF AdmissionTypes, Answer
    <3> QED
      BY <2>2, <3>1, <3>2
  <2> QED
    BY <2>3, <2>4
<1>15. RefusalsAreEarned'
  <2>1. SUFFICES ASSUME ~reported', refused' # Missing
                 PROVE  /\ Len(charged'[refused']) > Limit
                        /\ charged'[refused'][1] - charged'[refused'][Limit + 1] < Ttl
    BY DEF RefusalsAreEarned
  <2>2. k = v /\ watched' = watched
    BY <1>2, <1>3, <2>1
  <2>3. v = watched /\ IsBlocked(next, now) /\ refused' = S
    BY <1>5, <1>9, <2>1 DEF Answer
  <2>4. windows'[S][watched'] = [window |-> next, changedAt |-> now]
    BY <1>3, <1>5, <1>10, <2>2, <2>3
  <2>5. InOrder(next, now) /\ ChargesFit(charged'[S], next, now)
    BY <1>5, <1>14, <2>1, <2>4
  <2>6. next.totalHits = Limit + 1
    <3>1. InOrder(w, t)
      BY <1>1, <1>5, <2>2, <2>3 DEF AdmissionInv, w, t
    <3> QED
      BY <1>6, <1>7, <2>3, <3>1, HitKeepsOrder DEF next
  <2>7. charged'[S] \in Seq(Nat) /\ charged'[S][1] <= now
    <3>1. charged'[S] = Newest(charged[S], now) /\ charged[S] \in Seq(Nat)
      BY <1>1, <1>5, <1>9, <1>11, <2>3 DEF AdmissionTypes
    <3> QED
      BY <1>7, <3>1, NewestEntries
  <2> QED
    BY <1>7, <1>8, <2>3, <2>5, <2>6, <2>7, FullWindowIsEarned
<1> QED
  BY <1>12, <1>13, <1>14, <1>15 DEF AdmissionInv

-------------------------------------------------------------------------------
(* The theorems.                                                           *)

LEMMA AdmissionStep == AdmissionInv /\ [AdmissionNext]_admissionVars => AdmissionInv'
<1> SUFFICES ASSUME AdmissionInv, [AdmissionNext]_admissionVars PROVE AdmissionInv'
  OBVIOUS
<1>1. config.running \subseteq Processes
  BY DEF AdmissionInv, AdmissionTypes
<1>2. CASE UNCHANGED admissionVars
  BY <1>2 DEF AdmissionInv, AdmissionTypes, RefusalsAreEarned, admissionVars, logs
<1> QED
  BY <1>1, <1>2, TimePassesInv, ChangePolicyInv, RestartInv, AdmitInv DEF AdmissionNext

(***************************************************************************)
(* The invariant of a request's way to the window.                         *)
(***************************************************************************)
THEOREM AdmissionInvariant == AdmissionSpec => []AdmissionInv
<1>1. AdmissionInit => AdmissionInv
  BY InitAdmissionInv
<1> QED
  BY <1>1, AdmissionStep, PTL DEF AdmissionSpec

(***************************************************************************)
(* Type correctness, for any visitors, processes and environments.         *)
(***************************************************************************)
THEOREM AdmissionTypesHold == AdmissionSpec => []AdmissionTypes
<1>1. AdmissionInv => AdmissionTypes
  BY DEF AdmissionInv
<1> QED
  BY <1>1, AdmissionInvariant, PTL

(***************************************************************************)
(* A window passes from any request of a visitor to the one that makes it  *)
(* 2 * Limit, in all the processes that share a table                      *)
(* (throttle-window.ts 62-76, client-tracker.ts 49-71).                    *)
(***************************************************************************)
THEOREM AdmissionKeepsTheBudget == AdmissionSpec => []BudgetPerInterval
<1>1. AdmissionInv => BudgetPerInterval
  BY DEF AdmissionInv, BudgetPerInterval, PassesFit, Remembered
<1> QED
  BY <1>1, AdmissionInvariant, PTL

(***************************************************************************)
(* Nobody is refused for what somebody else has sent                       *)
(* (client-tracker.ts 49-71, edge-origin.guard.ts 51-67).                  *)
(***************************************************************************)
THEOREM AdmissionRefusesForAReason == AdmissionSpec => []RefusalsAreEarned
<1>1. AdmissionInv => RefusalsAreEarned
  BY DEF AdmissionInv
<1> QED
  BY <1>1, AdmissionInvariant, PTL
===============================================================================
