----------------------------- MODULE SessionsProofs -----------------------------
(***************************************************************************)
(* Exchange codes are single-use and their tokens current; sessions keep   *)
(* what the exchange promises, and no token opens more than it should: for *)
(* every number of codes, requests and users, and every lifetime.          *)
(***************************************************************************)
EXTENDS Sessions, TLAPS

(***************************************************************************)
(* Part 1: the exchange.                                                   *)
(***************************************************************************)
Stored == {"pruning", "delivered", "orphaned"}
Holders == {"checking", "reading", "granted"}

\* A stored row belongs to an existing account, through the cascade.
RowsAreOwned ==
    \A c \in rows : mint[c] \in Stored /\ owner[c] \in Users /\ role[owner[c]] # "none"

\* A code leaves idle only with an owner.
MintsAreOwned ==
    \A c \in Codes : mint[c] # "idle" => owner[c] \in Users

\* Whoever is past the claim has taken the row away, and it cannot come back.
ClaimsAreExclusive ==
    \A x \in Exchanges :
        /\ pc[x] # "idle" => presented[x] \in Codes /\ mint[presented[x]] = "delivered"
        /\ pc[x] \in Holders => presented[x] \notin rows

\* The history of a claim holds the account's role for as long as it exists.
HeldIsCurrent ==
    \A x \in Exchanges :
        /\ pc[x] \in {"checking", "reading"} =>
              role[owner[presented[x]]] \in held[x] \cup {"none"}
        /\ pc[x] = "granted" => tokenRole[x] \in held[x]

IInv ==
    /\ TypeInvariant
    /\ RowsAreOwned
    /\ MintsAreOwned
    /\ ClaimsAreExclusive
    /\ HeldIsCurrent
    /\ OneWinner

LEMMA InitIInv == Init => IInv
BY ExchangeAssumption DEF Init, IInv, TypeInvariant, RowsAreOwned, MintsAreOwned,
    ClaimsAreExclusive, HeldIsCurrent, OneWinner, MintStates, ExchangeStates, Holders

-------------------------------------------------------------------------------
(* Type correctness, one step per action.                                  *)

LEMMA NextTypes == IInv /\ [Next]_vars => TypeInvariant'
<1> SUFFICES ASSUME IInv, [Next]_vars PROVE TypeInvariant'
    OBVIOUS
<1> USE DEF IInv, TypeInvariant, accountVars, mintVars, exchangeVars,
            MintStates, ExchangeStates
<1>1. CASE Tick
  BY <1>1 DEF Tick
<1>2. ASSUME NEW c \in Codes, NEW u \in Users, MintStart(c, u) PROVE TypeInvariant'
  BY <1>2, ExchangeAssumption DEF MintStart
<1>3. ASSUME NEW c \in Codes, Insert(c) PROVE TypeInvariant'
  BY <1>3 DEF Insert
<1>4. ASSUME NEW c \in Codes, InsertFails(c) PROVE TypeInvariant'
  BY <1>4 DEF InsertFails
<1>5. ASSUME NEW c \in Codes, Prune(c) PROVE TypeInvariant'
  BY <1>5 DEF Prune
<1>6. ASSUME NEW c \in Codes, PruneFails(c) PROVE TypeInvariant'
  BY <1>6 DEF PruneFails
<1>7. ASSUME NEW x \in Exchanges, NEW c \in Codes, Present(x, c) PROVE TypeInvariant'
  BY <1>7 DEF Present
<1>8. ASSUME NEW x \in Exchanges, Claim(x) PROVE TypeInvariant'
  <2>1. presented[x] \in rows => role[owner[presented[x]]] \in Roles
    BY DEF RowsAreOwned
  <2>2. QED BY <1>8, <2>1 DEF Claim
<1>9. ASSUME NEW x \in Exchanges, Check(x) PROVE TypeInvariant'
  BY <1>9 DEF Check
<1>10. ASSUME NEW x \in Exchanges, ReadUser(x) PROVE TypeInvariant'
  <2>1. presented[x] \in Codes /\ owner[presented[x]] \in Users
    BY <1>10 DEF ReadUser, ClaimsAreExclusive, MintsAreOwned
  <2>2. QED BY <1>10, <2>1 DEF ReadUser, ClaimedRole
<1>11. ASSUME NEW x \in Exchanges, ExchangeFails(x) PROVE TypeInvariant'
  BY <1>11 DEF ExchangeFails
<1>12. ASSUME NEW u \in Users, ChangeRole(u) PROVE TypeInvariant'
  BY <1>12 DEF ChangeRole
<1>13. ASSUME NEW u \in Users, DeleteUser(u) PROVE TypeInvariant'
  BY <1>13 DEF DeleteUser
<1>14. CASE UNCHANGED vars
  BY <1>14 DEF vars
<1>15. QED BY <1>1, <1>2, <1>3, <1>4, <1>5, <1>6, <1>7, <1>8, <1>9, <1>10, <1>11,
           <1>12, <1>13, <1>14 DEF Next, MintStep, ExchangeStep

-------------------------------------------------------------------------------
(* The other parts of the invariant.                                       *)

LEMMA NextRowsAreOwned == IInv /\ [Next]_vars => RowsAreOwned' /\ MintsAreOwned'
<1> SUFFICES ASSUME IInv, [Next]_vars PROVE RowsAreOwned' /\ MintsAreOwned'
    OBVIOUS
<1> USE DEF IInv, TypeInvariant, accountVars, mintVars, exchangeVars, RowsAreOwned,
            MintsAreOwned, Stored
<1>1. CASE Tick
  BY <1>1 DEF Tick
<1>2. ASSUME NEW c \in Codes, NEW u \in Users, MintStart(c, u)
      PROVE  RowsAreOwned' /\ MintsAreOwned'
  BY <1>2 DEF MintStart
<1>3. ASSUME NEW c \in Codes, Insert(c) PROVE RowsAreOwned' /\ MintsAreOwned'
  BY <1>3 DEF Insert
<1>4. ASSUME NEW c \in Codes, InsertFails(c) PROVE RowsAreOwned' /\ MintsAreOwned'
  BY <1>4 DEF InsertFails
<1>5. ASSUME NEW c \in Codes, Prune(c) PROVE RowsAreOwned' /\ MintsAreOwned'
  BY <1>5 DEF Prune
<1>6. ASSUME NEW c \in Codes, PruneFails(c) PROVE RowsAreOwned' /\ MintsAreOwned'
  BY <1>6 DEF PruneFails
<1>7. ASSUME NEW x \in Exchanges, NEW c \in Codes, Present(x, c)
      PROVE  RowsAreOwned' /\ MintsAreOwned'
  BY <1>7 DEF Present
<1>8. ASSUME NEW x \in Exchanges, Claim(x) PROVE RowsAreOwned' /\ MintsAreOwned'
  BY <1>8 DEF Claim
<1>9. ASSUME NEW x \in Exchanges, Check(x) \/ ReadUser(x)
      PROVE  RowsAreOwned' /\ MintsAreOwned'
  BY <1>9 DEF Check, ReadUser
<1>10. ASSUME NEW x \in Exchanges, ExchangeFails(x)
       PROVE  RowsAreOwned' /\ MintsAreOwned'
  BY <1>10 DEF ExchangeFails
<1>11. ASSUME NEW u \in Users, ChangeRole(u) PROVE RowsAreOwned' /\ MintsAreOwned'
  BY <1>11 DEF ChangeRole, Roles
<1>12. ASSUME NEW u \in Users, DeleteUser(u) PROVE RowsAreOwned' /\ MintsAreOwned'
  BY <1>12 DEF DeleteUser
<1>13. CASE UNCHANGED vars
  BY <1>13 DEF vars
<1>14. QED BY <1>1, <1>2, <1>3, <1>4, <1>5, <1>6, <1>7, <1>8, <1>9, <1>10, <1>11,
           <1>12, <1>13 DEF Next, MintStep, ExchangeStep

LEMMA NextClaimsAreExclusive == IInv /\ [Next]_vars => ClaimsAreExclusive' /\ OneWinner'
<1> DEFINE Goal == ClaimsAreExclusive' /\ OneWinner'
<1> SUFFICES ASSUME IInv, [Next]_vars PROVE Goal
    OBVIOUS
<1> USE DEF IInv, TypeInvariant, accountVars, mintVars, exchangeVars,
            ClaimsAreExclusive, OneWinner, Holders
<1>1. CASE Tick
  BY <1>1 DEF Tick
<1>2. ASSUME NEW c \in Codes, NEW u \in Users, MintStart(c, u) PROVE Goal
  BY <1>2 DEF MintStart
<1>3. ASSUME NEW c \in Codes, Insert(c) PROVE Goal
  BY <1>3 DEF Insert
<1>4. ASSUME NEW c \in Codes, InsertFails(c) PROVE Goal
  BY <1>4 DEF InsertFails
<1>5. ASSUME NEW c \in Codes, Prune(c) PROVE Goal
  BY <1>5 DEF Prune
<1>6. ASSUME NEW c \in Codes, PruneFails(c) PROVE Goal
  BY <1>6 DEF PruneFails
<1>7. ASSUME NEW x \in Exchanges, NEW c \in Codes, Present(x, c) PROVE Goal
  BY <1>7 DEF Present
<1>8. ASSUME NEW x \in Exchanges, Claim(x) PROVE Goal
  <2>1. CASE presented[x] \in rows
    BY <1>8, <2>1 DEF Claim
  <2>2. CASE presented[x] \notin rows
    BY <1>8, <2>2 DEF Claim
  <2>3. QED BY <2>1, <2>2
<1>9. ASSUME NEW x \in Exchanges, Check(x) PROVE Goal
  BY <1>9 DEF Check
<1>10. ASSUME NEW x \in Exchanges, ReadUser(x) PROVE Goal
  BY <1>10 DEF ReadUser
<1>11. ASSUME NEW x \in Exchanges, ExchangeFails(x) PROVE Goal
  BY <1>11 DEF ExchangeFails
<1>12. ASSUME NEW u \in Users, ChangeRole(u) PROVE Goal
  BY <1>12 DEF ChangeRole
<1>13. ASSUME NEW u \in Users, DeleteUser(u) PROVE Goal
  BY <1>13 DEF DeleteUser
<1>14. CASE UNCHANGED vars
  BY <1>14 DEF vars
<1>15. QED BY <1>1, <1>2, <1>3, <1>4, <1>5, <1>6, <1>7, <1>8, <1>9, <1>10, <1>11,
           <1>12, <1>13, <1>14 DEF Next, MintStep, ExchangeStep

LEMMA NextHeldIsCurrent == IInv /\ [Next]_vars => HeldIsCurrent'
<1> SUFFICES ASSUME IInv, [Next]_vars PROVE HeldIsCurrent'
    OBVIOUS
<1> USE DEF IInv, TypeInvariant, accountVars, mintVars, exchangeVars, HeldIsCurrent
<1>1. CASE Tick
  BY <1>1 DEF Tick
<1>2. ASSUME NEW c \in Codes, NEW u \in Users, MintStart(c, u) PROVE HeldIsCurrent'
  BY <1>2 DEF MintStart, ClaimsAreExclusive
<1>3. ASSUME NEW c \in Codes, MintStep(c) PROVE HeldIsCurrent'
  BY <1>3 DEF MintStep, Insert, InsertFails, Prune, PruneFails
<1>4. ASSUME NEW x \in Exchanges, NEW c \in Codes, Present(x, c) PROVE HeldIsCurrent'
  BY <1>4 DEF Present
<1>5. ASSUME NEW x \in Exchanges, Claim(x) PROVE HeldIsCurrent'
  BY <1>5 DEF Claim
<1>6. ASSUME NEW x \in Exchanges, Check(x) PROVE HeldIsCurrent'
  BY <1>6 DEF Check
<1>7. ASSUME NEW x \in Exchanges, ReadUser(x) PROVE HeldIsCurrent'
  BY <1>7 DEF ReadUser, ClaimedRole, AccountGone
<1>8. ASSUME NEW x \in Exchanges, ExchangeFails(x) PROVE HeldIsCurrent'
  BY <1>8 DEF ExchangeFails
<1>9. ASSUME NEW u \in Users, ChangeRole(u) PROVE HeldIsCurrent'
  <2>1. PICK r \in Roles :
          /\ role' = [role EXCEPT ![u] = r]
          /\ held' = [x \in Exchanges |->
                        IF x \in Holding(u) THEN held[x] \cup {r} ELSE held[x]]
    BY <1>9 DEF ChangeRole
  <2>2. UNCHANGED <<mintVars, pc, presented, tokenRole>>
    BY <1>9 DEF ChangeRole
  <2>3. ASSUME NEW x \in Exchanges, pc[x] \in {"checking", "reading"}
        PROVE  role'[owner[presented[x]]] \in held'[x] \cup {"none"}
    <3>1. CASE owner[presented[x]] = u
      BY <2>1, <2>3, <3>1 DEF Holding
    <3>2. CASE owner[presented[x]] # u
      <4>1. presented[x] \in Codes /\ owner[presented[x]] \in Users
        BY <2>3 DEF ClaimsAreExclusive, MintsAreOwned
      <4>2. QED BY <2>1, <2>3, <3>2, <4>1
    <3>3. QED BY <3>1, <3>2
  <2>4. ASSUME NEW x \in Exchanges, pc[x] = "granted" PROVE tokenRole[x] \in held'[x]
    BY <2>1, <2>4
  <2>5. QED BY <2>2, <2>3, <2>4
<1>10. ASSUME NEW u \in Users, DeleteUser(u) PROVE HeldIsCurrent'
  BY <1>10 DEF DeleteUser
<1>11. CASE UNCHANGED vars
  BY <1>11 DEF vars
<1>12. QED BY <1>1, <1>2, <1>3, <1>4, <1>5, <1>6, <1>7, <1>8, <1>9, <1>10, <1>11
           DEF Next, ExchangeStep

LEMMA NextIInv == IInv /\ [Next]_vars => IInv'
BY NextTypes, NextRowsAreOwned, NextClaimsAreExclusive, NextHeldIsCurrent DEF IInv

\* Rows are owned, claims exclusive and the history of a claim current.
THEOREM ExchangeInvariant == Spec => []IInv
<1>1. QED BY InitIInv, NextIInv, PTL DEF Spec

\* Every variable stays within its type.
THEOREM ExchangeTypes == Spec => []TypeInvariant
<1>1. IInv => TypeInvariant
  BY DEF IInv
<1>2. QED BY <1>1, ExchangeInvariant, PTL

\* However many requests present one code, at most one gets past the claim.
THEOREM ExchangeHasOneWinner == Spec => []OneWinner
<1>1. IInv => OneWinner
  BY DEF IInv
<1>2. QED BY <1>1, ExchangeInvariant, PTL

\* A token's role is one its user has held since the code was claimed.
THEOREM ExchangeTokenIsCurrent == Spec => []TokenCarriesCurrentRole
<1>1. IInv => TokenCarriesCurrentRole
  BY DEF IInv, HeldIsCurrent, TokenCarriesCurrentRole
<1>2. QED BY <1>1, ExchangeInvariant, PTL

-------------------------------------------------------------------------------
(* No code is lost.                                                         *)

\* A code that is being delivered and that nobody has presented lasts as long as
\* its time and its account.
LastsUntilPresented ==
    /\ \A x \in Exchanges : pc[x] = "idle" => presented[x] = NoCode
    /\ \A c \in Codes :
        /\ mint[c] \in {"pruning", "delivered"}
        /\ clock <= expiresAt[c]
        /\ role[owner[c]] # "none"
        /\ \A x \in Exchanges : presented[x] # c
        => c \in rows

LEMMA InitLasts == Init => LastsUntilPresented
BY DEF Init, LastsUntilPresented

LEMMA NextLasts == IInv /\ LastsUntilPresented /\ [Next]_vars => LastsUntilPresented'
<1> SUFFICES ASSUME IInv, LastsUntilPresented, [Next]_vars PROVE LastsUntilPresented'
    OBVIOUS
<1> USE DEF IInv, TypeInvariant, accountVars, mintVars, exchangeVars, LastsUntilPresented,
            MintStates
<1>1. CASE Tick
  BY <1>1 DEF Tick
<1>2. ASSUME NEW c \in Codes, NEW u \in Users, MintStart(c, u) PROVE LastsUntilPresented'
  BY <1>2 DEF MintStart
<1>3. ASSUME NEW c \in Codes, Insert(c) \/ InsertFails(c) \/ PruneFails(c)
      PROVE  LastsUntilPresented'
  BY <1>3 DEF Insert, InsertFails, PruneFails
<1>4. ASSUME NEW c \in Codes, Prune(c) PROVE LastsUntilPresented'
  <2> PICK now \in expiresAt[c] - CodeTtl .. clock : rows' = {d \in rows : ~ExpiredAt(d, now)}
    BY <1>4 DEF Prune
  <2>1. now \in Int /\ now <= clock
    BY ExchangeAssumption
  <2>2. ASSUME NEW d \in Codes, d \in rows, clock <= expiresAt[d] PROVE d \in rows'
    BY <2>1, <2>2 DEF ExpiredAt
  <2> QED
    BY <1>4, <2>2 DEF Prune
<1>5. ASSUME NEW x \in Exchanges, NEW c \in Codes, Present(x, c) PROVE LastsUntilPresented'
  BY <1>5, ExchangeAssumption DEF Present, ClaimsAreExclusive
<1>6. ASSUME NEW x \in Exchanges, Claim(x) \/ ExchangeFails(x) PROVE LastsUntilPresented'
  BY <1>6 DEF Claim, ExchangeFails
<1>7. ASSUME NEW x \in Exchanges, Check(x) \/ ReadUser(x) PROVE LastsUntilPresented'
  BY <1>7 DEF Check, ReadUser
<1>8. ASSUME NEW u \in Users, ChangeRole(u) PROVE LastsUntilPresented'
  BY <1>8 DEF ChangeRole, MintsAreOwned
<1>9. ASSUME NEW u \in Users, DeleteUser(u) PROVE LastsUntilPresented'
  BY <1>9 DEF DeleteUser, MintsAreOwned
<1>10. CASE UNCHANGED vars
  BY <1>10 DEF vars
<1> QED
  BY <1>1, <1>2, <1>3, <1>4, <1>5, <1>6, <1>7, <1>8, <1>9, <1>10
     DEF Next, MintStep, ExchangeStep

\* The clean-up takes no code that could still be exchanged, and where it fails
\* the code goes out all the same.
THEOREM ExchangeLosesNoCode == Spec => []UnspentCodesSurvive
<1>1. IInv /\ LastsUntilPresented => UnspentCodesSurvive
  BY DEF IInv, RowsAreOwned, Stored, LastsUntilPresented, UnspentCodesSurvive
<1> QED
  BY <1>1, InitLasts, NextLasts, ExchangeInvariant, PTL DEF Spec

-------------------------------------------------------------------------------
(* Codes are one-time codes.                                                *)

Unissued == {"idle", "inserting", "failed"}
Deadline(c) == IF mint[c] \in Unissued THEN 0 ELSE expiresAt[c]

\* A deadline is never further off than a code may live.
DeadlinesAreNear ==
    \A c \in Codes : mint[c] # "idle" => expiresAt[c] <= clock + CodeTtl

LEMMA InitNear == Init => DeadlinesAreNear
BY DEF Init, DeadlinesAreNear

LEMMA NextNear == IInv /\ DeadlinesAreNear /\ [Next]_vars => DeadlinesAreNear'
<1> SUFFICES ASSUME IInv, DeadlinesAreNear, [Next]_vars PROVE DeadlinesAreNear'
    OBVIOUS
<1> USE ExchangeAssumption
     DEF IInv, TypeInvariant, accountVars, mintVars, exchangeVars, DeadlinesAreNear
<1>1. CASE Tick
  BY <1>1 DEF Tick
<1>2. ASSUME NEW c \in Codes, NEW u \in Users, MintStart(c, u) PROVE DeadlinesAreNear'
  BY <1>2 DEF MintStart
<1>3. ASSUME NEW c \in Codes, MintStep(c) PROVE DeadlinesAreNear'
  BY <1>3 DEF MintStep, Insert, InsertFails, Prune, PruneFails
<1>4. ASSUME NEW x \in Exchanges, ExchangeStep(x) \/ \E c \in Codes : Present(x, c)
      PROVE  DeadlinesAreNear'
  BY <1>4 DEF ExchangeStep, Claim, Check, ReadUser, ExchangeFails, Present
<1>5. ASSUME NEW u \in Users, ChangeRole(u) \/ DeleteUser(u) PROVE DeadlinesAreNear'
  BY <1>5 DEF ChangeRole, DeleteUser
<1>6. CASE UNCHANGED vars
  BY <1>6 DEF vars
<1> QED
  BY <1>1, <1>2, <1>3, <1>4, <1>5, <1>6 DEF Next

\* The life of a code whose row stays or stays away, whose holders stay where they
\* are, and which is not issued meanwhile, does not change.
LEMMA LifeStays ==
    ASSUME NEW c \in Codes, c \in rows' <=> c \in rows,
           mint'[c] \in Unissued <=> mint[c] \in Unissued,
           \A x \in Exchanges : presented'[x] = c /\ pc'[x] \in Holders
              => presented[x] = c /\ pc[x] = pc'[x],
           \A x \in Exchanges : presented[x] = c /\ pc[x] \in Holders
              => presented'[x] = c /\ pc[x] = pc'[x]
    PROVE  Life(c)' = Life(c)
<1>1. ASSUME NEW states, states \subseteq Holders PROVE HeldBy(c, states)' <=> HeldBy(c, states)
  BY <1>1 DEF HeldBy
<1>2. /\ HeldBy(c, {"checking"})' <=> HeldBy(c, {"checking"})
      /\ HeldBy(c, {"reading"})' <=> HeldBy(c, {"reading"})
      /\ HeldBy(c, {"granted"})' <=> HeldBy(c, {"granted"})
  BY <1>1 DEF Holders
<1> QED
  BY <1>2 DEF Life, Unissued

\* What life a code has.
LEMMA LifeOfRow ==
    ASSUME IInv, NEW c \in rows PROVE Life(c) = "live"
BY DEF Life

LEMMA LifeUnissued ==
    ASSUME IInv, NEW c \in Codes, mint[c] \in Unissued PROVE Life(c) = "unissued"
BY DEF Life, IInv, RowsAreOwned, Stored, Unissued, HeldBy, ClaimsAreExclusive

LEMMA LifeHeld ==
    ASSUME IInv, NEW x \in Exchanges, pc[x] \in {"checking", "reading"}
    PROVE  Life(presented[x]) = IF pc[x] = "checking" THEN "live" ELSE "accepted"
BY DEF Life, HeldBy, IInv, ClaimsAreExclusive, OneWinner, Holders

LEMMA LifeLost ==
    ASSUME NEW c \in Codes, c \notin rows, mint[c] \notin Unissued,
           \A x \in Exchanges : presented[x] = c => pc[x] \notin Holders
    PROVE  Life(c) = "void"
BY DEF Life, HeldBy, Holders, Unissued

\* Codes that only rows distinguish: those whose row goes are void.
LEMMA RowsVoid ==
    ASSUME IInv, rows' \subseteq rows, UNCHANGED <<clock, expiresAt, exchangeVars>>,
           \A c \in Codes : mint'[c] \in Unissued <=> mint[c] \in Unissued
    PROVE  Ticket!Void(rows \ rows')
<1> DEFINE S == rows \ rows'
<1>1. S \subseteq Codes
  BY DEF IInv, TypeInvariant
<1>2. ASSUME NEW c \in S PROVE Life(c) = "live"
  BY LifeOfRow
<1>3. ASSUME NEW c \in S PROVE Life(c)' = "void"
  <2>1. mint[c] \notin Unissued
    BY DEF IInv, RowsAreOwned, Stored, Unissued
  <2>2. \A x \in Exchanges : presented'[x] = c => pc'[x] \notin Holders
    BY DEF IInv, ClaimsAreExclusive, exchangeVars
  <2> QED
    BY <1>1, <2>1, <2>2 DEF Life, HeldBy, Holders, Unissued
<1>4. ASSUME NEW c \in Codes \ S PROVE Life(c)' = Life(c)
  BY LifeStays DEF exchangeVars
<1>5. \A c \in Codes : Deadline(c)' = Deadline(c)
  BY DEF Deadline
<1> QED
  BY <1>1, <1>2, <1>3, <1>4, <1>5 DEF Ticket!Void, Deadline, Unissued

\* An exchange moves on: at most its own code's life changes.
LEMMA ExchangeMoves ==
    ASSUME IInv, NEW x \in Exchanges,
           UNCHANGED <<clock, mintVars, presented>>,
           \A y \in Exchanges \ {x} : pc'[y] = pc[y],
           \A c \in Codes \ {presented[x]} : c \in rows' <=> c \in rows
    PROVE  /\ \A c \in Codes : Deadline(c)' = Deadline(c)
           /\ \A c \in Codes \ {presented[x]} : Life(c)' = Life(c)
<1>1. \A c \in Codes : Deadline(c)' = Deadline(c)
  BY DEF Deadline, mintVars
<1>2. ASSUME NEW c \in Codes \ {presented[x]} PROVE Life(c)' = Life(c)
  BY LifeStays DEF mintVars
<1> QED
  BY <1>1, <1>2

\* The steps of the one-time code, of one code.
LEMMA OneVoid ==
    ASSUME NEW c \in Codes, Life(c) \in {"live", "accepted"}, Life(c)' = "void",
           \A d \in Codes \ {c} : Life(d)' = Life(d),
           \A d \in Codes : Deadline(d)' = Deadline(d), UNCHANGED clock
    PROVE  Ticket!Next
<1>1. Ticket!Void({c})
  BY DEF Ticket!Void, Deadline, Unissued
<1> QED
  BY <1>1 DEF Ticket!Next

LEMMA OneAccepted ==
    ASSUME NEW c \in Codes, Life(c) = "live", Life(c)' = "accepted", clock <= Deadline(c),
           \A d \in Codes \ {c} : Life(d)' = Life(d),
           \A d \in Codes : Deadline(d)' = Deadline(d), UNCHANGED clock
    PROVE  Ticket!Next
<1>1. Ticket!Accept(c)
  BY DEF Ticket!Accept, Deadline, Unissued
<1> QED
  BY <1>1 DEF Ticket!Next

LEMMA OneRedeemed ==
    ASSUME NEW c \in Codes, Life(c) = "accepted", Life(c)' = "redeemed",
           \A d \in Codes \ {c} : Life(d)' = Life(d),
           \A d \in Codes : Deadline(d)' = Deadline(d), UNCHANGED clock
    PROVE  Ticket!Next
<1>1. Ticket!Redeem(c)
  BY DEF Ticket!Redeem, Deadline, Unissued
<1> QED
  BY <1>1 DEF Ticket!Next

LEMMA OneIssued ==
    ASSUME NEW c \in Codes, Life(c) = "unissued", Life(c)' = "live",
           Deadline(c)' \in 0 .. clock + CodeTtl,
           \A d \in Codes \ {c} : Life(d)' = Life(d),
           \A d \in Codes \ {c} : Deadline(d)' = Deadline(d), UNCHANGED clock
    PROVE  Ticket!Next
<1>1. Ticket!Issue(c)
  BY DEF Ticket!Issue, Deadline, Unissued
<1> QED
  BY <1>1 DEF Ticket!Next

LEMMA NothingHappens ==
    ASSUME \A d \in Codes : Life(d)' = Life(d),
           \A d \in Codes : Deadline(d)' = Deadline(d), UNCHANGED clock
    PROVE  UNCHANGED Ticket!vars
BY DEF Ticket!vars, Deadline, Unissued

\* Who has claimed a code decides alone what becomes of it.
LEMMA HolderRefines ==
    ASSUME IInv, NEW x \in Exchanges, pc[x] \in {"checking", "reading"},
           Check(x) \/ ReadUser(x) \/ ExchangeFails(x)
    PROVE  Ticket!Next
<1> DEFINE c == presented[x]
<1>1. c \in Codes /\ mint[c] = "delivered" /\ c \notin rows
  BY DEF IInv, ClaimsAreExclusive, Holders
<1>2. UNCHANGED <<clock, mintVars, presented, rows>> /\ \A y \in Exchanges \ {x} : pc'[y] = pc[y]
  BY DEF Check, ReadUser, ExchangeFails, accountVars, IInv, TypeInvariant
<1>3. \A y \in Exchanges \ {x} : presented[y] = c => pc[y] \notin Holders
  BY DEF IInv, OneWinner, Holders
<1>4. /\ \A d \in Codes : Deadline(d)' = Deadline(d)
      /\ \A d \in Codes \ {c} : Life(d)' = Life(d)
  BY <1>2, ExchangeMoves
<1>5. Life(c) = IF pc[x] = "checking" THEN "live" ELSE "accepted"
  BY LifeHeld
<1>6. /\ pc'[x] = "reading" => Life(c)' = "accepted"
      /\ pc'[x] = "granted" => Life(c)' = "redeemed"
      /\ pc'[x] \notin Holders => Life(c)' = "void"
  BY <1>1, <1>2, <1>3 DEF Life, HeldBy, Holders, mintVars
<1>7. \/ pc[x] = "checking" /\ ~ExpiredAt(c, clock) /\ pc'[x] = "reading"
      \/ pc[x] = "reading" /\ pc'[x] = "granted"
      \/ pc'[x] \in {"rejected", "failed"}
  BY DEF Check, ReadUser, ExchangeFails, IInv, TypeInvariant
<1>8. CASE pc[x] = "checking" /\ ~ExpiredAt(c, clock) /\ pc'[x] = "reading"
  <2>1. clock <= Deadline(c)
    BY <1>1, <1>8 DEF ExpiredAt, Deadline, Unissued, IInv, TypeInvariant
  <2> QED
    BY <1>1, <1>2, <1>4, <1>5, <1>6, <1>8, <2>1, OneAccepted
<1>9. CASE pc[x] = "reading" /\ pc'[x] = "granted"
  BY <1>1, <1>2, <1>4, <1>5, <1>6, <1>9, OneRedeemed
<1>10. CASE pc'[x] \in {"rejected", "failed"}
  BY <1>1, <1>2, <1>4, <1>5, <1>6, <1>10, OneVoid DEF Holders
<1> QED
  BY <1>7, <1>8, <1>9, <1>10

\* The claim takes a row along; until it is checked its code is live still.
LEMMA ClaimRefines ==
    ASSUME IInv, NEW x \in Exchanges, pc[x] = "claiming", Claim(x) \/ ExchangeFails(x)
    PROVE  Ticket!Next \/ UNCHANGED Ticket!vars
<1> DEFINE c == presented[x]
<1>1. c \in Codes /\ mint[c] = "delivered"
  BY DEF IInv, ClaimsAreExclusive
<1>2. /\ UNCHANGED <<clock, mintVars, presented>>
      /\ \A y \in Exchanges \ {x} : pc'[y] = pc[y]
      /\ \A d \in Codes \ {c} : d \in rows' <=> d \in rows
  BY DEF Claim, ExchangeFails, accountVars, IInv, TypeInvariant
<1>3. /\ \A d \in Codes : Deadline(d)' = Deadline(d)
      /\ \A d \in Codes \ {c} : Life(d)' = Life(d)
  BY <1>2, ExchangeMoves
<1>4. CASE c \in rows' \/ pc'[x] = "checking"
  <2>1. c \in rows
    BY <1>4 DEF Claim, ExchangeFails, IInv, TypeInvariant
  <2>2. Life(c) = "live" /\ Life(c)' = "live"
    BY <1>2, <1>4, <2>1 DEF Life, HeldBy
  <2> QED
    BY <1>2, <1>3, <2>2, NothingHappens
<1>5. CASE c \in rows /\ c \notin rows' /\ pc'[x] # "checking"
  <2>1. pc'[x] = "failed"
    BY <1>5 DEF Claim, ExchangeFails, IInv, TypeInvariant
  <2>2. \A y \in Exchanges : presented'[y] = c => pc'[y] \notin Holders
    BY <1>2, <1>5, <2>1 DEF IInv, ClaimsAreExclusive, Holders
  <2>3. Life(c) = "live" /\ Life(c)' = "void"
    BY <1>1, <1>2, <1>5, <2>2 DEF Life, HeldBy, Holders, mintVars
  <2> QED
    BY <1>1, <1>2, <1>3, <2>3, OneVoid
<1>6. CASE c \notin rows
  <2>1. pc'[x] \in {"rejected", "failed"} /\ c \notin rows'
    BY <1>6 DEF Claim, ExchangeFails, IInv, TypeInvariant
  <2>2. Life(c)' = Life(c)
    BY <1>1, <1>2, <1>6, <2>1, LifeStays DEF mintVars, Holders
  <2> QED
    BY <1>2, <1>3, <2>2, NothingHappens
<1> QED
  BY <1>4, <1>5, <1>6

\* A row that is there makes its code live, whether the callback knows it or not.
LEMMA IssueRefines ==
    ASSUME IInv, DeadlinesAreNear, NEW c \in Codes, Insert(c) \/ InsertFails(c)
    PROVE  Ticket!Next \/ UNCHANGED Ticket!vars
<1>1. /\ mint[c] = "inserting" /\ UNCHANGED <<clock, expiresAt, exchangeVars>>
      /\ \A d \in Codes \ {c} : mint'[d] = mint[d] /\ (d \in rows' <=> d \in rows)
  BY DEF Insert, InsertFails, accountVars, IInv, TypeInvariant
<1>2. ASSUME NEW d \in Codes \ {c} PROVE Life(d)' = Life(d) /\ Deadline(d)' = Deadline(d)
  BY <1>1, LifeStays DEF exchangeVars, Deadline
<1>3. Life(c) = "unissued" /\ c \notin rows /\ Deadline(c) = 0
  BY <1>1, LifeUnissued DEF Unissued, Deadline, IInv, RowsAreOwned, Stored
<1>4. \A x \in Exchanges : presented[x] = c => pc[x] \notin Holders
  BY <1>1 DEF IInv, ClaimsAreExclusive, Holders
<1>5. CASE c \in rows'
  <2>1. Life(c)' = "live"
    BY <1>5 DEF Life
  <2>2. Deadline(c)' = expiresAt[c]
    BY <1>1, <1>3, <1>5 DEF Insert, InsertFails, Deadline, Unissued, IInv, TypeInvariant
  <2>3. expiresAt[c] \in 0 .. clock + CodeTtl
    BY <1>1, ExchangeAssumption DEF IInv, TypeInvariant, DeadlinesAreNear
  <2> QED
    BY <1>1, <1>2, <1>3, <2>1, <2>2, <2>3, OneIssued
<1>6. CASE c \notin rows'
  <2>1. mint'[c] = "failed"
    BY <1>6 DEF Insert, InsertFails, IInv, TypeInvariant
  <2>2. Life(c)' = "unissued" /\ Deadline(c)' = 0
    BY <1>1, <1>4, <1>6, <2>1 DEF Life, HeldBy, Holders, Unissued, Deadline, exchangeVars
  <2> QED
    BY <1>1, <1>2, <1>3, <2>2, NothingHappens
<1> QED
  BY <1>5, <1>6

LEMMA InitRefines == Init => Ticket!Init
BY DEF Init, Ticket!Init, Life, HeldBy

LEMMA NextRefines ==
    ASSUME IInv, DeadlinesAreNear, [Next]_vars
    PROVE  [Ticket!Next]_(Ticket!vars)
<1>1. CASE Tick
  <2>1. \A c \in Codes : Life(c)' = Life(c) /\ Deadline(c)' = Deadline(c)
    BY <1>1 DEF Tick, mintVars, exchangeVars, Life, HeldBy, Deadline
  <2>2. Ticket!Tick
    BY <1>1, <2>1 DEF Tick, Ticket!Tick, Deadline, Unissued
  <2> QED
    BY <2>2 DEF Ticket!Next
<1>2. ASSUME NEW c \in Codes, NEW u \in Users, MintStart(c, u) PROVE UNCHANGED Ticket!vars
  <2>1. /\ mint[c] = "idle" /\ mint'[c] = "inserting"
        /\ \A d \in Codes \ {c} : mint'[d] = mint[d] /\ expiresAt'[d] = expiresAt[d]
        /\ UNCHANGED <<clock, rows, exchangeVars>>
    BY <1>2 DEF MintStart, accountVars, IInv, TypeInvariant
  <2>2. ASSUME NEW d \in Codes PROVE Life(d)' = Life(d) /\ Deadline(d)' = Deadline(d)
    BY <2>1, LifeStays DEF exchangeVars, Deadline, Unissued
  <2> QED
    BY <2>1, <2>2, NothingHappens
<1>3. ASSUME NEW c \in Codes, Insert(c) \/ InsertFails(c)
      PROVE  Ticket!Next \/ UNCHANGED Ticket!vars
  BY <1>3, IssueRefines
<1>4. ASSUME NEW c \in Codes, Prune(c) \/ PruneFails(c) PROVE Ticket!Next
  <2>1. rows' \subseteq rows /\ UNCHANGED <<clock, expiresAt, exchangeVars>>
    BY <1>4 DEF Prune, PruneFails, accountVars
  <2>2. \A d \in Codes : mint'[d] \in Unissued <=> mint[d] \in Unissued
    BY <1>4 DEF Prune, PruneFails, Unissued, IInv, TypeInvariant
  <2>3. Ticket!Void(rows \ rows') /\ rows \ rows' \in SUBSET Codes
    BY <2>1, <2>2, RowsVoid DEF IInv, TypeInvariant
  <2> QED
    BY <2>3 DEF Ticket!Next
<1>5. ASSUME NEW x \in Exchanges, NEW c \in Codes, Present(x, c) PROVE UNCHANGED Ticket!vars
  <2>1. /\ UNCHANGED <<clock, rows, mintVars>>
        /\ pc[x] = "idle" /\ pc'[x] = "claiming"
        /\ \A y \in Exchanges \ {x} : pc'[y] = pc[y] /\ presented'[y] = presented[y]
    BY <1>5 DEF Present, accountVars, IInv, TypeInvariant
  <2>2. ASSUME NEW d \in Codes PROVE Life(d)' = Life(d) /\ Deadline(d)' = Deadline(d)
    BY <2>1, LifeStays DEF mintVars, Deadline, Holders
  <2> QED
    BY <2>1, <2>2, NothingHappens
<1>6. ASSUME NEW x \in Exchanges, ExchangeStep(x) PROVE Ticket!Next \/ UNCHANGED Ticket!vars
  <2>1. \/ pc[x] = "claiming" /\ (Claim(x) \/ ExchangeFails(x))
        \/ pc[x] \in {"checking", "reading"} /\ (Check(x) \/ ReadUser(x) \/ ExchangeFails(x))
    BY <1>6 DEF ExchangeStep, Claim, Check, ReadUser, ExchangeFails
  <2> QED
    BY <2>1, ClaimRefines, HolderRefines
<1>7. ASSUME NEW u \in Users, ChangeRole(u) PROVE UNCHANGED Ticket!vars
  <2>1. UNCHANGED <<clock, rows, mintVars, pc, presented>>
    BY <1>7 DEF ChangeRole
  <2>2. \A d \in Codes : Life(d)' = Life(d) /\ Deadline(d)' = Deadline(d)
    BY <2>1 DEF mintVars, Life, HeldBy, Deadline
  <2> QED
    BY <2>1, <2>2, NothingHappens
<1>8. ASSUME NEW u \in Users, DeleteUser(u) PROVE Ticket!Next
  <2>1. rows' \subseteq rows /\ UNCHANGED <<clock, mint, expiresAt, exchangeVars>>
    BY <1>8 DEF DeleteUser, mintVars
  <2>2. Ticket!Void(rows \ rows') /\ rows \ rows' \in SUBSET Codes
    BY <2>1, RowsVoid DEF IInv, TypeInvariant
  <2> QED
    BY <2>2 DEF Ticket!Next
<1>9. CASE UNCHANGED vars
  <2>1. \A d \in Codes : Life(d)' = Life(d) /\ Deadline(d)' = Deadline(d)
    BY <1>9 DEF vars, mintVars, exchangeVars, Life, HeldBy, Deadline
  <2> QED
    BY <1>9, <2>1, NothingHappens DEF vars, accountVars
<1> QED
  BY <1>1, <1>2, <1>3, <1>4, <1>5, <1>6, <1>7, <1>8, <1>9 DEF Next, MintStep

\* Minting and exchanging, for any number of each, are a one-time code: accepted
\* once at most, not after its deadline, and gone afterwards.
THEOREM ExchangeIsOneTime == Spec => ImplementsOneTimeCode
<1>1. IInv /\ DeadlinesAreNear /\ [Next]_vars => [Ticket!Next]_(Ticket!vars)
  BY NextRefines
<1> QED
  BY <1>1, InitRefines, InitNear, NextNear, ExchangeInvariant, PTL
     DEF Spec, ImplementsOneTimeCode, Ticket!Spec

-------------------------------------------------------------------------------
(***************************************************************************)
(* Part 2: sessions.                                                       *)
(***************************************************************************)
\* The steps of a session are steps of the exchange, or none.
LEMMA SessionSteps == [SessionNext]_sessionVars => [Next]_vars
<1> SUFFICES ASSUME [SessionNext]_sessionVars PROVE [Next]_vars
    OBVIOUS
<1>1. CASE Begins
  BY <1>1 DEF Begins, Next, ReadLogin, Arrive
<1>2. CASE Continues
  BY <1>2 DEF Continues, Next, Exchange, VerifyLogin, Guard, GuardFails, SetBanned,
     RemoveUser
<1>3. CASE UNCHANGED sessionVars
  BY <1>3 DEF sessionVars
<1>4. QED BY <1>1, <1>2, <1>3 DEF SessionNext

\* Whatever holds of the exchange holds with logins, visits and bans around it.
THEOREM SessionsRunTheExchange == SessionSpec => Spec
<1>1. SessionInit => Init
  BY DEF SessionInit
<1>2. QED BY <1>1, SessionSteps, PTL DEF SessionSpec, Spec

\* A token's role is one its user has held since the code was claimed.
THEOREM SessionTokenIsCurrent == SessionSpec => []TokenCarriesCurrentRole
BY SessionsRunTheExchange, ExchangeTokenIsCurrent, PTL

\* The clean-up takes no code that could still be exchanged, whoever is banned or
\* removed and whatever the code's owner does besides.
THEOREM SessionsLoseNoCode == SessionSpec => []UnspentCodesSurvive
BY SessionsRunTheExchange, ExchangeLosesNoCode, PTL

\* Codes stay one-time codes.
THEOREM SessionCodesAreOneTime == SessionSpec => ImplementsOneTimeCode
BY SessionsRunTheExchange, ExchangeIsOneTime, PTL

-------------------------------------------------------------------------------
(* The inductive invariant.                                                *)

\* Who has signed has ended, and signs no more.
SignedOnce ==
    /\ \A x \in Exchanges : tokens[x] # NoToken => pc[x] = "granted"
    /\ \A l \in Logins : tokens[l] # NoToken => attempt[l].at = "over"

\* What a token or a login has read of a role, the history has seen.
ReadInReign(row) == row.role = "admin" => row.readAt <= reign[row.user]

ReignIsKept ==
    /\ \A u \in Users : reign[u] <= clock /\ (role[u] = "admin" => reign[u] = clock)
    /\ \A s \in Sources : tokens[s] # NoToken => ReadInReign(tokens[s])
    /\ \A l \in Logins : attempt[l].at = "verifying" => ReadInReign(attempt[l])

\* A visit that waits for its guard brings a token, and its history is complete.
Watched(v) ==
    LET t == tokens[visit[v].source] IN
    /\ visit[v].source \in Sources
    /\ visit[v].route \in Routes
    /\ t \in Tokens
    /\ t.user \in banned \/ v \in free
    /\ visit[v].route = "profile" => role[t.user] \in seen[v]
    /\ visit[v].route # "profile" => arrived[v] < t.signedAt + TokenTtl

VisitsAreWatched == \A v \in Visits : visit[v].at = "reading" => Watched(v)

SInv ==
    /\ IInv
    /\ SessionTypes
    /\ SignedOnce
    /\ ReignIsKept
    /\ VisitsAreWatched

LEMMA InitSInv == SessionInit => SInv
<1> SUFFICES ASSUME SessionInit PROVE SInv
    OBVIOUS
<1>1. Init
  BY DEF SessionInit
<1>2. IInv
  BY <1>1, InitIInv
<1>3. SessionTypes
  BY <1>2 DEF SessionInit, Init, IInv, SessionTypes, Roles, VisitStates, Before, Idle
<1>4. SignedOnce
  BY DEF SessionInit, SignedOnce, Sources
<1>5. ReignIsKept
  BY DEF SessionInit, Init, ReignIsKept, Before
<1>6. VisitsAreWatched
  BY DEF SessionInit, VisitsAreWatched, Idle
<1>7. QED BY <1>2, <1>3, <1>4, <1>5, <1>6 DEF SInv

-------------------------------------------------------------------------------
(* Tokens.                                                                 *)

\* The two ways in which a token comes to be.
LEMMA ExchangeSigns ==
    ASSUME SInv, NEW x \in Exchanges, Exchange(x), pc'[x] = "granted", pc[x] # "granted"
    PROVE  tokens' = [tokens EXCEPT ![x] =
                        Token(owner[presented[x]], role[owner[presented[x]]], clock)]
           /\ owner[presented[x]] \in Users /\ role[owner[presented[x]]] \in Roles
           /\ UNCHANGED <<clock, role>>
<1> USE DEF SInv, IInv, TypeInvariant
<1>1. ReadUser(x) /\ ~AccountGone(x)
  BY DEF Exchange, ExchangeStep, Claim, Check, ReadUser, ExchangeFails, ExchangeStates
<1>2. presented[x] \in Codes /\ owner[presented[x]] \in Users
  BY <1>1 DEF ReadUser, ClaimsAreExclusive, MintsAreOwned
<1>3. tokenRole'[x] = role[owner[presented[x]]]
  BY <1>1 DEF ReadUser, ClaimedRole
<1>4. QED BY <1>1, <1>2, <1>3 DEF Exchange, ReadUser, AccountGone, accountVars

\* An exchange that has signed does nothing more.
LEMMA GrantedIsFinal ==
    ASSUME SInv, NEW x \in Exchanges, Exchange(x)
    PROVE  pc[x] # "granted" /\ \A y \in Exchanges \ {x} : pc'[y] = pc[y]
BY DEF SInv, IInv, TypeInvariant, Exchange, ExchangeStep, Claim, Check, ReadUser, ExchangeFails

LEMMA NextTokens ==
    SInv /\ SessionNext =>
        /\ tokens' \in [Sources -> Tokens \cup {NoToken}]
        /\ \A s \in Sources : tokens[s] # NoToken => tokens'[s] = tokens[s]
        /\ SignedOnce'
<1> DEFINE Goal == /\ tokens' \in [Sources -> Tokens \cup {NoToken}]
                   /\ \A s \in Sources : tokens[s] # NoToken => tokens'[s] = tokens[s]
                   /\ SignedOnce'
<1> SUFFICES ASSUME SInv, SessionNext PROVE Goal
    OBVIOUS
<1> USE SessionsAssumption DEF SInv, SessionTypes, SignedOnce, Sources
<1>1. clock \in Nat
  BY DEF TypeInvariant
<1>2. ASSUME NEW x \in Exchanges, Exchange(x) PROVE Goal
  <2>1. pc[x] # "granted" /\ \A y \in Exchanges \ {x} : pc'[y] = pc[y]
    BY <1>2, GrantedIsFinal
  <2>2. tokens[x] = NoToken
    BY <2>1
  <2>3. UNCHANGED attempt
    BY <1>2 DEF Exchange
  <2>4. CASE pc'[x] = "granted"
    <3>1. tokens' = [tokens EXCEPT ![x] =
                       Token(owner[presented[x]], role[owner[presented[x]]], clock)]
          /\ owner[presented[x]] \in Users /\ role[owner[presented[x]]] \in Roles
      BY <1>2, <2>1, <2>4, ExchangeSigns
    <3>2. Token(owner[presented[x]], role[owner[presented[x]]], clock) \in Tokens
      BY <1>1, <3>1 DEF Token, Tokens
    <3>3. QED BY <2>1, <2>2, <2>3, <2>4, <3>1, <3>2
  <2>5. CASE pc'[x] # "granted"
    <3>1. UNCHANGED tokens
      BY <1>2, <2>5 DEF Exchange
    <3>2. QED BY <2>1, <2>2, <2>3, <3>1
  <2>6. QED BY <2>4, <2>5
<1>3. ASSUME NEW l \in Logins, VerifyLogin(l) PROVE Goal
  <2>1. attempt[l].at = "verifying" /\ tokens[l] = NoToken
    BY <1>3 DEF VerifyLogin
  <2>2. UNCHANGED pc
    BY <1>3 DEF VerifyLogin, vars, exchangeVars
  <2>3. attempt' = [attempt EXCEPT ![l] = Over]
    BY <1>3 DEF VerifyLogin
  <2>4. Token(attempt[l].user, attempt[l].role, attempt[l].readAt) \in Tokens
    BY <1>1, <2>1 DEF Token, Tokens, Before, Over
  <2>5. CASE UNCHANGED tokens
    BY <2>1, <2>2, <2>3, <2>5 DEF Over
  <2>6. CASE tokens' = [tokens EXCEPT ![l] =
                          Token(attempt[l].user, attempt[l].role, attempt[l].readAt)]
    BY <2>1, <2>2, <2>3, <2>4, <2>6 DEF Over
  <2>7. QED BY <1>3, <2>5, <2>6 DEF VerifyLogin
<1>4. ASSUME NEW l \in Logins, ReadLogin(l) PROVE Goal
  <2>1. attempt[l].at = "before" /\ tokens[l] = NoToken
    BY <1>4 DEF ReadLogin, Before
  <2>2. UNCHANGED <<pc, tokens>> /\ \A k \in Logins \ {l} : attempt'[k] = attempt[k]
    BY <1>4 DEF ReadLogin, vars, exchangeVars
  <2>3. QED BY <2>1, <2>2
<1>5. ASSUME NEW x \in Exchanges, NEW c \in Codes, Present(x, c),
             UNCHANGED <<banned, attempt, tokens, visit>> PROVE Goal
  BY <1>5 DEF Present, TypeInvariant
<1>6. ASSUME UNCHANGED <<pc, attempt, tokens>> PROVE Goal
  BY <1>6
<1>7. CASE Begins
  BY <1>4, <1>5, <1>6, <1>7 DEF Begins, MintStart, exchangeVars, Arrive, vars
<1>8. CASE Continues
  BY <1>2, <1>3, <1>6, <1>8 DEF Continues, Tick, MintStep, Insert, InsertFails, Prune,
     PruneFails, ChangeRole, exchangeVars, Guard, GuardFails, SetBanned, RemoveUser,
     DeleteUser, vars
<1>9. QED BY <1>7, <1>8 DEF SessionNext

-------------------------------------------------------------------------------
(* The history and the visits.                                             *)

LEMMA ClockGoesOn == SInv /\ SessionNext => clock' \in Nat /\ clock <= clock'
<1> SUFFICES ASSUME SInv, SessionNext PROVE clock' \in Nat /\ clock <= clock'
    OBVIOUS
<1>1. [Next]_vars
  BY SessionSteps
<1>2. TypeInvariant /\ TypeInvariant'
  BY <1>1, NextTypes DEF SInv, IInv
<1>3. CASE Tick
  BY <1>2, <1>3 DEF Tick, TypeInvariant
<1>4. CASE UNCHANGED clock
  BY <1>2, <1>4 DEF TypeInvariant
<1>5. QED BY <1>1, <1>3, <1>4 DEF Next, vars, accountVars, MintStart, MintStep, Insert,
    InsertFails, Prune, PruneFails, ExchangeStep, Claim, Check, ReadUser, ExchangeFails,
    Present, ChangeRole, DeleteUser

\* The history only grows.
LEMMA NextReign ==
    ASSUME SInv, SessionNext
    PROVE  /\ reign' \in [Users -> Nat \cup {-1}]
           /\ \A u \in Users :
                 /\ reign[u] <= reign'[u] /\ reign'[u] <= clock'
                 /\ role'[u] = "admin" => reign'[u] = clock'
<1>1. clock \in Nat /\ clock' \in Nat /\ clock <= clock'
  BY ClockGoesOn DEF SInv, IInv, TypeInvariant
<1>2. reign' = [u \in Users |-> IF role'[u] = "admin" THEN clock' ELSE reign[u]]
  BY DEF SessionNext, Witness
<1>3. reign \in [Users -> Nat \cup {-1}] /\ \A u \in Users : reign[u] <= clock
  BY DEF SInv, SessionTypes, ReignIsKept
<1>4. ASSUME NEW u \in Users
      PROVE  /\ reign'[u] \in Nat \cup {-1}
             /\ reign[u] <= reign'[u] /\ reign'[u] <= clock'
             /\ role'[u] = "admin" => reign'[u] = clock'
  <2>1. reign[u] \in Int /\ reign[u] <= clock
    BY <1>3
  <2>2. CASE role'[u] = "admin"
    BY <1>1, <1>2, <2>1, <2>2
  <2>3. CASE role'[u] # "admin"
    <3>1. reign'[u] = reign[u]
      BY <1>2, <2>3
    <3>2. QED BY <1>1, <1>3, <2>1, <2>3, <3>1
  <2>4. QED BY <2>2, <2>3
<1>5. reign' \in [Users -> Nat \cup {-1}]
  <2>1. \A u \in Users :
           (IF role'[u] = "admin" THEN clock' ELSE reign[u]) \in Nat \cup {-1}
    BY <1>1, <1>3
  <2>2. QED BY <1>2, <2>1
<1>6. ASSUME NEW u \in Users
      PROVE  /\ reign[u] <= reign'[u] /\ reign'[u] <= clock'
             /\ role'[u] = "admin" => reign'[u] = clock'
  BY <1>4
<1>7. QED BY <1>5, <1>6

LEMMA NextReignIsKept == SInv /\ SessionNext => ReignIsKept'
<1> SUFFICES ASSUME SInv, SessionNext PROVE ReignIsKept'
    OBVIOUS
<1>1. \A u \in Users : /\ reign[u] <= reign'[u] /\ reign'[u] <= clock'
                       /\ role'[u] = "admin" => reign'[u] = clock'
  BY NextReign
<1>2. \A u \in Users : reign[u] \in Int /\ reign'[u] \in Int
  BY NextReign DEF SInv, SessionTypes
\* What has been read stays in the history.
<1>3. ASSUME NEW row, row.user \in Users, row.readAt \in Nat, ReadInReign(row)
      PROVE  row.role = "admin" => row.readAt <= reign'[row.user]
  BY <1>1, <1>2, <1>3 DEF ReadInReign
<1>4. ASSUME NEW s \in Sources, tokens'[s] # NoToken PROVE ReadInReign(tokens[s])'
  <2>1. CASE tokens[s] # NoToken
    <3>1. tokens'[s] = tokens[s]
      BY <2>1, NextTokens
    <3>2. tokens[s] \in Tokens /\ ReadInReign(tokens[s])
      BY <2>1 DEF SInv, SessionTypes, ReignIsKept
    <3>3. tokens[s].user \in Users /\ tokens[s].readAt \in Nat
      BY <3>2 DEF Tokens
    <3>4. QED BY <1>3, <3>1, <3>2, <3>3 DEF ReadInReign
  <2>2. CASE tokens[s] = NoToken
    <3>1. CASE \E x \in Exchanges : Exchange(x)
      <4>1. PICK x \in Exchanges : Exchange(x)
        BY <3>1
      <4>2. s = x /\ pc'[x] = "granted"
        BY <1>4, <2>2, <4>1 DEF Exchange, SInv, SessionTypes
      <4>3. tokens' = [tokens EXCEPT ![x] =
                         Token(owner[presented[x]], role[owner[presented[x]]], clock)]
            /\ owner[presented[x]] \in Users /\ UNCHANGED <<clock, role>>
        BY <4>1, <4>2, ExchangeSigns, GrantedIsFinal
      <4>4. tokens'[s] = Token(owner[presented[x]], role[owner[presented[x]]], clock)
        BY <4>2, <4>3 DEF SInv, SessionTypes
      <4>5. clock \in Int
        BY DEF SInv, IInv, TypeInvariant
      <4>6. QED BY <1>1, <4>3, <4>4, <4>5 DEF ReadInReign, Token
    <3>2. CASE \E l \in Logins : VerifyLogin(l)
      <4>1. PICK l \in Logins : VerifyLogin(l)
        BY <3>2
      <4>2. s = l /\ attempt[l].at = "verifying"
            /\ tokens'[s] = Token(attempt[l].user, attempt[l].role, attempt[l].readAt)
        BY <1>4, <2>2, <4>1 DEF VerifyLogin, SInv, SessionTypes
      <4>3. ReadInReign(attempt[l]) /\ attempt[l].user \in Users /\ attempt[l].readAt \in Nat
        BY <4>2 DEF SInv, ReignIsKept, SessionTypes, Before, Over
      <4>4. QED BY <1>3, <4>2, <4>3 DEF ReadInReign, Token
    <3>3. CASE UNCHANGED tokens
      BY <1>4, <2>2, <3>3
    <3>4. QED BY <3>1, <3>2, <3>3 DEF SessionNext, Begins, Continues, ReadLogin, Arrive,
         Guard, GuardFails, SetBanned, RemoveUser
  <2>3. QED BY <2>1, <2>2
<1>5. ASSUME NEW l \in Logins, attempt'[l].at = "verifying" PROVE ReadInReign(attempt[l])'
  <2>1. CASE attempt'[l] = attempt[l]
    <3>1. ReadInReign(attempt[l]) /\ attempt[l].user \in Users /\ attempt[l].readAt \in Nat
      BY <1>5, <2>1 DEF SInv, ReignIsKept, SessionTypes, Before, Over
    <3>2. QED BY <1>3, <2>1, <3>1 DEF ReadInReign
  <2>2. CASE ReadLogin(l)
    <3>1. PICK u \in Users : attempt'[l] = Verifying(u, role[u], clock)
      BY <1>5, <2>2 DEF ReadLogin, Over, SInv, SessionTypes
    <3>2. UNCHANGED <<clock, role>> /\ clock \in Int
      BY <2>2 DEF ReadLogin, vars, accountVars, SInv, IInv, TypeInvariant
    <3>3. QED BY <1>1, <3>1, <3>2 DEF ReadInReign, Verifying
  <2>3. ASSUME NEW k \in Logins, ReadLogin(k) \/ VerifyLogin(k) PROVE
          \/ attempt'[l] = attempt[l] \/ ReadLogin(l) \/ attempt'[l] = Over
    <3>1. k # l => attempt'[l] = attempt[l]
      BY <2>3 DEF ReadLogin, VerifyLogin, SInv, SessionTypes
    <3>2. VerifyLogin(l) => attempt'[l] = Over
      BY DEF VerifyLogin, SInv, SessionTypes
    <3>3. QED BY <2>3, <3>1, <3>2
  <2>4. CASE UNCHANGED attempt
    BY <2>1, <2>4
  <2>5. QED BY <1>5, <2>1, <2>2, <2>3, <2>4 DEF SessionNext, Begins, Continues, Exchange,
       Arrive, Guard, GuardFails, SetBanned, RemoveUser, Over
<1>6. QED BY <1>1, <1>4, <1>5 DEF ReignIsKept

-------------------------------------------------------------------------------
(* What a visit can become in one step.                                    *)

\* A visit waits on, arrives with a valid token, or is done.
VisitStep(v) ==
    \/ visit'[v] = visit[v]
    \/ visit'[v].at # "reading" /\ visit'[v] \in VisitStates
    \/ /\ visit[v] = Idle
       /\ \E route \in Routes, s \in Sources :
             Verified(s) /\ visit'[v] = Reading(route, s)
       /\ UNCHANGED <<clock, role, banned, tokens>>

LEMMA ServedStates ==
    ASSUME NEW as \in Roles \cup {"nobody"}, NEW shown \in Roles \cup {"none"}
    PROVE  Served(as, shown) \in VisitStates /\ Served(as, shown).at = "served"
           /\ Served(as, shown).as = as /\ Served(as, shown).shown = shown
<1>1. \A a \in Roles \cup {"nobody"}, r \in Roles \cup {"none"} :
         Served(a, r) \in VisitStates
  BY DEF VisitStates
<1>2. QED BY <1>1 DEF Served

LEMMA OtherStates ==
    /\ Idle \in VisitStates /\ Idle.at = "idle"
    /\ Refused \in VisitStates /\ Refused.at = "refused"
    /\ \A route \in Routes, s \in Sources :
          /\ Reading(route, s) \in VisitStates /\ Reading(route, s).at = "reading"
          /\ Reading(route, s).route = route /\ Reading(route, s).source = s
<1>1. Idle \in VisitStates /\ Refused \in VisitStates
  BY DEF VisitStates
<1>2. ASSUME NEW route \in Routes, NEW s \in Sources
      PROVE  Reading(route, s) \in VisitStates
  BY DEF VisitStates
<1>3. QED BY <1>1, <1>2 DEF Idle, Refused, Reading

\* What a guard lets through, and as whom.
LEMMA AdmittedStates ==
    ASSUME SInv, NEW v \in Visits, visit[v].at = "reading"
    PROVE  \/ Admitted(v) = Refused
           \/ /\ visit[v].route = "profile"
              /\ role[Bearer(v)] \in Roles
              /\ Admitted(v) = Served("user", role[Bearer(v)])
           \/ visit[v].route = "admin" /\ Claimed(v) = "admin"
              /\ Admitted(v) = Served("admin", "none")
           \/ visit[v].route = "listing" /\ Claimed(v) \in Roles
              /\ Admitted(v) = Served(Claimed(v), "none")
<1>1. Watched(v)
  BY DEF SInv, VisitsAreWatched
<1>2. tokens[visit[v].source] \in Tokens
  BY <1>1 DEF Watched
<1>3. Bearer(v) \in Users /\ Claimed(v) \in Roles
  BY <1>2 DEF Bearer, Claimed, Tokens
<1>4. role[Bearer(v)] \in Roles \cup {"none"}
  BY <1>3 DEF SInv, IInv, TypeInvariant
<1>5. CASE visit[v].route = "profile"
  BY <1>4, <1>5 DEF Admitted, ProfileRole
<1>6. CASE visit[v].route = "admin"
  BY <1>6 DEF Admitted
<1>7. CASE visit[v].route = "listing"
  BY <1>3, <1>7 DEF Admitted
<1>8. visit[v].route \in Routes
  BY <1>1 DEF Watched
<1>9. QED BY <1>5, <1>6, <1>7, <1>8 DEF Routes

LEMMA VisitSteps == SInv /\ SessionNext => \A v \in Visits : VisitStep(v)
<1> SUFFICES ASSUME SInv, SessionNext, NEW v \in Visits PROVE VisitStep(v)
    OBVIOUS
<1>1. visit \in [Visits -> VisitStates]
  BY DEF SInv, SessionTypes
<1>2. CASE UNCHANGED visit
  BY <1>2 DEF VisitStep
<1>3. ASSUME NEW w \in Visits, Arrive(w) PROVE VisitStep(v)
  <2>1. CASE w # v
    BY <1>1, <1>3, <2>1 DEF Arrive, VisitStep
  <2>2. CASE w = v
    <3>1. PICK route \in Routes, s \in Sources :
            visit'[v] = IF Verified(s) THEN Reading(route, s)
                        ELSE IF route = "listing" THEN Served("nobody", "none")
                        ELSE Refused
      BY <1>1, <1>3, <2>2 DEF Arrive
    <3>2. CASE Verified(s)
      BY <1>3, <2>2, <3>1, <3>2 DEF Arrive, VisitStep, vars, accountVars
    <3>3. CASE ~Verified(s)
      BY <3>1, <3>3, ServedStates, OtherStates DEF VisitStep
    <3>4. QED BY <3>2, <3>3
  <2>3. QED BY <2>1, <2>2
<1>4. ASSUME NEW w \in Visits, Guard(w) \/ GuardFails(w) PROVE VisitStep(v)
  <2>1. CASE w # v
    BY <1>1, <1>4, <2>1 DEF Guard, GuardFails, VisitStep
  <2>2. CASE w = v
    <3>1. visit[v].at = "reading" /\ visit'[v] \in {Admitted(v), Served("nobody", "none"), Refused}
      BY <1>1, <1>4, <2>2 DEF Guard, GuardFails
    <3>2. Admitted(v) \in VisitStates /\ Admitted(v).at # "reading"
      BY <3>1, AdmittedStates, ServedStates, OtherStates DEF Roles
    <3>3. QED BY <3>1, <3>2, ServedStates, OtherStates DEF VisitStep
  <2>3. QED BY <2>1, <2>2
<1>5. QED BY <1>2, <1>3, <1>4 DEF SessionNext, Begins, Continues, Exchange, ReadLogin,
     VerifyLogin, SetBanned, RemoveUser

\* After a step, a visit that waits holds a token that was there before it.
LEMMA ReadingNext ==
    ASSUME SInv, SessionNext, NEW v \in Visits, visit'[v].at = "reading"
    PROVE  /\ visit'[v].source \in Sources /\ visit'[v].route \in Routes
           /\ tokens[visit'[v].source] \in Tokens
           /\ tokens'[visit'[v].source] = tokens[visit'[v].source]
           /\ \/ visit'[v] = visit[v] /\ Watched(v)
              \/ visit[v] = Idle /\ Verified(visit'[v].source)
<1> USE SessionsAssumption
<1>1. VisitStep(v)
  BY VisitSteps
<1>2. CASE visit'[v] = visit[v]
  <2>1. Watched(v)
    BY <1>2 DEF SInv, VisitsAreWatched
  <2>2. tokens[visit[v].source] # NoToken
    BY <2>1 DEF Watched
  <2>3. QED BY <1>2, <2>1, <2>2, NextTokens DEF Watched
<1>3. CASE visit'[v] # visit[v]
  <2>1. PICK route \in Routes, s \in Sources :
          /\ Verified(s) /\ visit'[v] = Reading(route, s) /\ visit[v] = Idle
          /\ UNCHANGED tokens
    BY <1>1, <1>3 DEF VisitStep
  <2>2. tokens[s] \in Tokens
    BY <2>1 DEF Verified, SInv, SessionTypes
  <2>3. QED BY <2>1, <2>2, OtherStates
<1>4. QED BY <1>2, <1>3

LEMMA NextVisitsAreWatched == SInv /\ SessionNext => VisitsAreWatched'
<1> SUFFICES ASSUME SInv, SessionNext, NEW v \in Visits, visit'[v].at = "reading"
             PROVE  Watched(v)'
    BY DEF VisitsAreWatched
<1> DEFINE t == tokens[visit'[v].source]
<1>1. /\ visit'[v].source \in Sources /\ visit'[v].route \in Routes
      /\ t \in Tokens /\ tokens'[visit'[v].source] = t
      /\ \/ visit'[v] = visit[v] /\ Watched(v)
         \/ visit[v] = Idle /\ Verified(visit'[v].source)
  BY ReadingNext
<1>2. t.user \in banned' \/ v \in free'
  BY DEF SessionNext, Witness
<1>3. visit'[v].route = "profile" => role'[t.user] \in seen'[v]
  BY DEF SessionNext, Witness
<1>4. visit'[v].route # "profile" => arrived'[v] < t.signedAt + TokenTtl
  <2>1. ASSUME visit'[v].route # "profile"
        PROVE  arrived'[v] = IF visit[v] = Idle THEN clock ELSE arrived[v]
    BY <1>1, <2>1 DEF SessionNext, Witness, Routes
  <2>2. CASE visit[v] = Idle
    <3>1. Verified(visit'[v].source)
      BY <1>1, <2>2, OtherStates
    <3>2. QED BY <2>1, <2>2, <3>1 DEF Verified
  <2>3. CASE visit[v] # Idle
    BY <1>1, <2>1, <2>3 DEF Watched
  <2>4. QED BY <2>2, <2>3
<1>5. QED BY <1>1, <1>2, <1>3, <1>4 DEF Watched

LEMMA NextSessionTypes == SInv /\ SessionNext => SessionTypes'
<1> SUFFICES ASSUME SInv, SessionNext PROVE SessionTypes'
    OBVIOUS
<1> USE DEF SInv
<1>1. TypeInvariant'
  BY SessionSteps, NextTypes
<1>2. tokens' \in [Sources -> Tokens \cup {NoToken}]
  BY NextTokens
<1>3. reign' \in [Users -> Nat \cup {-1}]
  BY NextReign
<1>4. banned' \subseteq Users
  BY DEF SessionTypes, SessionNext, Begins, Continues, Exchange, ReadLogin, VerifyLogin,
     Arrive, Guard, GuardFails, SetBanned, RemoveUser
<1>5. attempt' \in [Logins -> {Before, Over} \cup
          [at : {"verifying"}, user : Users, role : Roles, readAt : Nat]]
  <2> USE DEF SessionTypes
  <2>1. CASE UNCHANGED attempt
    BY <2>1
  <2>2. ASSUME NEW l \in Logins, VerifyLogin(l)
        PROVE  attempt' \in [Logins -> {Before, Over} \cup
                 [at : {"verifying"}, user : Users, role : Roles, readAt : Nat]]
    BY <2>2 DEF VerifyLogin
  <2>3. ASSUME NEW l \in Logins, ReadLogin(l)
        PROVE  attempt' \in [Logins -> {Before, Over} \cup
                 [at : {"verifying"}, user : Users, role : Roles, readAt : Nat]]
    <3>1. ASSUME NEW u \in Users, role[u] # "none"
          PROVE  Verifying(u, role[u], clock) \in
                   [at : {"verifying"}, user : Users, role : Roles, readAt : Nat]
      BY <3>1 DEF Verifying, IInv, TypeInvariant
    <3>2. QED BY <2>3, <3>1 DEF ReadLogin
  <2>4. QED BY <2>1, <2>2, <2>3 DEF SessionNext, Begins, Continues, Exchange, Arrive,
       Guard, GuardFails, SetBanned, RemoveUser
<1>6. visit' \in [Visits -> VisitStates]
  <2>1. visit' = [v \in Visits |-> visit'[v]]
    <3> USE DEF SessionTypes
    <3>1. CASE UNCHANGED visit
      BY <3>1
    <3>2. ASSUME NEW w \in Visits, Arrive(w) PROVE visit' = [v \in Visits |-> visit'[v]]
      BY <3>2 DEF Arrive
    <3>3. ASSUME NEW w \in Visits, Guard(w) \/ GuardFails(w)
          PROVE  visit' = [v \in Visits |-> visit'[v]]
      BY <3>3 DEF Guard, GuardFails
    <3>4. QED BY <3>1, <3>2, <3>3 DEF SessionNext, Begins, Continues, Exchange, ReadLogin,
         VerifyLogin, SetBanned, RemoveUser
  <2>2. \A v \in Visits : visit'[v] \in VisitStates
    BY VisitSteps, OtherStates DEF VisitStep, SessionTypes
  <2>3. QED BY <2>1, <2>2 DEF SessionTypes
<1>7. arrived' \in [Visits -> Nat] /\ free' \subseteq Visits
  <2>1. clock \in Nat /\ arrived \in [Visits -> Nat]
    BY DEF SessionTypes, IInv, TypeInvariant
  <2>2. QED BY <2>1 DEF SessionNext, Witness
<1>8. seen' \in [Visits -> SUBSET (Roles \cup {"none"})]
  <2>1. ASSUME NEW v \in Visits, visit'[v].at = "reading"
        PROVE  role'[tokens[visit'[v].source].user] \in Roles \cup {"none"}
    BY <1>1, <2>1, ReadingNext DEF TypeInvariant, Tokens
  <2>2. QED BY <2>1 DEF SessionNext, Witness, SessionTypes
<1>9. QED BY <1>1, <1>2, <1>3, <1>4, <1>5, <1>6, <1>7, <1>8 DEF SessionTypes

LEMMA NextSInv == SInv /\ [SessionNext]_sessionVars => SInv'
<1> SUFFICES ASSUME SInv, [SessionNext]_sessionVars PROVE SInv'
    OBVIOUS
<1>1. IInv'
  BY SessionSteps, NextIInv DEF SInv
<1>2. CASE SessionNext
  BY <1>1, <1>2, NextSessionTypes, NextTokens, NextReignIsKept, NextVisitsAreWatched DEF SInv
<1>3. CASE UNCHANGED sessionVars
  <2>1. UNCHANGED <<clock, role, pc, banned, attempt, tokens, visit, history>>
    BY <1>3 DEF sessionVars, vars, accountVars, exchangeVars
  <2>2. UNCHANGED <<reign, arrived, free, seen>>
    BY <2>1 DEF history
  <2>3. SessionTypes'
    BY <1>1, <2>1, <2>2 DEF SInv, IInv, SessionTypes
  <2>4. SignedOnce'
    BY <2>1 DEF SInv, SignedOnce
  <2>5. ReignIsKept'
    BY <2>1, <2>2 DEF SInv, ReignIsKept, ReadInReign
  <2>6. VisitsAreWatched'
    BY <2>1, <2>2 DEF SInv, VisitsAreWatched, Watched
  <2>7. QED BY <1>1, <2>3, <2>4, <2>5, <2>6 DEF SInv
<1>4. QED BY <1>2, <1>3

\* Tokens are signed once, and the history of a visit is complete while it waits.
THEOREM SessionsInvariant == SessionSpec => []SInv
BY InitSInv, NextSInv, PTL DEF SessionSpec

\* Every variable stays within its type.
THEOREM SessionsTypes == SessionSpec => []SessionTypes
<1>1. SInv => SessionTypes
  BY DEF SInv
<1>2. QED BY <1>1, SessionsInvariant, PTL

-------------------------------------------------------------------------------
(* What tokens open.                                                       *)

\* Whoever is served under a name has got past a guard that saw no ban.
LEMMA ServedAs ==
    ASSUME SInv, SessionNext, NEW v \in Visits, Serves(v)
    PROVE  /\ Watched(v)
           /\ \/ visit'[v].as = "nobody" /\ visit[v].route = "listing"
              \/ ~Barred(v) /\ visit'[v] = Admitted(v)
<1>1. visit[v].at = "reading" /\ visit'[v].at = "served" /\ visit \in [Visits -> VisitStates]
  BY DEF Serves, SInv, SessionTypes
<1>2. visit'[v] # visit[v]
  BY <1>1
<1>3. Guard(v)
  <2>1. ASSUME NEW w \in Visits, w # v, Arrive(w) \/ Guard(w) \/ GuardFails(w) PROVE FALSE
    BY <1>1, <1>2, <2>1 DEF Arrive, Guard, GuardFails
  <2>2. ~Arrive(v) /\ ~GuardFails(v)
    BY <1>1, OtherStates DEF Arrive, GuardFails
  <2>3. QED BY <1>2, <2>1, <2>2 DEF SessionNext, Begins, Continues, Exchange, ReadLogin,
       VerifyLogin, SetBanned, RemoveUser
<1>4. visit'[v] = IF ~Barred(v) THEN Admitted(v)
                  ELSE IF visit[v].route = "listing" THEN Served("nobody", "none")
                  ELSE Refused
  BY <1>1, <1>3 DEF Guard
<1>5. Watched(v)
  BY <1>1 DEF SInv, VisitsAreWatched
<1>6. QED BY <1>1, <1>4, <1>5, OtherStates DEF Served

\* No one is served who has been banned since the request came in.
THEOREM SessionsTurnBannedAway == SessionSpec => BannedAreTurnedAway
<1> DEFINE Step == \A v \in Visits : Serves(v) /\ visit'[v].as # "nobody" => v \in free
<1>1. SInv /\ SessionNext => Step
  <2> SUFFICES ASSUME SInv, SessionNext, NEW v \in Visits, Serves(v), visit'[v].as # "nobody"
               PROVE  v \in free
      OBVIOUS
  <2>1. Watched(v) /\ ~Barred(v)
    BY ServedAs
  <2>2. QED BY <2>1 DEF Watched, Barred, Bearer
<1>2. SInv /\ [SessionNext]_sessionVars => [Step]_sessionVars
  BY <1>1
<1>3. QED BY <1>2, SessionsInvariant, PTL DEF SessionSpec, BannedAreTurnedAway

\* The role ends with the token, and the token with its lifetime.
THEOREM SessionsEndTheRole == SessionSpec => AdminsActInTime
<1> DEFINE Step == \A v \in Visits :
        Serves(v) /\ visit'[v].as = "admin" =>
            LET t == tokens[visit[v].source] IN
            /\ t.readAt <= reign[t.user]
            /\ arrived[v] < t.signedAt + TokenTtl
<1>1. SInv /\ SessionNext => Step
  <2> SUFFICES ASSUME SInv, SessionNext, NEW v \in Visits, Serves(v), visit'[v].as = "admin"
               PROVE  /\ tokens[visit[v].source].readAt <= reign[tokens[visit[v].source].user]
                      /\ arrived[v] < tokens[visit[v].source].signedAt + TokenTtl
      OBVIOUS
  <2>1. Watched(v) /\ visit'[v] = Admitted(v)
    BY ServedAs
  <2>2. Claimed(v) = "admin" /\ visit[v].route # "profile"
    BY <2>1, AdmittedStates, ServedStates, OtherStates DEF Serves, Roles
  <2>3. ReadInReign(tokens[visit[v].source])
    BY <2>1, SessionsAssumption DEF Watched, SInv, ReignIsKept
  <2>4. QED BY <2>1, <2>2, <2>3 DEF Watched, ReadInReign, Claimed
<1>2. SInv /\ [SessionNext]_sessionVars => [Step]_sessionVars
  BY <1>1
<1>3. QED BY <1>2, SessionsInvariant, PTL DEF SessionSpec, AdminsActInTime

\* The profile shows the account, not the token.
THEOREM SessionsShowTheAccount == SessionSpec => ProfileIsCurrent
<1> DEFINE Step == \A v \in Visits :
        Serves(v) /\ visit[v].route = "profile" => visit'[v].shown \in seen[v]
<1>1. SInv /\ SessionNext => Step
  <2> SUFFICES ASSUME SInv, SessionNext, NEW v \in Visits, Serves(v),
                      visit[v].route = "profile"
               PROVE  visit'[v].shown \in seen[v]
      OBVIOUS
  <2>1. Watched(v) /\ visit'[v] = Admitted(v)
    BY ServedAs
  <2>2. visit'[v].shown = role[Bearer(v)]
    <3>1. Admitted(v) = Served("user", role[Bearer(v)]) /\ role[Bearer(v)] \in Roles
      BY <2>1, AdmittedStates, OtherStates DEF Serves
    <3>2. QED BY <2>1, <3>1, ServedStates DEF Roles
  <2>3. QED BY <2>1, <2>2 DEF Watched, Bearer
<1>2. SInv /\ [SessionNext]_sessionVars => [Step]_sessionVars
  BY <1>1
<1>3. QED BY <1>2, SessionsInvariant, PTL DEF SessionSpec, ProfileIsCurrent
===============================================================================
