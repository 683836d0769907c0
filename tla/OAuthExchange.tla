----------------------------- MODULE OAuthExchange -----------------------------
(***************************************************************************)
(* The exchange codes of an OAuth login (src/auth/auth.service.ts,         *)
(* createOAuthExchangeCode and exchangeOAuthCode): the provider callback   *)
(* mints a code for the user, the frontend trades it for a token in        *)
(* another HTTP call, possibly in another process.  The two meet only in   *)
(* the table oauth_exchange_codes.                                         *)
(*                                                                         *)
(* Every mint draws a fresh random code, so a code is named after its      *)
(* mint.  Each statement is its own Postgres transaction: handlers         *)
(* interleave between any two of them.                                     *)
(***************************************************************************)
EXTENDS Integers, FiniteSets

CONSTANTS Codes,      \* OAuth callbacks, each minting one code
          Exchanges,  \* POST /auth/exchange requests
          Users,      \* accounts
          CodeTtl,    \* OAUTH_EXCHANGE_CODE_TTL_MS
          NoCode, NoUser,
          MaxClock    \* bound: the clock stops here

ASSUME ExchangeAssumption ==
    /\ CodeTtl \in Nat
    /\ MaxClock \in Nat
    /\ NoCode \notin Codes
    /\ NoUser \notin Users

VARIABLES clock,      \* Date.now()
          role,       \* users.role, or "none" once the account is deleted
          rows,       \* codes present in oauth_exchange_codes
          mint,       \* where each callback is
          owner,      \* rows' user_id
          expiresAt,  \* rows' expires_at, as computed by the callback
          pc,         \* where each exchange is
          presented,  \* the code in its request
          tokenRole,  \* the role claim of the token it returned
          held        \* history: roles its user has held since the code was claimed

accountVars == <<clock, role>>
mintVars == <<mint, owner, expiresAt>>
exchangeVars == <<pc, presented, tokenRole, held>>
vars == <<accountVars, rows, mintVars, exchangeVars>>

Roles == {"user", "admin"}
MintStates == {"idle", "inserting", "pruning", "delivered", "failed", "orphaned"}
ExchangeStates == {"idle", "claiming", "checking", "reading",
                   "granted", "rejected", "failed"}

TypeInvariant ==
    /\ clock \in Nat
    /\ role \in [Users -> Roles \cup {"none"}]
    /\ rows \subseteq Codes
    /\ mint \in [Codes -> MintStates]
    /\ owner \in [Codes -> Users \cup {NoUser}]
    /\ expiresAt \in [Codes -> Nat]
    /\ pc \in [Exchanges -> ExchangeStates]
    /\ presented \in [Exchanges -> Codes \cup {NoCode}]
    /\ tokenRole \in [Exchanges -> Roles \cup {"none"}]
    /\ held \in [Exchanges -> SUBSET Roles]

Init ==
    /\ clock = 0
    /\ role \in [Users -> Roles]
    /\ rows = {}
    /\ mint = [c \in Codes |-> "idle"]
    /\ owner = [c \in Codes |-> NoUser]
    /\ expiresAt = [c \in Codes |-> 0]
    /\ pc = [x \in Exchanges |-> "idle"]
    /\ presented = [x \in Exchanges |-> NoCode]
    /\ tokenRole = [x \in Exchanges |-> "none"]
    /\ held = [x \in Exchanges |-> {}]

Tick ==
    /\ clock < MaxClock
    /\ clock' = clock + 1
    /\ UNCHANGED <<role, rows, mintVars, exchangeVars>>

-------------------------------------------------------------------------------
(* The callback: createOAuthExchangeCode.                                  *)

\* The strategy has just read or written the user; expires_at is computed here
\* and the INSERT sent.
MintStart(c, u) ==
    /\ mint[c] = "idle"
    /\ role[u] # "none"
    /\ mint' = [mint EXCEPT ![c] = "inserting"]
    /\ owner' = [owner EXCEPT ![c] = u]
    /\ expiresAt' = [expiresAt EXCEPT ![c] = clock + CodeTtl]
    /\ UNCHANGED <<accountVars, rows, exchangeVars>>

\* The foreign key admits the row only while its user exists.
Insert(c) ==
    /\ mint[c] = "inserting"
    /\ role[owner[c]] # "none"
    /\ rows' = rows \cup {c}
    /\ mint' = [mint EXCEPT ![c] = "pruning"]
    /\ UNCHANGED <<accountVars, owner, expiresAt, exchangeVars>>

\* The INSERT fails, by the foreign key or otherwise, or its answer is lost: the
\* error leaves the callback, and the code, stored or not, with nobody.
InsertFails(c) ==
    /\ mint[c] = "inserting"
    /\ \/ /\ mint' = [mint EXCEPT ![c] = "failed"]
          /\ UNCHANGED rows
       \/ /\ role[owner[c]] # "none"
          /\ mint' = [mint EXCEPT ![c] = "orphaned"]
          /\ rows' = rows \cup {c}
    /\ UNCHANGED <<accountVars, owner, expiresAt, exchangeVars>>

\* Mutant: a code counts as expired at its very deadline.
ExpiredAt_Inclusive(c, now) == expiresAt[c] <= now

\* DELETE ... WHERE expires_at < :now, with a `now` sampled when it was sent.
ExpiredAt(c, now) == expiresAt[c] < now

Prune(c) ==
    /\ mint[c] = "pruning"
    /\ \E now \in expiresAt[c] - CodeTtl .. clock :
          rows' = {d \in rows : ~ExpiredAt(d, now)}
    /\ mint' = [mint EXCEPT ![c] = "delivered"]
    /\ UNCHANGED <<accountVars, owner, expiresAt, exchangeVars>>

\* Mutant: a failed cleanup fails the callback.
PruneFails_Surfaces(c) ==
    /\ mint[c] = "pruning"
    /\ mint' = [mint EXCEPT ![c] = "failed"]
    /\ UNCHANGED <<accountVars, rows, owner, expiresAt, exchangeVars>>

\* A failed cleanup is logged and the code still goes out.
PruneFails(c) ==
    /\ mint[c] = "pruning"
    /\ mint' = [mint EXCEPT ![c] = "delivered"]
    /\ UNCHANGED <<accountVars, rows, owner, expiresAt, exchangeVars>>

MintStep(c) == Insert(c) \/ InsertFails(c) \/ Prune(c) \/ PruneFails(c)

-------------------------------------------------------------------------------
(* The exchange: exchangeOAuthCode.                                        *)

\* The redirect has put the code in the frontend's hands; it may present it
\* any number of times.
Present(x, c) ==
    /\ pc[x] = "idle"
    /\ mint[c] = "delivered"
    /\ pc' = [pc EXCEPT ![x] = "claiming"]
    /\ presented' = [presented EXCEPT ![x] = c]
    /\ UNCHANGED <<accountVars, rows, mintVars, tokenRole, held>>

\* Mutant: the claim selects the row and leaves deleting it for later.
Claim_Selects(x) ==
    /\ pc[x] = "claiming"
    /\ IF presented[x] \in rows
       THEN /\ pc' = [pc EXCEPT ![x] = "checking"]
            /\ held' = [held EXCEPT ![x] = {role[owner[presented[x]]]}]
       ELSE /\ pc' = [pc EXCEPT ![x] = "rejected"]
            /\ UNCHANGED held
    /\ UNCHANGED <<accountVars, rows, mintVars, presented, tokenRole>>

\* DELETE ... RETURNING: whoever removes the row holds it.
Claim(x) ==
    /\ pc[x] = "claiming"
    /\ IF presented[x] \in rows
       THEN /\ rows' = rows \ {presented[x]}
            /\ pc' = [pc EXCEPT ![x] = "checking"]
            /\ held' = [held EXCEPT ![x] = {role[owner[presented[x]]]}]
       ELSE /\ pc' = [pc EXCEPT ![x] = "rejected"]
            /\ UNCHANGED <<rows, held>>
    /\ UNCHANGED <<accountVars, mintVars, presented, tokenRole>>

\* Mutant: the deadline is not compared at all.
Check_Skipped(x) ==
    /\ pc[x] = "checking"
    /\ pc' = [pc EXCEPT ![x] = "reading"]
    /\ UNCHANGED <<accountVars, rows, mintVars, presented, tokenRole, held>>

\* The expiry is compared after the row is gone: an expired code is consumed.
Check(x) ==
    /\ pc[x] = "checking"
    /\ pc' = [pc EXCEPT ![x] =
                IF ExpiredAt(presented[x], clock) THEN "rejected" ELSE "reading"]
    /\ UNCHANGED <<accountVars, rows, mintVars, presented, tokenRole, held>>

\* toJwtPayload builds the claims from the row just read.
ClaimedRole(x) == role[owner[presented[x]]]

\* Mutant: the account is assumed to be there.
AccountGone_Never(x) == FALSE

AccountGone(x) == role[owner[presented[x]]] = "none"

ReadUser(x) ==
    /\ pc[x] = "reading"
    /\ IF AccountGone(x)
       THEN /\ pc' = [pc EXCEPT ![x] = "rejected"]
            /\ UNCHANGED tokenRole
       ELSE /\ pc' = [pc EXCEPT ![x] = "granted"]
            /\ tokenRole' = [tokenRole EXCEPT ![x] = ClaimedRole(x)]
    /\ UNCHANGED <<accountVars, rows, mintVars, presented, held>>

\* Either query fails; a failed DELETE may or may not have removed the row.
ExchangeFails(x) ==
    /\ pc[x] \in {"claiming", "reading"}
    /\ pc' = [pc EXCEPT ![x] = "failed"]
    /\ \/ UNCHANGED rows
       \/ pc[x] = "claiming" /\ rows' = rows \ {presented[x]}
    /\ UNCHANGED <<accountVars, mintVars, presented, tokenRole, held>>

ExchangeStep(x) == Claim(x) \/ Check(x) \/ ReadUser(x) \/ ExchangeFails(x)

-------------------------------------------------------------------------------
(* What else touches the account.                                          *)

\* Exchanges that hold a claimed code of user u and have not answered yet.
Holding(u) ==
    {x \in Exchanges : pc[x] \in {"checking", "reading"} /\ owner[presented[x]] = u}

\* No route changes a role; an operator does it in the database.
ChangeRole(u) ==
    /\ role[u] # "none"
    /\ \E r \in Roles \ {role[u]} :
          /\ role' = [role EXCEPT ![u] = r]
          /\ held' = [x \in Exchanges |->
                        IF x \in Holding(u) THEN held[x] \cup {r} ELSE held[x]]
    /\ UNCHANGED <<clock, rows, mintVars, pc, presented, tokenRole>>

\* Deleting the account cascades to its pending codes.
DeleteUser(u) ==
    /\ role[u] # "none"
    /\ role' = [role EXCEPT ![u] = "none"]
    /\ rows' = {c \in rows : owner[c] # u}
    /\ UNCHANGED <<clock, mintVars, exchangeVars>>

Next ==
    \/ Tick
    \/ \E c \in Codes : MintStep(c) \/ \E u \in Users : MintStart(c, u)
    \/ \E x \in Exchanges : ExchangeStep(x) \/ \E c \in Codes : Present(x, c)
    \/ \E u \in Users : ChangeRole(u) \/ DeleteUser(u)

Spec == Init /\ [][Next]_vars

-------------------------------------------------------------------------------
(***************************************************************************)
(* "Exactly one winner" (auth.service.ts 151-156): of any number of        *)
(* exchanges of one code at most one gets past the claim.                  *)
(***************************************************************************)
OneWinner ==
    \A x, y \in Exchanges :
        /\ {pc[x], pc[y]} \subseteq {"checking", "reading", "granted"}
        /\ presented[x] = presented[y]
        => x = y

(***************************************************************************)
(* A role change (or a deletion) made before the code is spent does not    *)
(* ride into the token (auth.service.ts 114-119): its role is one the      *)
(* user has held since the code was claimed.                               *)
(***************************************************************************)
TokenCarriesCurrentRole ==
    \A x \in Exchanges : pc[x] = "granted" => tokenRole[x] \in held[x]

(***************************************************************************)
(* Housekeeping costs no login (auth.service.ts 130-146).  It takes away   *)
(* only inert codes: a delivered code that nobody has presented, whose     *)
(* time has not come and whose account exists can still be exchanged.  And *)
(* where it fails, the code that is there still reaches its visitor.       *)
(***************************************************************************)
UnspentCodesSurvive ==
    \A c \in Codes :
        /\ mint[c] = "failed" => c \notin rows
        /\ /\ mint[c] = "delivered"
           /\ clock <= expiresAt[c]
           /\ role[owner[c]] # "none"
           /\ \A x \in Exchanges : presented[x] # c
           => c \in rows

-------------------------------------------------------------------------------
HeldBy(c, states) == \E x \in Exchanges : presented[x] = c /\ pc[x] \in states

\* Refinement: a claimed code is still live until its deadline is checked.
Life(c) ==
    IF c \in rows \/ HeldBy(c, {"checking"}) THEN "live"
    ELSE IF HeldBy(c, {"reading"}) THEN "accepted"
    ELSE IF HeldBy(c, {"granted"}) THEN "redeemed"
    ELSE IF mint[c] \in {"idle", "inserting", "failed"} THEN "unissued"
    ELSE "void"

Ticket == INSTANCE OneTimeCode
    WITH life <- [c \in Codes |-> Life(c)],
         deadline <- [c \in Codes |->
                         IF mint[c] \in {"idle", "inserting", "failed"}
                         THEN 0 ELSE expiresAt[c]]

(***************************************************************************)
(* Minting and exchanging implement a one-time code: accepted at most      *)
(* once, never after its deadline, gone for good afterwards                *)
(* (auth.service.ts 121-183).                                              *)
(***************************************************************************)
ImplementsOneTimeCode == Ticket!Spec
===============================================================================
