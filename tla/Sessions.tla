-------------------------------- MODULE Sessions --------------------------------
(***************************************************************************)
(* Tokens and what they open.  A token is signed by an exchange            *)
(* (OAuthExchange) or by a login with a password (auth.service.ts, login)  *)
(* and freezes the role its user had when the row was read; the guards     *)
(* (src/auth/guards) read the row again for every request, but only for    *)
(* the ban, so that role, ban and profile come from three different times. *)
(*                                                                         *)
(* An account that is gone is not banned: its tokens still pass the        *)
(* guards, by design (jwt-auth.guard.spec.ts).                             *)
(***************************************************************************)
EXTENDS OAuthExchange

CONSTANTS Logins,      \* POST /auth/login requests
          Visits,      \* requests that may bring a token
          TokenTtl,    \* expiresIn, and the cookie's maxAge
          NoToken,
          MaxRequests  \* bound: requests in all

VARIABLES banned,    \* users.isBanned
          attempt,   \* the row each login has read
          tokens,    \* what has been signed, by the request that signed it
          visit      \* where each visit is

\* History, read by no action.
VARIABLES reign,     \* the last instant each user was an administrator, or -1
          arrived,   \* when each visit that uses the token's role began
          free,      \* visits whose user has not been banned all along
          seen       \* roles that the user of each visit has had meanwhile

history == <<reign, arrived, free, seen>>
sessionVars == <<vars, banned, attempt, tokens, visit, history>>

Sources == Exchanges \cup Logins

Tokens == [user : Users, role : Roles, readAt : Nat, signedAt : Nat]

\* getProfile; a route behind AdminGuard; one behind OptionalJwtAuthGuard.
Routes == {"profile", "admin", "listing"}

\* Whom a handler takes its caller for, and the role it shows.
Idle == [at |-> "idle"]
Reading(route, s) == [at |-> "reading", route |-> route, source |-> s]
Refused == [at |-> "refused"]
Served(as, shown) == [at |-> "served", as |-> as, shown |-> shown]

\* A login that has not begun, one that has ended, and the row it has read.
Before == [at |-> "before"]
Over == [at |-> "over"]
Verifying(u, r, readAt) == [at |-> "verifying", user |-> u, role |-> r, readAt |-> readAt]

VisitStates ==
    {Idle, Refused}
    \cup {Reading(route, s) : route \in Routes, s \in Sources}
    \cup {Served(as, shown) : as \in Roles \cup {"nobody"},
                              shown \in Roles \cup {"none"}}

ASSUME SessionsAssumption ==
    /\ TokenTtl \in Nat \ {0}
    /\ MaxRequests \in Nat
    /\ Exchanges \cap Logins = {}
    /\ NoToken \notin Tokens
    /\ IsFiniteSet(Codes) /\ IsFiniteSet(Sources) /\ IsFiniteSet(Visits)

SessionTypes ==
    /\ TypeInvariant
    /\ banned \subseteq Users
    /\ attempt \in [Logins -> {Before, Over} \cup
          [at : {"verifying"}, user : Users, role : Roles, readAt : Nat]]
    /\ tokens \in [Sources -> Tokens \cup {NoToken}]
    /\ visit \in [Visits -> VisitStates]
    /\ reign \in [Users -> Nat \cup {-1}]
    /\ arrived \in [Visits -> Nat]
    /\ free \subseteq Visits
    /\ seen \in [Visits -> SUBSET (Roles \cup {"none"})]

SessionInit ==
    /\ Init
    /\ banned = {}
    /\ attempt = [l \in Logins |-> Before]
    /\ tokens = [s \in Sources |-> NoToken]
    /\ visit = [v \in Visits |-> Idle]
    /\ reign = [u \in Users |-> IF role[u] = "admin" THEN 0 ELSE -1]
    /\ arrived = [v \in Visits |-> 0]
    /\ free = {}
    /\ seen = [v \in Visits |-> {}]

\* Requests begun so far.
Begun ==
    Cardinality({c \in Codes : mint[c] # "idle"})
    + Cardinality({x \in Exchanges : pc[x] # "idle"})
    + Cardinality({l \in Logins : attempt[l] # Before})
    + Cardinality({v \in Visits : visit[v] # Idle})

-------------------------------------------------------------------------------
(* Who signs tokens.                                                       *)

Token(u, r, readAt) == [user |-> u, role |-> r, readAt |-> readAt, signedAt |-> clock]

\* An exchange signs what it has just read.
Exchange(x) ==
    /\ ExchangeStep(x)
    /\ tokens' = IF pc'[x] = "granted"
                 THEN [tokens EXCEPT ![x] =
                         Token(owner[presented[x]], tokenRole'[x], clock)]
                 ELSE tokens
    /\ UNCHANGED <<banned, attempt, visit>>

\* login: the row is read, or there is none.
ReadLogin(l) ==
    /\ attempt[l] = Before
    /\ \/ attempt' = [attempt EXCEPT ![l] = Over]
       \/ \E u \in Users :
             /\ role[u] # "none"
             /\ attempt' = [attempt EXCEPT ![l] = Verifying(u, role[u], clock)]
    /\ UNCHANGED <<vars, banned, tokens, visit>>

\* argon2.verify takes its time; the token is signed from the row read before.
VerifyLogin(l) ==
    /\ attempt[l].at = "verifying"
    /\ attempt' = [attempt EXCEPT ![l] = Over]
    /\ \/ UNCHANGED tokens
       \/ tokens' = [tokens EXCEPT ![l] =
                       Token(attempt[l].user, attempt[l].role, attempt[l].readAt)]
    /\ UNCHANGED <<vars, banned, visit>>

-------------------------------------------------------------------------------
(* The guards.                                                             *)

\* Mutant: a token is good for ever.
Verified_AnyAge(s) == tokens[s] # NoToken

\* verifyAsync; exp is exclusive.
Verified(s) == tokens[s] # NoToken /\ clock < tokens[s].signedAt + TokenTtl

\* A request without a valid token is refused, except where none is needed.
Arrive(v) ==
    /\ visit[v] = Idle
    /\ \E route \in Routes, s \in Sources :
          visit' = [visit EXCEPT ![v] =
              IF Verified(s) THEN Reading(route, s)
              ELSE IF route = "listing" THEN Served("nobody", "none")
              ELSE Refused]
    /\ UNCHANGED <<vars, banned, attempt, tokens>>

Bearer(v) == tokens[visit[v].source].user
Claimed(v) == tokens[visit[v].source].role

\* Mutant: only JwtAuthGuard looks for bans.
Barred_Strict(v) == visit[v].route # "listing" /\ Bearer(v) \in banned

\* Both guards read the row for this.
Barred(v) == Bearer(v) \in banned

\* Mutant: the profile is made of the token's claims.
ProfileRole_Claimed(v) == Claimed(v)

\* toProfile, of the row the guard has read.
ProfileRole(v) == role[Bearer(v)]

\* Past its guards, on the strength of the token and of the row just read.
Admitted(v) ==
    CASE visit[v].route = "profile" ->
           IF role[Bearer(v)] = "none" THEN Refused
           ELSE Served("user", ProfileRole(v))
      [] visit[v].route = "admin" ->
           IF Claimed(v) # "admin" THEN Refused ELSE Served("admin", "none")
      [] visit[v].route = "listing" -> Served(Claimed(v), "none")

\* The guard's query, and all that follows without another await.
Guard(v) ==
    /\ visit[v].at = "reading"
    /\ visit' = [visit EXCEPT ![v] =
          IF ~Barred(v) THEN Admitted(v)
          ELSE IF visit[v].route = "listing"
          THEN Served("nobody", "none")
          ELSE Refused]
    /\ UNCHANGED <<vars, banned, attempt, tokens>>

\* The query fails: a 500, on routes that need no token too.
GuardFails(v) ==
    /\ visit[v].at = "reading"
    /\ visit' = [visit EXCEPT ![v] = Refused]
    /\ UNCHANGED <<vars, banned, attempt, tokens>>

-------------------------------------------------------------------------------
\* An administrator's, of somebody else (users.service.ts, setBanned).
SetBanned(u) ==
    /\ role[u] # "none"
    /\ banned' = IF u \in banned THEN banned \ {u} ELSE banned \cup {u}
    /\ UNCHANGED <<vars, attempt, tokens, visit>>

RemoveUser(u) ==
    /\ DeleteUser(u)
    /\ banned' = banned \ {u}
    /\ UNCHANGED <<attempt, tokens, visit>>

\* History of a step; of a visit only while it is under way.
Witness ==
    LET Under(v, route) == visit'[v].at = "reading" /\ visit'[v].route = route
        User(v) == tokens[visit'[v].source].user
    IN
    /\ reign' = [u \in Users |-> IF role'[u] = "admin" THEN clock' ELSE reign[u]]
    /\ arrived' = [v \in Visits |->
          IF ~(Under(v, "admin") \/ Under(v, "listing")) THEN 0
          ELSE IF visit[v] = Idle THEN clock ELSE arrived[v]]
    /\ free' = {v \in Visits :
          visit'[v].at = "reading" /\ (v \in free \/ User(v) \notin banned')}
    /\ seen' = [v \in Visits |->
          IF Under(v, "profile") THEN seen[v] \cup {role'[User(v)]} ELSE {}]

Begins ==
    /\ Begun < MaxRequests
    /\ \/ /\ \/ \E c \in Codes, u \in Users : MintStart(c, u)
             \/ \E x \in Exchanges, c \in Codes : Present(x, c)
          /\ UNCHANGED <<banned, attempt, tokens, visit>>
       \/ \E l \in Logins : ReadLogin(l)
       \/ \E v \in Visits : Arrive(v)

Continues ==
    \/ /\ \/ Tick
          \/ \E c \in Codes : MintStep(c)
          \/ \E u \in Users : ChangeRole(u)
       /\ UNCHANGED <<banned, attempt, tokens, visit>>
    \/ \E x \in Exchanges : Exchange(x)
    \/ \E l \in Logins : VerifyLogin(l)
    \/ \E v \in Visits : Guard(v) \/ GuardFails(v)
    \/ \E u \in Users : SetBanned(u) \/ RemoveUser(u)

SessionNext == (Begins \/ Continues) /\ Witness

SessionSpec == SessionInit /\ [][SessionNext]_sessionVars

-------------------------------------------------------------------------------
Serves(v) == visit[v].at = "reading" /\ visit'[v].at = "served"

(***************************************************************************)
(* No request is handled in the name of a user who has been banned ever    *)
(* since it came in, whatever the token says and whether the route needs   *)
(* one or not (jwt-auth.guard.ts 38-47, optional-jwt-auth.guard.ts 37-43). *)
(***************************************************************************)
BannedAreTurnedAway ==
    [][\A v \in Visits :
          Serves(v) /\ visit'[v].as # "nobody" => v \in free]_sessionVars

(***************************************************************************)
(* Losing the role ends what it opens, late but not never: whoever is      *)
(* served as an administrator has still been one when the sign-in read the *)
(* row, and has brought a token not older than its seven days              *)
(* (auth.module.ts 25, auth.service.ts 114-119, admin.guard.ts 16).        *)
(***************************************************************************)
AdminsActInTime ==
    [][\A v \in Visits :
          Serves(v) /\ visit'[v].as = "admin" =>
              LET t == tokens[visit[v].source] IN
              /\ t.readAt <= reign[t.user]
              /\ arrived[v] < t.signedAt + TokenTtl]_sessionVars

(***************************************************************************)
(* The profile does not repeat the token's frozen claims: the role it      *)
(* shows is one its user has had since the request came in                 *)
(* (auth.service.ts 211-214).                                              *)
(***************************************************************************)
ProfileIsCurrent ==
    [][\A v \in Visits :
          Serves(v) /\ visit[v].route = "profile" => visit'[v].shown \in seen[v]]_sessionVars
===============================================================================
