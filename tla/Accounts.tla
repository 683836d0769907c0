-------------------------------- MODULE Accounts --------------------------------
(***************************************************************************)
(* The users table and the requests that write it: sign-in and linking     *)
(* with a provider (src/auth/strategies), registration (auth.service.ts),  *)
(* the first sign-in with an emailed code (otp.service.ts), the profile,   *)
(* bans and removals (users.service.ts).                                   *)
(*                                                                         *)
(* Every statement is a step of its own: whatever a request writes, it     *)
(* decides on a row it has read some steps before.  The unique columns are *)
(* Postgres's: a statement that would repeat a value fails.                *)
(*                                                                         *)
(* Of the profile only the avatar is modelled; the name is written by the  *)
(* same rules.  An avatar is whatever URL the payload gives                *)
(* (update-profile.dto.ts:7), so two accounts may name one object of the   *)
(* bucket, which may be the picture of an article too.                     *)
(***************************************************************************)
EXTENDS Naturals

CONSTANTS Requests,    \* the requests that run at a time
          MaxRequests, \* bound: requests started in all
          Users, Emails, Providers, Ids,
          Pictures,    \* objects of the bucket
          Elsewhere,   \* an avatar outside the bucket: a provider's, say
          NoPicture, NoUser, Gone, AdminEmail

VARIABLES users,    \* the table: a row, NoUser before, Gone after
          bucket,   \* the pictures that are in the bucket
          pc, job,  \* where each request is, and what it works on
          started   \* how many requests there have been

\* History, read by no action.
VARIABLES granted,   \* email, role, password and ban as last decided
          dropped,   \* pictures some user has ceased to use as its avatar
          contested  \* requests that others have got in the way of

history == <<granted, dropped, contested>>
vars == <<users, bucket, pc, job, started, history>>

Avatars == Pictures \cup {Elsewhere, NoPicture}
Identities == Providers \X Ids

Grants == [email : Emails, role : {"user", "admin"},
           password : {"chosen", "random"}, isBanned : BOOLEAN]

\* githubId and googleId: at most one identity for each provider.
Holdings == {held \in SUBSET Identities : \A c, d \in held : c[1] = d[1] => c = d}

Rows == [grant : Grants, avatar : Avatars, ids : Holdings]

\* `claim` is the identity the provider vouches for, `row` what was read,
\* `grant` the account to be created, `avatar` the payload's, if any.
Jobs == [user : Users \cup {NoUser}, row : Rows \cup {NoUser},
         claim : Holdings, grant : Grants \cup {NoUser},
         avatar : SUBSET Avatars]

ASSUME AccountsAssumption ==
    /\ MaxRequests \in Nat
    /\ {Elsewhere, NoPicture} \cap Pictures = {} /\ Elsewhere # NoPicture
    /\ {NoUser, Gone} \cap Rows = {} /\ NoUser # Gone
    /\ NoUser \notin Users

NoJob == [user |-> NoUser, row |-> NoUser, claim |-> {}, grant |-> NoUser,
          avatar |-> {}]

Alive == {u \in Users : users[u] \notin {NoUser, Gone}}

TypeInvariant ==
    /\ users \in [Users -> Rows \cup {NoUser, Gone}]
    /\ bucket \subseteq Pictures
    /\ pc \in [Requests -> {"idle", "failed", "admitted", "checked", "creating",
                            "updating", "editing", "erasing"}]
    /\ job \in [Requests -> Jobs]
    /\ started \in 0 .. MaxRequests
    /\ granted \in [Users -> Grants \cup {NoUser}]
    /\ dropped \subseteq Pictures
    /\ contested \in [Requests -> BOOLEAN]

Init ==
    /\ users = [u \in Users |-> NoUser]
    /\ bucket = Pictures
    /\ pc = [r \in Requests |-> "idle"]
    /\ job = [r \in Requests |-> NoJob]
    /\ started = 0
    /\ granted = [u \in Users |-> NoUser]
    /\ dropped = {}
    /\ contested = [r \in Requests |-> FALSE]

-------------------------------------------------------------------------------
InFlight(r) == pc[r] \notin {"idle", "failed"}

Goto(r, state, work) ==
    /\ pc' = [pc EXCEPT ![r] = state]
    /\ job' = [job EXCEPT ![r] = work]

\* An answer, be it a refusal; and a 500.
Answer(r) == Goto(r, "idle", NoJob)
Fail(r) == Goto(r, "failed", NoJob)

\* The first statement of a request: it reads.
Start(r, isContested) ==
    /\ ~InFlight(r)
    /\ started < MaxRequests
    /\ started' = started + 1
    /\ contested' = [contested EXCEPT ![r] = isContested]
    /\ UNCHANGED <<users, bucket, granted, dropped>>

\* A later one that reads.
Read == UNCHANGED <<users, bucket, started, history>>

\* History of a write by the requests in `own`: it gets in the way of the rest.
Interfere(own) ==
    contested' = [r \in Requests |-> contested[r] \/ (InFlight(r) /\ r \notin own)]

\* History of a write that gives user u the avatar `new`.
NoteAvatar(u, new) ==
    dropped' = dropped \cup (({users[u].avatar} \ {new}) \cap Pictures)

EmailTaken(email) == \E u \in Alive : users[u].grant.email = email
Holders(claim) == {u \in Alive : users[u].ids \cap claim # {}}

RoleOf(email) == IF email = AdminEmail THEN "admin" ELSE "user"
Granted(email, role, password) ==
    [email |-> email, role |-> role, password |-> password, isBanned |-> FALSE]

-------------------------------------------------------------------------------
(* Sign-in with a provider (loginOrRegister).                              *)

\* Mutant: accounts are looked up by the provider's id alone.
Matches_ById(claim, email) == Holders(claim)

\* or(eq(googleId), eq(email)), in no order.
Matches(claim, email) ==
    Holders(claim) \cup {u \in Alive : users[u].grant.email = email}

Login(r) ==
    \E identity \in Identities, email \in Emails :
        LET found == Matches({identity}, email) IN
        \/ /\ found = {}
           /\ Start(r, FALSE)
           /\ Goto(r, "creating", [NoJob EXCEPT
                 !.claim = {identity},
                 !.grant = Granted(email, RoleOf(email), "random")])
        \/ \E u \in found :
              /\ Start(r, found # {u})
              /\ Goto(r, "updating", [NoJob EXCEPT
                    !.user = u, !.row = users[u], !.claim = {identity}])

-------------------------------------------------------------------------------
(* Sign-in with an emailed code, and registration.  Where the account is   *)
(* there already, neither writes it.                                       *)

LoginByCode(r) ==
    \E email \in Emails :
        /\ ~EmailTaken(email)
        /\ Start(r, FALSE)
        /\ Goto(r, "creating", [NoJob EXCEPT
              !.grant = Granted(email, RoleOf(email), "random")])

Register(r) ==
    \E email \in Emails :
        /\ ~EmailTaken(email)
        /\ Start(r, FALSE)
        /\ Goto(r, "creating", [NoJob EXCEPT
              !.grant = Granted(email, "user", "chosen")])

\* INSERT.  With an identity comes the provider's picture.
Insert(r) ==
    /\ pc[r] = "creating"
    /\ ~EmailTaken(job[r].grant.email) /\ Holders(job[r].claim) = {}
    /\ \E u \in Users :
          /\ users[u] = NoUser
          /\ users' = [users EXCEPT ![u] =
                [grant |-> job[r].grant, ids |-> job[r].claim,
                 avatar |-> IF job[r].claim = {} THEN NoPicture ELSE Elsewhere]]
          /\ granted' = [granted EXCEPT ![u] = job[r].grant]
    /\ Answer(r)
    /\ Interfere({r})
    /\ UNCHANGED <<bucket, started, dropped>>

\* A unique column refuses the row.
InsertFails(r) ==
    /\ pc[r] = "creating"
    /\ EmailTaken(job[r].grant.email) \/ Holders(job[r].claim) # {}
    /\ Fail(r)
    /\ Read

-------------------------------------------------------------------------------
(* Linking (linkToExistingUser), for a user that JwtAuthGuard let through  *)
(* when the popup opened.                                                  *)

\* JwtAuthGuard: a user that is gone passes, one that is banned does not.
Admit(r) ==
    \E u \in Users :
        /\ users[u] # NoUser
        /\ u \in Alive => ~users[u].grant.isBanned
        /\ Start(r, FALSE)
        /\ Goto(r, "admitted", [NoJob EXCEPT !.user = u])

CheckConflict(r) ==
    /\ pc[r] = "admitted"
    /\ \E identity \in Identities :
          IF Holders({identity}) \subseteq {job[r].user}
          THEN Goto(r, "checked", [job[r] EXCEPT !.claim = {identity}])
          ELSE Answer(r)
    /\ Read

ReadTarget(r) ==
    /\ pc[r] = "checked"
    /\ IF job[r].user \in Alive
       THEN Goto(r, "updating", [job[r] EXCEPT !.row = users[job[r].user]])
       ELSE Answer(r)
    /\ Read

-------------------------------------------------------------------------------
(* UPDATE users, for a sign-in and for a link.                             *)

\* Mutant: an identity the account has already is kept.
WithIdentity_FillIfMissing(held, claim) ==
    held \cup {c \in claim : \A d \in held : d[1] # c[1]}

\* The provider's column is overwritten.
WithIdentity(held, claim) ==
    {d \in held : \A c \in claim : d[1] # c[1]} \cup claim

\* existingUser.avatarUrl ?? avatarUrl
FilledAvatar(row) == IF row.avatar = NoPicture THEN Elsewhere ELSE row.avatar

\* Mutant: every column of the row that was read is written back.
SignedIn_WholeRow(u, r) ==
    [job[r].row EXCEPT !.ids = WithIdentity(@, job[r].claim),
                       !.avatar = FilledAvatar(job[r].row)]

SignedIn(u, r) ==
    [users[u] EXCEPT !.ids = WithIdentity(@, job[r].claim),
                     !.avatar = FilledAvatar(job[r].row)]

WriteIdentity(r) ==
    LET u == job[r].user IN
    /\ pc[r] = "updating"
    /\ u \in Alive /\ Holders(job[r].claim) \subseteq {u}
    /\ users' = [users EXCEPT ![u] = SignedIn(u, r)]
    /\ NoteAvatar(u, FilledAvatar(job[r].row))
    /\ Answer(r)
    /\ Interfere({r})
    /\ UNCHANGED <<bucket, started, granted>>

\* The row is gone (nothing is returned), or the identity is another's by now.
WriteIdentityFails(r) ==
    /\ pc[r] = "updating"
    /\ ~(job[r].user \in Alive /\ Holders(job[r].claim) \subseteq {job[r].user})
    /\ Fail(r)
    /\ Read

-------------------------------------------------------------------------------
(* The profile (updateSelf).                                               *)

ReadProfile(r) ==
    /\ pc[r] = "admitted"
    /\ IF job[r].user \in Alive
       THEN \E avatar \in {{}} \cup {{a} : a \in Avatars} :
               Goto(r, "editing", [job[r] EXCEPT !.row = users[job[r].user],
                                                 !.avatar = avatar])
       ELSE Answer(r)
    /\ Read

\* Absent: the one that was read.  "" clears it.
NextAvatar(r) ==
    IF job[r].avatar = {} THEN job[r].row.avatar ELSE CHOOSE a \in job[r].avatar : TRUE

\* Mutant: whatever the payload mentions is taken for a change.
Orphaned_ByPayload(r) == {job[r].row.avatar : a \in job[r].avatar} \cap Pictures

\* The avatar that was read, if the row has another one now.
Orphaned(r) == ({job[r].row.avatar} \ {NextAvatar(r)}) \cap Pictures

WriteProfile(r) ==
    LET u == job[r].user IN
    /\ pc[r] = "editing"
    /\ u \in Alive
    /\ users' = [users EXCEPT ![u].avatar = NextAvatar(r)]
    /\ NoteAvatar(u, NextAvatar(r))
    /\ IF Orphaned(r) = {} THEN Answer(r) ELSE Goto(r, "erasing", job[r])
    /\ Interfere({r})
    /\ UNCHANGED <<bucket, started, granted>>

\* Nothing is returned; comparing avatars is an error if there was one.
WriteProfileMisses(r) ==
    /\ pc[r] = "editing"
    /\ job[r].user \notin Alive
    /\ IF job[r].row.avatar = NoPicture THEN Answer(r) ELSE Fail(r)
    /\ Read

\* deleteFiles, of the key the old URL names, whoever else uses it; a failure
\* is logged.
EraseAvatar(r) ==
    /\ pc[r] = "erasing"
    /\ \/ bucket' = bucket \ Orphaned(r)
       \/ UNCHANGED bucket
    /\ Answer(r)
    /\ UNCHANGED <<users, started, history>>

-------------------------------------------------------------------------------
(* Moderation.                                                             *)

SetBanned(u) ==
    /\ u \in Alive
    /\ \E isBanned \in BOOLEAN :
          /\ users' = [users EXCEPT ![u].grant.isBanned = isBanned]
          /\ granted' = [granted EXCEPT ![u].isBanned = isBanned]
    /\ Interfere({})
    /\ UNCHANGED <<bucket, pc, job, started, dropped>>

\* deleteUserAndCascadeComments, by the user or by an administrator.
Remove(u) ==
    /\ u \in Alive
    /\ users' = [users EXCEPT ![u] = Gone]
    /\ Interfere({})
    /\ UNCHANGED <<bucket, pc, job, started, granted, dropped>>

Next ==
    \/ \E r \in Requests :
          \/ Login(r) \/ LoginByCode(r) \/ Register(r) \/ Insert(r) \/ InsertFails(r)
          \/ Admit(r) \/ CheckConflict(r) \/ ReadTarget(r)
          \/ WriteIdentity(r) \/ WriteIdentityFails(r)
          \/ ReadProfile(r) \/ WriteProfile(r) \/ WriteProfileMisses(r) \/ EraseAvatar(r)
    \/ \E u \in Users : SetBanned(u) \/ Remove(u)

Spec == Init /\ [][Next]_vars

-------------------------------------------------------------------------------
(***************************************************************************)
(* No sign-in, link or profile edit, however stale the row it has read,    *)
(* disturbs what was decided elsewhere: a ban stays until it is lifted,    *)
(* and email, role and password stay as the account was created with       *)
(* (the SETs name their columns: google.strategy.ts 195-201, users.service *)
(* 129-136).                                                               *)
(***************************************************************************)
GrantsStick == \A u \in Alive : users[u].grant = granted[u]

(***************************************************************************)
(* A request ends in a 500 only if the table was written under it, or if   *)
(* the identity and the email of a sign-in belonged to two accounts: what  *)
(* each handler reads first (google.strategy.ts 129-146, 186-188,          *)
(* auth.service.ts 40-49) rules out every other failure.                   *)
(***************************************************************************)
OnlyContestedRequestsFail == \A r \in Requests : pc[r] = "failed" => contested[r]

(***************************************************************************)
(* A profile edit erases an avatar that was replaced, not one that is kept *)
(* (users.service.ts 140-149): whatever is missing from the bucket, some   *)
(* account had as its avatar and has ceased to use, although the edit      *)
(* compares a row it read before its update, with others writing it.  The  *)
(* picture may still be in use by another account, or again by the same:   *)
(* nobody counts who uses an object.                                       *)
(***************************************************************************)
OnlyDroppedPicturesAreErased == Pictures \ bucket \subseteq dropped

(***************************************************************************)
(* A sign-in or a link that succeeds ends in the account that holds the    *)
(* identity, and takes the identity from no other account, although the    *)
(* account was chosen on an earlier read (google.strategy.ts 129-155,      *)
(* 183-203; schema.ts 28-29).                                              *)
(***************************************************************************)
SignInEndsWithTheHolder ==
    [][\A r \in Requests : pc[r] = "updating" /\ pc'[r] = "idle" =>
          LET u == job[r].user IN
          /\ job[r].claim \subseteq users'[u].ids
          /\ Holders(job[r].claim) \subseteq {u}]_vars

(***************************************************************************)
(* "Fill-if-missing, never overwrite: a returning user may have edited     *)
(* their name/avatar on /profile, and a login must not clobber that"       *)
(* (google.strategy.ts 193-194).                                           *)
(***************************************************************************)
LoginsKeepTheAvatar ==
    [][\A r \in Requests : pc[r] = "updating" /\ pc'[r] = "idle" =>
          LET u == job[r].user IN
          users[u].avatar # NoPicture => users'[u].avatar = users[u].avatar]_vars
===============================================================================
