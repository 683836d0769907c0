----------------------------- MODULE AccountsProofs -----------------------------
(***************************************************************************)
(* Proofs about Accounts for any number of requests, users, providers,     *)
(* identities and pictures.                                                *)
(*                                                                         *)
(* What a request has read may be stale, unless no other request has       *)
(* written since: the invariant says, for each place a request can be in,  *)
(* what is still true of the row it has read.                              *)
(***************************************************************************)
EXTENDS Accounts, TLAPS

\* What a request works on is of the kind its next statement needs.
HasWork(r) ==
    /\ pc[r] = "creating" => job[r].grant \in Grants
    /\ pc[r] \in {"admitted", "checked", "updating", "editing", "erasing"}
          => job[r].user \in Users
    /\ pc[r] \in {"admitted", "checked"} => users[job[r].user] # NoUser
    /\ pc[r] \in {"updating", "editing", "erasing"} => job[r].row \in Rows

\* What was found is so still, if nobody has written since.
IsFresh(r) ==
    ~contested[r] =>
        /\ pc[r] = "creating" =>
              ~EmailTaken(job[r].grant.email) /\ Holders(job[r].claim) = {}
        /\ pc[r] = "checked" => Holders(job[r].claim) \subseteq {job[r].user}
        /\ pc[r] = "updating" =>
              job[r].user \in Alive /\ Holders(job[r].claim) \subseteq {job[r].user}
        /\ pc[r] = "editing" => job[r].user \in Alive
        /\ pc[r] # "failed"

\* The avatar an edit has read is in use, or dropped.
ReadIsAccountedFor(r) ==
    pc[r] = "editing" =>
        /\ users[job[r].user] # NoUser
        /\ /\ job[r].user \in Alive
           /\ job[r].row.avatar \in Pictures
           /\ job[r].row.avatar # users[job[r].user].avatar
           => job[r].row.avatar \in dropped

\* What is about to be erased is dropped.
ErasesDropped(r) == pc[r] = "erasing" => Orphaned(r) \subseteq dropped

RequestInv(r) == HasWork(r) /\ IsFresh(r) /\ ReadIsAccountedFor(r) /\ ErasesDropped(r)

IInv ==
    /\ TypeInvariant
    /\ GrantsStick
    /\ OnlyDroppedPicturesAreErased
    /\ \A r \in Requests : RequestInv(r)

-------------------------------------------------------------------------------
\* The row of a user that is alive.
LEMMA AliveRows ==
    ASSUME TypeInvariant, NEW u \in Alive
    PROVE  u \in Users /\ users[u] \in Rows
BY DEF TypeInvariant, Alive

LEMMA RowsAreAlive ==
    ASSUME NEW u \in Users, users[u] \in Rows PROVE u \in Alive
BY AccountsAssumption DEF Alive

\* Overwriting a provider's column leaves one identity for each provider.
LEMMA WithIdentityHolds ==
    ASSUME NEW held \in Holdings, NEW claim \in Holdings
    PROVE  WithIdentity(held, claim) \in Holdings /\ claim \subseteq WithIdentity(held, claim)
BY DEF WithIdentity, Holdings

LEMMA FilledAvatarIsAvatar ==
    ASSUME NEW row \in Rows
    PROVE  FilledAvatar(row) \in Avatars /\ (FilledAvatar(row) \in Pictures
                                               => FilledAvatar(row) = row.avatar)
BY AccountsAssumption DEF FilledAvatar, Avatars, Rows

LEMMA NextAvatarIsAvatar ==
    ASSUME NEW r \in Requests, job[r].row \in Rows, job[r].avatar \subseteq Avatars
    PROVE  NextAvatar(r) \in Avatars
BY DEF NextAvatar, Rows

LEMMA EmptyHolding == {} \in Holdings /\ \A c \in Identities : {c} \in Holdings
BY DEF Holdings

LEMMA NoJobIsJob == NoJob \in Jobs
<1>1. {} \in Holdings /\ {} \in SUBSET Avatars
  BY EmptyHolding
<1>2. QED BY <1>1 DEF NoJob, Jobs

-------------------------------------------------------------------------------
LEMMA InitSatisfiesIInv == ASSUME Init PROVE IInv
<1>1. TypeInvariant
  BY NoJobIsJob, AccountsAssumption DEF Init, TypeInvariant
<1>2. Alive = {}
  BY DEF Init, Alive
<1>3. GrantsStick
  BY <1>2 DEF GrantsStick
<1>4. OnlyDroppedPicturesAreErased
  BY DEF Init, OnlyDroppedPicturesAreErased
<1>5. ASSUME NEW r \in Requests PROVE RequestInv(r)
  <2>1. pc[r] = "idle"
    BY DEF Init
  <2>2. QED BY <2>1 DEF RequestInv, HasWork, IsFresh, ReadIsAccountedFor, ErasesDropped
<1>6. QED BY <1>1, <1>3, <1>4, <1>5 DEF IInv

\* A statement that only reads moves its own request.
LEMMA ReadKeepsIInv ==
    ASSUME IInv, NEW r \in Requests,
           NEW state \in {"idle", "failed", "admitted", "checked", "creating",
                          "updating", "editing", "erasing"},
           NEW work \in Jobs, Goto(r, state, work),
           users' = users, bucket' = bucket, granted' = granted,
           dropped' = dropped, started' \in 0 .. MaxRequests,
           contested' \in [Requests -> BOOLEAN],
           \A s \in Requests \ {r} : contested'[s] = contested[s],
           RequestInv(r)'
    PROVE  IInv'
<1>1. TypeInvariant'
  BY DEF IInv, TypeInvariant, Goto
<1>2. Alive' = Alive
  BY DEF Alive
<1>3. GrantsStick' /\ OnlyDroppedPicturesAreErased'
  BY <1>2 DEF IInv, GrantsStick, OnlyDroppedPicturesAreErased
<1>4. ASSUME NEW s \in Requests \ {r} PROVE RequestInv(s)'
  <2>1. pc'[s] = pc[s] /\ job'[s] = job[s] /\ contested'[s] = contested[s]
    BY DEF Goto, IInv, TypeInvariant
  <2>2. Orphaned(s)' = Orphaned(s)
    BY <2>1 DEF Orphaned, NextAvatar
  <2>3. EmailTaken(job[s].grant.email)' <=> EmailTaken(job[s].grant.email)
    BY <1>2, <2>1 DEF EmailTaken
  <2>4. Holders(job[s].claim)' = Holders(job[s].claim)
    BY <1>2, <2>1 DEF Holders
  <2>5. RequestInv(s)
    BY DEF IInv
  <2>6. HasWork(s)' /\ ReadIsAccountedFor(s)' /\ ErasesDropped(s)'
    BY <1>2, <2>1, <2>2, <2>5 DEF RequestInv, HasWork, ReadIsAccountedFor, ErasesDropped
  <2>7. IsFresh(s)'
    BY <1>2, <2>1, <2>3, <2>4, <2>5 DEF RequestInv, IsFresh
  <2>8. QED BY <2>6, <2>7 DEF RequestInv
<1>5. QED BY <1>1, <1>3, <1>4 DEF IInv

\* What Start leaves alone, and what it counts.
LEMMA StartReads ==
    ASSUME IInv, NEW r \in Requests, NEW isContested \in BOOLEAN, Start(r, isContested)
    PROVE  /\ users' = users /\ bucket' = bucket /\ granted' = granted
           /\ dropped' = dropped /\ started' \in 0 .. MaxRequests
           /\ contested' \in [Requests -> BOOLEAN] /\ contested'[r] = isContested
           /\ \A s \in Requests \ {r} : contested'[s] = contested[s]
           /\ Alive' = Alive
BY AccountsAssumption DEF Start, IInv, TypeInvariant, Alive

\* And what a later statement that reads does.
LEMMA LaterReads ==
    ASSUME IInv, NEW r \in Requests, Read
    PROVE  /\ users' = users /\ bucket' = bucket /\ granted' = granted
           /\ dropped' = dropped /\ started' \in 0 .. MaxRequests
           /\ contested' \in [Requests -> BOOLEAN] /\ contested' = contested
           /\ Alive' = Alive
BY DEF Read, history, IInv, TypeInvariant, Alive

\* Where the table is unchanged, so is what the unique columns hold.
LEMMA SameHolders ==
    ASSUME users' = users
    PROVE  /\ \A c : Holders(c)' = Holders(c)
           /\ \A e : EmailTaken(e)' <=> EmailTaken(e)
<1>1. Alive' = Alive
  BY DEF Alive
<1>2. QED BY <1>1 DEF Holders, EmailTaken

LEMMA GotoMoves ==
    ASSUME IInv, NEW r \in Requests, NEW state, NEW work, Goto(r, state, work)
    PROVE  pc'[r] = state /\ job'[r] = work
BY DEF Goto, IInv, TypeInvariant

\* An answer, and an error of a contested request, end a statement that reads.
LEMMA AnswerKeepsIInv ==
    ASSUME IInv, NEW r \in Requests, Read, Answer(r) PROVE IInv'
<1>1. pc'[r] = "idle" /\ Goto(r, "idle", NoJob)
  BY GotoMoves DEF Answer
<1>2. RequestInv(r)'
  BY <1>1 DEF RequestInv, HasWork, IsFresh, ReadIsAccountedFor, ErasesDropped
<1>3. QED BY <1>1, <1>2, LaterReads, ReadKeepsIInv, NoJobIsJob

LEMMA FailKeepsIInv ==
    ASSUME IInv, NEW r \in Requests, Read, Fail(r), contested[r] PROVE IInv'
<1>1. pc'[r] = "failed" /\ Goto(r, "failed", NoJob)
  BY GotoMoves DEF Fail
<1>2. contested'[r]
  BY LaterReads
<1>3. RequestInv(r)'
  BY <1>1, <1>2 DEF RequestInv, HasWork, IsFresh, ReadIsAccountedFor, ErasesDropped
<1>4. QED BY <1>1, <1>3, LaterReads, ReadKeepsIInv, NoJobIsJob

-------------------------------------------------------------------------------
LEMMA StartToCreateKeepsIInv ==
    ASSUME IInv, NEW r \in Requests, NEW work \in Jobs, NEW grant \in Grants,
           NEW claim \in Holdings, work.grant = grant, work.claim = claim,
           ~EmailTaken(grant.email), Holders(claim) = {}, Start(r, FALSE),
           Goto(r, "creating", work)
    PROVE  IInv'
<1>2. pc'[r] = "creating" /\ job'[r] = work
  BY GotoMoves
<1>3. users' = users /\ Alive' = Alive
  BY StartReads
<1>4. (~EmailTaken(grant.email))' /\ (Holders(claim) = {})'
  BY <1>3, SameHolders
<1>5. job'[r].claim = claim /\ job'[r].grant = grant
  BY <1>2
<1>6. HasWork(r)' /\ ReadIsAccountedFor(r)' /\ ErasesDropped(r)'
  BY <1>2, <1>5 DEF HasWork, ReadIsAccountedFor, ErasesDropped
<1>7. IsFresh(r)'
  BY <1>2, <1>4, <1>5 DEF IsFresh
<1>8. RequestInv(r)'
  BY <1>6, <1>7 DEF RequestInv
<1>9. QED BY <1>8, StartReads, ReadKeepsIInv

LEMMA LoginKeepsIInv == ASSUME IInv, NEW r \in Requests, Login(r) PROVE IInv'
<1>1. PICK identity \in Identities, email \in Emails :
         LET found == Matches({identity}, email) IN
         \/ /\ found = {}
            /\ Start(r, FALSE)
            /\ Goto(r, "creating", [NoJob EXCEPT
                  !.claim = {identity},
                  !.grant = Granted(email, RoleOf(email), "random")])
         \/ \E u \in found :
               /\ Start(r, found # {u})
               /\ Goto(r, "updating", [NoJob EXCEPT
                     !.user = u, !.row = users[u], !.claim = {identity}])
  BY DEF Login
<1> DEFINE found == Matches({identity}, email)
<1>2. {identity} \in Holdings
  BY EmptyHolding
<1>3. CASE found = {}
  <2>1. Granted(email, RoleOf(email), "random") \in Grants
    BY DEF Granted, RoleOf, Grants
  <2>2. ~EmailTaken(Granted(email, RoleOf(email), "random").email) /\ Holders({identity}) = {}
    BY <1>3 DEF Matches, EmailTaken, Granted
  <2>3. /\ Start(r, FALSE)
        /\ Goto(r, "creating", [NoJob EXCEPT
              !.claim = {identity}, !.grant = Granted(email, RoleOf(email), "random")])
    BY <1>1, <1>3
  <2> DEFINE grant == Granted(email, RoleOf(email), "random")
             work == [NoJob EXCEPT !.claim = {identity}, !.grant = grant]
  <2>4. work.grant = grant /\ work.claim = {identity}
    BY DEF NoJob
  <2>5. work \in Jobs
    <3> HIDE DEF grant
    <3> QED BY <1>2, <2>1, NoJobIsJob DEF Jobs, NoJob, grant
  <2>6. QED
    <3> HIDE DEF work, grant
    <3>1. grant \in Grants /\ ~EmailTaken(grant.email) /\ Goto(r, "creating", work)
      BY <2>1, <2>2, <2>3 DEF grant, work
    <3>2. QED BY <1>2, <2>2, <2>3, <2>4, <2>5, <3>1, StartToCreateKeepsIInv
<1>4. CASE found # {}
  <2>1. PICK u \in found :
           /\ Start(r, found # {u})
           /\ Goto(r, "updating", [NoJob EXCEPT
                 !.user = u, !.row = users[u], !.claim = {identity}])
    BY <1>1, <1>4
  <2> DEFINE work == [NoJob EXCEPT !.user = u, !.row = users[u], !.claim = {identity}]
  <2>2. u \in Alive /\ u \in Users /\ users[u] \in Rows
    BY AliveRows DEF IInv, Matches, Holders
  <2>3. work \in Jobs /\ work.user = u /\ work.row = users[u] /\ work.claim = {identity}
    BY <1>2, <2>2, NoJobIsJob DEF Jobs, NoJob
  <2>4. pc'[r] = "updating" /\ job'[r] = work
    BY <2>1, GotoMoves
  <2>5. users' = users /\ Alive' = Alive /\ contested'[r] = (found # {u})
    BY <2>1, StartReads
  <2>6. (Holders({identity}) \subseteq found)'
    BY <2>5, SameHolders DEF Matches
  <2>7. job'[r].user = u /\ job'[r].row = users[u] /\ job'[r].claim = {identity}
    BY <2>3, <2>4
  <2>8. RequestInv(r)'
    <3>1. HasWork(r)' /\ ReadIsAccountedFor(r)' /\ ErasesDropped(r)'
      BY <2>2, <2>4, <2>7 DEF HasWork, ReadIsAccountedFor, ErasesDropped
    <3>2. ~contested'[r] => (u \in Alive)' /\ (Holders({identity}) \subseteq {u})'
      BY <2>2, <2>5, <2>6, SameHolders DEF Matches
    <3>3. IsFresh(r)'
      BY <2>4, <2>7, <3>2 DEF IsFresh
    <3>4. QED BY <3>1, <3>3 DEF RequestInv
  <2>9. Goto(r, "updating", work)
    BY <2>1
  <2>10. QED
    <3> HIDE DEF work, found
    <3>1. (found # {u}) \in BOOLEAN
      OBVIOUS
    <3>2. Start(r, found # {u})
      BY <2>1 DEF found
    <3>3. QED BY <2>3, <2>8, <2>9, <3>1, <3>2, StartReads, ReadKeepsIInv
<1>5. QED BY <1>3, <1>4

LEMMA FirstSignInKeepsIInv ==
    ASSUME IInv, NEW r \in Requests, LoginByCode(r) \/ Register(r) PROVE IInv'
<1>1. PICK email \in Emails, role \in {"user", "admin"}, password \in {"chosen", "random"} :
         /\ ~EmailTaken(email) /\ Start(r, FALSE)
         /\ Goto(r, "creating", [NoJob EXCEPT !.grant = Granted(email, role, password)])
  BY DEF LoginByCode, Register, RoleOf
<1>2. Granted(email, role, password) \in Grants
      /\ Granted(email, role, password).email = email
  BY DEF Granted, Grants
<1>3. {} \in Holdings /\ Holders({}) = {}
  BY EmptyHolding DEF Holders
<1> DEFINE grant == Granted(email, role, password)
           work == [NoJob EXCEPT !.grant = grant]
<1>4. work.grant = grant /\ work.claim = {}
  BY DEF NoJob
<1>5. work \in Jobs
  BY <1>2, NoJobIsJob DEF Jobs, NoJob
<1>6. QED
  <2> HIDE DEF work, grant
  <2>1. /\ grant \in Grants /\ ~EmailTaken(grant.email)
        /\ Start(r, FALSE) /\ Goto(r, "creating", work)
    BY <1>1, <1>2 DEF grant, work
  <2>2. QED BY <1>3, <1>4, <1>5, <2>1, StartToCreateKeepsIInv

LEMMA InsertFailsKeepsIInv ==
    ASSUME IInv, NEW r \in Requests, InsertFails(r) PROVE IInv'
<1>1. contested[r]
  BY DEF InsertFails, IInv, RequestInv, IsFresh
<1>2. QED BY <1>1, FailKeepsIInv DEF InsertFails

LEMMA AdmitKeepsIInv == ASSUME IInv, NEW r \in Requests, Admit(r) PROVE IInv'
<1>1. PICK u \in Users : /\ users[u] # NoUser /\ Start(r, FALSE)
                         /\ Goto(r, "admitted", [NoJob EXCEPT !.user = u])
  BY DEF Admit
<1> DEFINE work == [NoJob EXCEPT !.user = u]
<1>2. work \in Jobs /\ work.user = u
  BY NoJobIsJob DEF Jobs, NoJob
<1>3. pc'[r] = "admitted" /\ job'[r] = work
  BY <1>1, GotoMoves
<1>4. users' = users
  BY <1>1, StartReads
<1>5. RequestInv(r)'
  BY <1>1, <1>2, <1>3, <1>4
     DEF RequestInv, HasWork, IsFresh, ReadIsAccountedFor, ErasesDropped
<1>6. Start(r, FALSE) /\ Goto(r, "admitted", work)
  BY <1>1
<1>7. QED
  <2> HIDE DEF work
  <2> QED BY <1>2, <1>5, <1>6, StartReads, ReadKeepsIInv

LEMMA CheckConflictKeepsIInv ==
    ASSUME IInv, NEW r \in Requests, CheckConflict(r) PROVE IInv'
<1>1. PICK identity \in Identities :
         IF Holders({identity}) \subseteq {job[r].user}
         THEN Goto(r, "checked", [job[r] EXCEPT !.claim = {identity}])
         ELSE Answer(r)
  BY DEF CheckConflict
<1>2. Read /\ pc[r] = "admitted"
  BY DEF CheckConflict
<1>3. CASE ~(Holders({identity}) \subseteq {job[r].user})
  BY <1>1, <1>2, <1>3, AnswerKeepsIInv
<1>4. CASE Holders({identity}) \subseteq {job[r].user}
  <2> DEFINE work == [job[r] EXCEPT !.claim = {identity}]
  <2>1. job[r] \in Jobs /\ job[r].user \in Users /\ users[job[r].user] # NoUser
    BY <1>2 DEF IInv, TypeInvariant, RequestInv, HasWork
  <2>2. work \in Jobs /\ work.user = job[r].user /\ work.claim = {identity}
    BY <2>1, EmptyHolding DEF Jobs
  <2>3. Goto(r, "checked", work)
    BY <1>1, <1>4
  <2>4. pc'[r] = "checked" /\ job'[r] = work
    BY <2>3, GotoMoves
  <2>5. users' = users
    BY <1>2, LaterReads
  <2>6. (Holders({identity}) \subseteq {job[r].user})'
    <3>1. job'[r].user = job[r].user
      BY <2>2, <2>4
    <3>2. QED BY <1>4, <2>5, <3>1, SameHolders
  <2>7. job'[r].user = job[r].user /\ job'[r].claim = {identity}
    BY <2>2, <2>4
  <2>8. HasWork(r)' /\ ReadIsAccountedFor(r)' /\ ErasesDropped(r)'
    BY <2>1, <2>4, <2>5, <2>7 DEF HasWork, ReadIsAccountedFor, ErasesDropped
  <2>9. IsFresh(r)'
    BY <2>4, <2>6, <2>7 DEF IsFresh
  <2>10. RequestInv(r)'
    BY <2>8, <2>9 DEF RequestInv
  <2>11. QED
    <3> HIDE DEF work
    <3> QED BY <1>2, <2>2, <2>3, <2>10, LaterReads, ReadKeepsIInv
<1>5. QED BY <1>3, <1>4

LEMMA ReadTargetKeepsIInv ==
    ASSUME IInv, NEW r \in Requests, ReadTarget(r) PROVE IInv'
<1>1. Read /\ pc[r] = "checked"
  BY DEF ReadTarget
<1>2. CASE job[r].user \notin Alive
  BY <1>1, <1>2, AnswerKeepsIInv DEF ReadTarget
<1>3. CASE job[r].user \in Alive
  <2> DEFINE u == job[r].user
             work == [job[r] EXCEPT !.row = users[u]]
  <2>1. job[r] \in Jobs /\ u \in Users /\ users[u] \in Rows
    BY <1>3, AliveRows DEF IInv, TypeInvariant
  <2>2. work \in Jobs /\ work.user = u /\ work.row = users[u] /\ work.claim = job[r].claim
    BY <2>1 DEF Jobs
  <2>3. Goto(r, "updating", work)
    BY <1>3 DEF ReadTarget
  <2>4. pc'[r] = "updating" /\ job'[r] = work
    BY <2>3, GotoMoves
  <2>5. users' = users /\ Alive' = Alive /\ contested'[r] = contested[r]
    BY <1>1, LaterReads
  <2>6. /\ job'[r].user = job[r].user /\ job'[r].claim = job[r].claim
        /\ job'[r].row = users[u]
    BY <2>2, <2>4
  <2>7. HasWork(r)' /\ ReadIsAccountedFor(r)' /\ ErasesDropped(r)'
    BY <2>1, <2>4, <2>5, <2>6 DEF HasWork, ReadIsAccountedFor, ErasesDropped
  <2>8. ~contested[r] => Holders(job[r].claim) \subseteq {job[r].user}
    BY <1>1 DEF IInv, RequestInv, IsFresh
  <2>9. IsFresh(r)'
    <3>1. Holders(job[r].claim)' = Holders(job[r].claim)
      BY <2>5, <2>6 DEF Holders
    <3>2. QED BY <1>3, <2>4, <2>5, <2>6, <2>8, <3>1 DEF IsFresh
  <2>10. RequestInv(r)'
    BY <2>7, <2>9 DEF RequestInv
  <2>11. QED
    <3> HIDE DEF work
    <3> QED BY <1>1, <2>2, <2>3, <2>10, LaterReads, ReadKeepsIInv
<1>4. QED BY <1>2, <1>3

LEMMA WriteIdentityFailsKeepsIInv ==
    ASSUME IInv, NEW r \in Requests, WriteIdentityFails(r) PROVE IInv'
<1>1. contested[r]
  BY DEF WriteIdentityFails, IInv, RequestInv, IsFresh
<1>2. QED BY <1>1, FailKeepsIInv DEF WriteIdentityFails

LEMMA ReadProfileKeepsIInv ==
    ASSUME IInv, NEW r \in Requests, ReadProfile(r) PROVE IInv'
<1>1. Read /\ pc[r] = "admitted"
  BY DEF ReadProfile
<1>2. CASE job[r].user \notin Alive
  BY <1>1, <1>2, AnswerKeepsIInv DEF ReadProfile
<1>3. CASE job[r].user \in Alive
  <2>1. PICK avatar \in {{}} \cup {{a} : a \in Avatars} :
           Goto(r, "editing", [job[r] EXCEPT !.row = users[job[r].user],
                                             !.avatar = avatar])
    BY <1>3 DEF ReadProfile
  <2> DEFINE u == job[r].user
             work == [job[r] EXCEPT !.row = users[u], !.avatar = avatar]
  <2>2. job[r] \in Jobs /\ u \in Users /\ users[u] \in Rows /\ avatar \in SUBSET Avatars
    BY <1>3, AliveRows DEF IInv, TypeInvariant
  <2>3. work \in Jobs /\ work.user = u /\ work.row = users[u]
    BY <2>2 DEF Jobs
  <2>4. Goto(r, "editing", work)
    BY <2>1
  <2>5. pc'[r] = "editing" /\ job'[r] = work
    BY <2>4, GotoMoves
  <2>6. users' = users /\ Alive' = Alive
    BY <1>1, LaterReads
  <2>7. job'[r].user = job[r].user /\ job'[r].row = users[u]
    BY <2>3, <2>5
  <2>8. RequestInv(r)'
    <3>1. HasWork(r)'
      BY <2>2, <2>5, <2>7 DEF HasWork
    <3>2. IsFresh(r)'
      BY <1>3, <2>5, <2>6, <2>7 DEF IsFresh
    <3>3. ReadIsAccountedFor(r)' /\ ErasesDropped(r)'
      BY <1>3, <2>5, <2>6, <2>7 DEF ReadIsAccountedFor, ErasesDropped, Alive
    <3>4. QED BY <3>1, <3>2, <3>3 DEF RequestInv
  <2>9. QED
    <3> HIDE DEF work
    <3> QED BY <1>1, <2>3, <2>4, <2>8, LaterReads, ReadKeepsIInv
<1>4. QED BY <1>2, <1>3

LEMMA WriteProfileMissesKeepsIInv ==
    ASSUME IInv, NEW r \in Requests, WriteProfileMisses(r) PROVE IInv'
<1>1. contested[r]
  BY DEF WriteProfileMisses, IInv, RequestInv, IsFresh
<1>2. QED BY <1>1, AnswerKeepsIInv, FailKeepsIInv DEF WriteProfileMisses

-------------------------------------------------------------------------------
(* Statements that write.                                                  *)

\* Interfere excuses every other request from being fresh.
LEMMA OthersSurvive ==
    ASSUME IInv, NEW own, Interfere(own), NEW s \in Requests, s \notin own,
           pc'[s] = pc[s], job'[s] = job[s], dropped \subseteq dropped',
           \A u \in Users : users[u] # NoUser => users'[u] # NoUser,
           \A u \in Users : users[u] # NoUser /\ u \in Alive' =>
               /\ u \in Alive
               /\ users[u].avatar \in Pictures /\ users'[u].avatar # users[u].avatar
                  => users[u].avatar \in dropped'
    PROVE  RequestInv(s)'
<1>1. RequestInv(s)
  BY DEF IInv
<1>2. HasWork(s)'
  BY <1>1 DEF RequestInv, HasWork
<1>3. contested'[s] = (contested[s] \/ InFlight(s))
  BY DEF Interfere
<1>4. IsFresh(s)'
  BY <1>1, <1>3 DEF RequestInv, IsFresh, InFlight
<1>5. ReadIsAccountedFor(s)'
  BY <1>1 DEF RequestInv, HasWork, ReadIsAccountedFor
<1>6. ErasesDropped(s)'
  <2>1. Orphaned(s)' = Orphaned(s)
    BY DEF Orphaned, NextAvatar
  <2>2. QED BY <1>1, <2>1 DEF RequestInv, ErasesDropped
<1>7. QED BY <1>2, <1>4, <1>5, <1>6 DEF RequestInv

LEMMA GotoSpares ==
    ASSUME NEW r \in Requests, NEW state, NEW work, Goto(r, state, work),
           NEW s \in Requests \ {r}
    PROVE  IInv => pc'[s] = pc[s] /\ job'[s] = job[s]
BY DEF Goto, IInv, TypeInvariant

LEMMA AnsweredHolds ==
    ASSUME NEW r \in Requests, pc'[r] = "idle" PROVE RequestInv(r)'
BY DEF RequestInv, HasWork, IsFresh, ReadIsAccountedFor, ErasesDropped

LEMMA InterfereTypes ==
    ASSUME TypeInvariant, NEW own, Interfere(own)
    PROVE  contested' \in [Requests -> BOOLEAN]
<1>1. \A r \in Requests :
         (contested[r] \/ (InFlight(r) /\ r \notin own)) \in BOOLEAN
  BY Zenon
<1>2. QED BY <1>1 DEF Interfere

LEMMA InsertKeepsIInv == ASSUME IInv, NEW r \in Requests, Insert(r) PROVE IInv'
<1> DEFINE grant == job[r].grant
<1>1. PICK u \in Users :
         /\ users[u] = NoUser
         /\ users' = [users EXCEPT ![u] =
               [grant |-> grant, ids |-> job[r].claim,
                avatar |-> IF job[r].claim = {} THEN NoPicture ELSE Elsewhere]]
         /\ granted' = [granted EXCEPT ![u] = grant]
  BY DEF Insert
<1>2. /\ pc[r] = "creating" /\ Goto(r, "idle", NoJob) /\ Interfere({r})
      /\ bucket' = bucket /\ started' = started
      /\ dropped' = dropped
  BY DEF Insert, Answer
<1>3. TypeInvariant /\ grant \in Grants /\ job[r].claim \in Holdings
  BY <1>2 DEF IInv, RequestInv, HasWork, TypeInvariant, Jobs
<1> DEFINE row == [grant |-> grant, ids |-> job[r].claim,
                   avatar |-> IF job[r].claim = {} THEN NoPicture ELSE Elsewhere]
<1>4. row \in Rows /\ row.grant = grant /\ row.avatar \notin Pictures
  BY <1>3, AccountsAssumption DEF Rows, Avatars
<1>5. users' = [users EXCEPT ![u] = row]
  BY <1>1
<1> HIDE DEF row, grant
<1>6. u \notin Alive /\ Alive' = Alive \cup {u}
  BY <1>1, <1>3, <1>4, <1>5, AccountsAssumption DEF Alive, TypeInvariant
<1>7. /\ users'[u] = row /\ granted'[u] = grant
      /\ \A v \in Users \ {u} : users'[v] = users[v] /\ granted'[v] = granted[v]
  BY <1>1, <1>3, <1>5 DEF TypeInvariant
<1>8. TypeInvariant'
  <2>1. users' \in [Users -> Rows \cup {NoUser, Gone}]
    BY <1>3, <1>4, <1>5 DEF TypeInvariant
  <2>2. granted' \in [Users -> Grants \cup {NoUser}]
    BY <1>1, <1>3 DEF TypeInvariant
  <2>3. QED BY <1>2, <1>3, <2>1, <2>2, InterfereTypes, NoJobIsJob DEF TypeInvariant, Goto
<1>9. GrantsStick'
  BY <1>4, <1>6, <1>7 DEF IInv, GrantsStick, Alive
<1>10. OnlyDroppedPicturesAreErased'
  BY <1>2 DEF IInv, OnlyDroppedPicturesAreErased
<1>11. ASSUME NEW s \in Requests PROVE RequestInv(s)'
  <2>1. CASE s = r
    BY <1>2, <2>1, GotoMoves, AnsweredHolds
  <2>2. CASE s # r
    <3>1. \A v \in Users : users[v] # NoUser => v # u /\ users'[v] = users[v]
      BY <1>1, <1>7
    <3>2. \A v \in Users : users[v] # NoUser /\ v \in Alive' => v \in Alive
      BY <1>6, <3>1
    <3>3. QED BY <1>2, <2>2, <3>1, <3>2, GotoSpares, OthersSurvive
  <2>3. QED BY <2>1, <2>2
<1>12. QED BY <1>2, <1>8, <1>9, <1>10, <1>11 DEF IInv

\* A statement that gives user u the row `row`, by the rules of NoteAvatar.
LEMMA WriteKeepsIInv ==
    ASSUME IInv, NEW r \in Requests, NEW u \in Alive, NEW row \in Rows,
           NEW state \in {"idle", "erasing"}, NEW work \in Jobs, Goto(r, state, work),
           users' = [users EXCEPT ![u] = row], row.grant = users[u].grant,
           NoteAvatar(u, row.avatar), Interfere({r}),
           bucket' = bucket, started' = started, granted' = granted,
           RequestInv(r)'
    PROVE  IInv'
<1>1. TypeInvariant /\ u \in Users /\ users[u] \in Rows
  BY AliveRows DEF IInv
<1>2. users' \in [Users -> Rows \cup {NoUser, Gone}]
  BY <1>1 DEF TypeInvariant
<1>3. users'[u] = row /\ \A v \in Users \ {u} : users'[v] = users[v]
  BY <1>1 DEF TypeInvariant
<1>4. Alive' = Alive
  BY <1>1, <1>3, AccountsAssumption DEF Alive
<1>5. dropped' = dropped \cup (({users[u].avatar} \ {row.avatar}) \cap Pictures)
  BY DEF NoteAvatar
<1>6. dropped' \subseteq Pictures
  BY <1>1, <1>5 DEF TypeInvariant
<1>7. TypeInvariant'
  BY <1>1, <1>2, <1>6, InterfereTypes DEF TypeInvariant, Goto
<1>8. GrantsStick'
  BY <1>3, <1>4 DEF IInv, GrantsStick, Alive
<1>9. OnlyDroppedPicturesAreErased'
  BY <1>5 DEF IInv, OnlyDroppedPicturesAreErased
<1>10. ASSUME NEW s \in Requests \ {r} PROVE RequestInv(s)'
  <2>1. \A v \in Users : users[v] # NoUser => users'[v] # NoUser
    BY <1>3, AccountsAssumption
  <2>2. ASSUME NEW v \in Users, users[v].avatar \in Pictures,
               users'[v].avatar # users[v].avatar
        PROVE  users[v].avatar \in dropped'
    BY <1>3, <1>5, <2>2
  <2>3. QED BY <1>4, <1>5, <2>1, <2>2, GotoSpares, OthersSurvive
<1>11. QED BY <1>7, <1>8, <1>9, <1>10 DEF IInv

LEMMA WriteIdentityKeepsIInv ==
    ASSUME IInv, NEW r \in Requests, WriteIdentity(r) PROVE IInv'
<1> DEFINE u == job[r].user
           row == SignedIn(u, r)
<1>1. /\ pc[r] = "updating" /\ u \in Alive /\ users' = [users EXCEPT ![u] = row]
      /\ NoteAvatar(u, FilledAvatar(job[r].row)) /\ Goto(r, "idle", NoJob)
      /\ Interfere({r}) /\ bucket' = bucket /\ started' = started /\ granted' = granted
  BY DEF WriteIdentity, Answer
<1>2. /\ users[u] \in Rows /\ job[r].row \in Rows /\ job[r].claim \in Holdings
      /\ users[u].ids \in Holdings
  BY <1>1, AliveRows DEF IInv, TypeInvariant, RequestInv, HasWork, Rows, Jobs
<1>3. FilledAvatar(job[r].row) \in Avatars
  BY <1>2, FilledAvatarIsAvatar
<1>4. WithIdentity(users[u].ids, job[r].claim) \in Holdings
  BY <1>2, WithIdentityHolds
<1>5. /\ row \in Rows /\ row.grant = users[u].grant
      /\ row.avatar = FilledAvatar(job[r].row)
  BY <1>2, <1>3, <1>4 DEF SignedIn, Rows
<1>6. RequestInv(r)'
  BY <1>1, GotoMoves, AnsweredHolds
<1>7. QED
  <2> HIDE DEF u, row
  <2> QED BY <1>1, <1>5, <1>6, NoJobIsJob, WriteKeepsIInv

LEMMA WriteProfileKeepsIInv ==
    ASSUME IInv, NEW r \in Requests, WriteProfile(r) PROVE IInv'
<1> DEFINE u == job[r].user
           row == [users[u] EXCEPT !.avatar = NextAvatar(r)]
           state == IF Orphaned(r) = {} THEN "idle" ELSE "erasing"
           work == IF Orphaned(r) = {} THEN NoJob ELSE job[r]
<1>1. /\ pc[r] = "editing" /\ u \in Alive
      /\ users' = [users EXCEPT ![u].avatar = NextAvatar(r)]
      /\ NoteAvatar(u, NextAvatar(r)) /\ Goto(r, state, work)
      /\ Interfere({r}) /\ bucket' = bucket /\ started' = started /\ granted' = granted
  BY DEF WriteProfile, Answer
<1>2. /\ users[u] \in Rows /\ job[r].row \in Rows /\ job[r] \in Jobs
      /\ job[r].avatar \subseteq Avatars
  BY <1>1, AliveRows DEF IInv, TypeInvariant, RequestInv, HasWork, Jobs
<1>3. NextAvatar(r) \in Avatars
  BY <1>2, NextAvatarIsAvatar
<1>4. /\ row \in Rows /\ row.grant = users[u].grant /\ row.avatar = NextAvatar(r)
      /\ users' = [users EXCEPT ![u] = row]
  BY <1>1, <1>2, <1>3 DEF Rows
<1>5. pc'[r] = state /\ job'[r] = work
  BY <1>1, GotoMoves
<1>6. RequestInv(r)'
  <2>1. CASE Orphaned(r) = {}
    BY <1>5, <2>1, AnsweredHolds
  <2>2. CASE Orphaned(r) # {}
    <3>1. pc'[r] = "erasing" /\ job'[r] = job[r]
      BY <1>5, <2>2
    <3>2. u \in Users
      BY <1>1 DEF Alive
    <3>3. ReadIsAccountedFor(r)
      BY DEF IInv, RequestInv
    <3>4. Orphaned(r) \subseteq dropped'
      <4>1. dropped' = dropped \cup
               (({users[u].avatar} \ {NextAvatar(r)}) \cap Pictures)
        BY <1>1 DEF NoteAvatar
      <4>2. QED BY <1>1, <3>3, <4>1 DEF ReadIsAccountedFor, Orphaned
    <3>5. Orphaned(r)' = Orphaned(r)
      BY <3>1 DEF Orphaned, NextAvatar
    <3>6. ErasesDropped(r)'
      BY <3>1, <3>4, <3>5 DEF ErasesDropped
    <3>7. HasWork(r)' /\ IsFresh(r)' /\ ReadIsAccountedFor(r)'
      BY <1>2, <3>1, <3>2 DEF HasWork, IsFresh, ReadIsAccountedFor
    <3>8. QED BY <3>6, <3>7 DEF RequestInv
  <2>3. QED BY <2>1, <2>2
<1>7. state \in {"idle", "erasing"} /\ work \in Jobs
  BY <1>2, NoJobIsJob
<1>8. NoteAvatar(u, row.avatar)
  BY <1>1, <1>4
<1>9. QED
  <2> HIDE DEF u, row, state, work
  <2>1. /\ u \in Alive /\ row \in Rows /\ Goto(r, state, work)
        /\ users' = [users EXCEPT ![u] = row] /\ row.grant = users[u].grant
        /\ Interfere({r}) /\ bucket' = bucket /\ started' = started /\ granted' = granted
    BY <1>1, <1>4
  <2> QED BY <2>1, <1>6, <1>7, <1>8, WriteKeepsIInv

LEMMA EraseAvatarKeepsIInv ==
    ASSUME IInv, NEW r \in Requests, EraseAvatar(r) PROVE IInv'
<1>1. /\ pc[r] = "erasing" /\ Goto(r, "idle", NoJob)
      /\ users' = users /\ started' = started /\ granted' = granted
      /\ dropped' = dropped /\ contested' = contested
  BY DEF EraseAvatar, Answer, history
<1>2. /\ bucket' \subseteq bucket
      /\ bucket \ bucket' \subseteq dropped
  BY <1>1 DEF EraseAvatar, IInv, RequestInv, ErasesDropped
<1>3. RequestInv(r)'
  BY <1>1, GotoMoves, AnsweredHolds
<1>4. TypeInvariant'
  BY <1>1, <1>2, NoJobIsJob DEF IInv, TypeInvariant, Goto
<1>5. Alive' = Alive
  BY <1>1 DEF Alive
<1>6. GrantsStick' /\ OnlyDroppedPicturesAreErased'
  BY <1>1, <1>2, <1>5 DEF IInv, GrantsStick, OnlyDroppedPicturesAreErased
<1>7. ASSUME NEW s \in Requests \ {r} PROVE RequestInv(s)'
  <2>1. pc'[s] = pc[s] /\ job'[s] = job[s]
    BY <1>1, GotoSpares
  <2>2. RequestInv(s)
    BY DEF IInv
  <2>3. HasWork(s)' /\ ReadIsAccountedFor(s)'
    BY <1>1, <1>5, <2>1, <2>2 DEF RequestInv, HasWork, ReadIsAccountedFor
  <2>4. Holders(job[s].claim)' = Holders(job[s].claim)
    BY <1>1, <1>5, <2>1 DEF Holders
  <2>5. EmailTaken(job[s].grant.email)' <=> EmailTaken(job[s].grant.email)
    BY <1>1, <1>5, <2>1 DEF EmailTaken
  <2>6. IsFresh(s)'
    BY <1>1, <1>5, <2>1, <2>2, <2>4, <2>5 DEF RequestInv, IsFresh
  <2>7. ErasesDropped(s)'
    <3>1. Orphaned(s)' = Orphaned(s)
      BY <2>1 DEF Orphaned, NextAvatar
    <3>2. QED BY <1>1, <2>1, <2>2, <3>1 DEF RequestInv, ErasesDropped
  <2>8. QED BY <2>3, <2>6, <2>7 DEF RequestInv
<1>8. QED BY <1>3, <1>4, <1>6, <1>7 DEF IInv

\* Both of the moderator's statements are nobody's request.
LEMMA SetBannedKeepsIInv == ASSUME IInv, NEW u \in Users, SetBanned(u) PROVE IInv'
<1>1. PICK isBanned \in BOOLEAN :
         /\ users' = [users EXCEPT ![u].grant.isBanned = isBanned]
         /\ granted' = [granted EXCEPT ![u].isBanned = isBanned]
  BY DEF SetBanned
<1>2. /\ u \in Alive /\ Interfere({}) /\ bucket' = bucket /\ pc' = pc /\ job' = job
      /\ started' = started /\ dropped' = dropped
  BY DEF SetBanned
<1>3. TypeInvariant /\ users[u] \in Rows /\ granted[u] = users[u].grant
      /\ users[u].grant \in Grants
  BY <1>2, AliveRows DEF IInv, GrantsStick, Rows
<1> DEFINE grant == [users[u].grant EXCEPT !.isBanned = isBanned]
           row == [users[u] EXCEPT !.grant = grant]
<1>4. grant \in Grants
  BY <1>3 DEF Grants
<1>5. row \in Rows /\ row.grant = grant /\ row.avatar = users[u].avatar
  <2> HIDE DEF grant
  <2> QED BY <1>3, <1>4 DEF Rows
<1>6. users' = [users EXCEPT ![u] = row] /\ granted' = [granted EXCEPT ![u] = grant]
  BY <1>1, <1>3
<1> HIDE DEF grant, row
<1>7. /\ users'[u] = row /\ granted'[u] = grant
      /\ \A v \in Users \ {u} : users'[v] = users[v] /\ granted'[v] = granted[v]
  BY <1>3, <1>6 DEF TypeInvariant
<1>8. Alive' = Alive
  BY <1>2, <1>5, <1>7, AccountsAssumption DEF Alive
<1>9. TypeInvariant'
  <2>1. users' \in [Users -> Rows \cup {NoUser, Gone}]
    BY <1>3, <1>5, <1>6 DEF TypeInvariant
  <2>2. granted' \in [Users -> Grants \cup {NoUser}]
    BY <1>3, <1>4, <1>6 DEF TypeInvariant
  <2>3. QED BY <1>2, <1>3, <2>1, <2>2, InterfereTypes DEF TypeInvariant
<1>10. \A v \in Alive : users'[v].avatar = users[v].avatar
  BY <1>5, <1>7 DEF Alive
<1>11. GrantsStick' /\ OnlyDroppedPicturesAreErased'
  <2>1. GrantsStick'
    BY <1>5, <1>7, <1>8 DEF IInv, GrantsStick, Alive
  <2>2. QED BY <1>2, <2>1 DEF IInv, OnlyDroppedPicturesAreErased
<1>12. ASSUME NEW s \in Requests PROVE RequestInv(s)'
  <2>1. \A v \in Users : users[v] # NoUser => users'[v] # NoUser
    BY <1>5, <1>7, AccountsAssumption
  <2>2. QED BY <1>2, <1>8, <1>10, <2>1, OthersSurvive
<1>13. QED BY <1>2, <1>9, <1>11, <1>12 DEF IInv

LEMMA RemoveKeepsIInv == ASSUME IInv, NEW u \in Users, Remove(u) PROVE IInv'
<1>1. /\ u \in Alive /\ users' = [users EXCEPT ![u] = Gone] /\ Interfere({})
      /\ bucket' = bucket /\ pc' = pc /\ job' = job /\ started' = started
      /\ granted' = granted /\ dropped' = dropped
  BY DEF Remove
<1>2. users'[u] = Gone /\ \A v \in Users \ {u} : users'[v] = users[v]
  BY <1>1 DEF IInv, TypeInvariant
<1>3. Alive' = Alive \ {u}
  BY <1>2, AccountsAssumption DEF Alive
<1>4. TypeInvariant'
  BY <1>1, InterfereTypes DEF IInv, TypeInvariant
<1>5. GrantsStick' /\ OnlyDroppedPicturesAreErased'
  BY <1>1, <1>2, <1>3 DEF IInv, GrantsStick, OnlyDroppedPicturesAreErased, Alive
<1>6. ASSUME NEW s \in Requests PROVE RequestInv(s)'
  <2>1. \A v \in Users : users[v] # NoUser => users'[v] # NoUser
    BY <1>2, AccountsAssumption
  <2>2. \A v \in Users : v \in Alive' => v \in Alive /\ users'[v] = users[v]
    BY <1>2, <1>3
  <2>3. QED BY <1>1, <2>1, <2>2, OthersSurvive
<1>7. QED BY <1>1, <1>4, <1>5, <1>6 DEF IInv

LEMMA StutterKeepsIInv == ASSUME IInv, UNCHANGED vars PROVE IInv'
<1>1. /\ users' = users /\ bucket' = bucket /\ pc' = pc /\ job' = job
      /\ started' = started /\ granted' = granted /\ dropped' = dropped
      /\ contested' = contested
  BY DEF vars, history
<1>2. Alive' = Alive
  BY <1>1 DEF Alive
<1>3. TypeInvariant' /\ GrantsStick' /\ OnlyDroppedPicturesAreErased'
  BY <1>1, <1>2 DEF IInv, TypeInvariant, GrantsStick, OnlyDroppedPicturesAreErased
<1>4. ASSUME NEW r \in Requests PROVE RequestInv(r)'
  <2>1. HasWork(r)' /\ ReadIsAccountedFor(r)'
    BY <1>1, <1>2 DEF IInv, RequestInv, HasWork, ReadIsAccountedFor
  <2>2. EmailTaken(job[r].grant.email)' <=> EmailTaken(job[r].grant.email)
    BY <1>1, <1>2 DEF EmailTaken
  <2>3. Holders(job[r].claim)' = Holders(job[r].claim)
    BY <1>1, <1>2 DEF Holders
  <2>4. IsFresh(r)'
    BY <1>1, <1>2, <2>2, <2>3 DEF IInv, RequestInv, IsFresh
  <2>5. Orphaned(r)' = Orphaned(r)
    BY <1>1 DEF Orphaned, NextAvatar
  <2>6. ErasesDropped(r)'
    BY <1>1, <2>5 DEF IInv, RequestInv, ErasesDropped
  <2>7. QED BY <2>1, <2>4, <2>6 DEF RequestInv
<1>5. QED BY <1>1, <1>3, <1>4 DEF IInv

LEMMA StepKeepsIInv == ASSUME IInv, [Next]_vars PROVE IInv'
<1>1. ASSUME NEW r \in Requests,
             \/ Login(r) \/ LoginByCode(r) \/ Register(r) \/ Insert(r) \/ InsertFails(r)
             \/ Admit(r) \/ CheckConflict(r) \/ ReadTarget(r)
             \/ WriteIdentity(r) \/ WriteIdentityFails(r)
             \/ ReadProfile(r) \/ WriteProfile(r) \/ WriteProfileMisses(r) \/ EraseAvatar(r)
      PROVE  IInv'
  <2>1. CASE Login(r)
    BY <2>1, LoginKeepsIInv
  <2>2. CASE LoginByCode(r) \/ Register(r)
    BY <2>2, FirstSignInKeepsIInv
  <2>3. CASE Insert(r) \/ InsertFails(r)
    BY <2>3, InsertKeepsIInv, InsertFailsKeepsIInv
  <2>4. CASE Admit(r) \/ CheckConflict(r) \/ ReadTarget(r)
    BY <2>4, AdmitKeepsIInv, CheckConflictKeepsIInv, ReadTargetKeepsIInv
  <2>5. CASE WriteIdentity(r) \/ WriteIdentityFails(r)
    BY <2>5, WriteIdentityKeepsIInv, WriteIdentityFailsKeepsIInv
  <2>6. CASE ReadProfile(r) \/ WriteProfile(r) \/ WriteProfileMisses(r)
    BY <2>6, ReadProfileKeepsIInv, WriteProfileKeepsIInv, WriteProfileMissesKeepsIInv
  <2>7. CASE EraseAvatar(r)
    BY <2>7, EraseAvatarKeepsIInv
  <2>8. QED BY <1>1, <2>1, <2>2, <2>3, <2>4, <2>5, <2>6, <2>7
<1>2. ASSUME NEW u \in Users, SetBanned(u) \/ Remove(u) PROVE IInv'
  BY <1>2, SetBannedKeepsIInv, RemoveKeepsIInv
<1>3. QED BY <1>1, <1>2, StutterKeepsIInv DEF Next

LEMMA IInvHolds == Spec => []IInv
<1>1. Init => IInv
  BY InitSatisfiesIInv
<1>2. IInv /\ [Next]_vars => IInv'
  BY StepKeepsIInv
<1>3. QED BY <1>1, <1>2, PTL DEF Spec

-------------------------------------------------------------------------------
(***************************************************************************)
(* Rows, requests and histories keep their types; in particular no row     *)
(* ever holds two identities of one provider (schema.ts 28-29 has one      *)
(* column for each).                                                       *)
(***************************************************************************)
THEOREM AccountsTypes == Spec => []TypeInvariant
<1>1. IInv => TypeInvariant
  BY DEF IInv
<1>2. QED BY <1>1, IInvHolds, PTL

(***************************************************************************)
(* Bans, roles, passwords and emails outlive the stale writes of sign-ins, *)
(* links and profile edits.                                                *)
(***************************************************************************)
THEOREM DecisionsStick == Spec => []GrantsStick
<1>1. IInv => GrantsStick
  BY DEF IInv
<1>2. QED BY <1>1, IInvHolds, PTL

(***************************************************************************)
(* A request that nobody interferes with, and whose identity and email do  *)
(* not belong to two accounts, does not end in a 500.                      *)
(***************************************************************************)
THEOREM UncontestedRequestsSucceed == Spec => []OnlyContestedRequestsFail
<1>1. IInv => OnlyContestedRequestsFail
  BY DEF IInv, RequestInv, IsFresh, OnlyContestedRequestsFail
<1>2. QED BY <1>1, IInvHolds, PTL

(***************************************************************************)
(* Profile edits erase no object of the bucket but avatars that some       *)
(* account has ceased to use, whichever URLs the accounts name and however *)
(* stale the row an edit compares.                                         *)
(***************************************************************************)
THEOREM UndroppedPicturesAreKept == Spec => []OnlyDroppedPicturesAreErased
<1>1. IInv => OnlyDroppedPicturesAreErased
  BY DEF IInv
<1>2. QED BY <1>1, IInvHolds, PTL

(***************************************************************************)
(* A sign-in or a link that succeeds ends in the one account that holds    *)
(* the identity.                                                           *)
(***************************************************************************)
THEOREM SignInsEndWithTheHolder == Spec => SignInEndsWithTheHolder
<1> DEFINE Ends(r) == pc[r] = "updating" /\ pc'[r] = "idle" =>
                         LET u == job[r].user IN
                         /\ job[r].claim \subseteq users'[u].ids
                         /\ Holders(job[r].claim) \subseteq {u}
<1>1. ASSUME IInv, [Next]_vars, NEW r \in Requests, pc[r] = "updating", pc'[r] = "idle"
      PROVE  WriteIdentity(r)
  <2>1. ASSUME NEW s \in Requests, NEW state, NEW work, Goto(s, state, work)
        PROVE  s = r /\ state = "idle"
    <3>1. s = r
      BY <1>1, <2>1, GotoSpares
    <3>2. QED BY <1>1, <2>1, <3>1, GotoMoves
  <2>2. CASE UNCHANGED vars
    BY <1>1, <2>2 DEF vars
  <2>3. ASSUME NEW u \in Users, SetBanned(u) \/ Remove(u) PROVE FALSE
    BY <1>1, <2>3 DEF SetBanned, Remove
  <2>4. ASSUME NEW s \in Requests, Login(s) \/ LoginByCode(s) \/ Register(s) \/ Admit(s)
        PROVE  FALSE
    <3>1. CASE Login(s)
      <4>1. PICK state, work, isContested : Start(s, isContested) /\ Goto(s, state, work)
        BY <3>1 DEF Login
      <4>2. s = r
        BY <2>1, <4>1
      <4>3. QED BY <1>1, <4>1, <4>2 DEF Start, InFlight
    <3>2. CASE LoginByCode(s) \/ Register(s) \/ Admit(s)
      <4>1. PICK state, work : Start(s, FALSE) /\ Goto(s, state, work)
        BY <3>2 DEF LoginByCode, Register, Admit
      <4>2. s = r
        BY <2>1, <4>1
      <4>3. QED BY <1>1, <4>1, <4>2 DEF Start, InFlight
    <3>3. QED BY <2>4, <3>1, <3>2
  <2>5. ASSUME NEW s \in Requests,
               Insert(s) \/ InsertFails(s) \/ CheckConflict(s) \/ ReadTarget(s)
               \/ ReadProfile(s) \/ WriteProfile(s) \/ WriteProfileMisses(s) \/ EraseAvatar(s)
        PROVE  FALSE
    <3>1. pc[s] # "updating"
      BY <2>5 DEF Insert, InsertFails, CheckConflict, ReadTarget, ReadProfile,
                  WriteProfile, WriteProfileMisses, EraseAvatar
    <3>2. \E state, work : Goto(s, state, work)
      BY <2>5 DEF Insert, InsertFails, CheckConflict, ReadTarget, ReadProfile,
                  WriteProfile, WriteProfileMisses, EraseAvatar, Answer, Fail
    <3>3. QED BY <1>1, <2>1, <3>1, <3>2
  <2>6. ASSUME NEW s \in Requests, WriteIdentityFails(s) PROVE FALSE
    BY <2>1, <2>6 DEF WriteIdentityFails, Fail
  <2>7. ASSUME NEW s \in Requests, WriteIdentity(s) PROVE WriteIdentity(r)
    BY <2>1, <2>7 DEF WriteIdentity, Answer
  <2>8. QED BY <1>1, <2>2, <2>3, <2>4, <2>5, <2>6, <2>7 DEF Next
<1>2. ASSUME IInv, NEW r \in Requests, WriteIdentity(r) PROVE Ends(r)
  <2> DEFINE u == job[r].user
  <2>1. /\ pc[r] = "updating" /\ u \in Alive /\ Holders(job[r].claim) \subseteq {u}
        /\ users' = [users EXCEPT ![u] = SignedIn(u, r)]
    BY <1>2 DEF WriteIdentity
  <2>2. users[u] \in Rows /\ u \in Users /\ users'[u] = SignedIn(u, r)
    BY <1>2, <2>1, AliveRows DEF IInv, TypeInvariant
  <2>3. SignedIn(u, r).ids = WithIdentity(users[u].ids, job[r].claim)
    BY <2>2 DEF SignedIn, Rows
  <2>4. job[r].claim \subseteq WithIdentity(users[u].ids, job[r].claim)
    BY DEF WithIdentity
  <2>5. QED BY <2>1, <2>2, <2>3, <2>4
<1>3. IInv /\ [Next]_vars => \A r \in Requests : Ends(r)
  BY <1>1, <1>2
<1>4. IInv /\ [Next]_vars => [\A r \in Requests : Ends(r)]_vars
  BY <1>3
<1>5. QED BY <1>4, IInvHolds, PTL DEF Spec, SignInEndsWithTheHolder
===============================================================================
