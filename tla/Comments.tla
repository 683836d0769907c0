-------------------------------- MODULE Comments --------------------------------
(***************************************************************************)
(* Comments (src/comments/comments.service.ts), the articles they are on,  *)
(* and the removal of users (src/users/users.service.ts), which must not   *)
(* take articles with it and must not leave comments behind.               *)
(*                                                                         *)
(* The tables are bound by foreign keys (src/database/schema.ts): a        *)
(* comment goes with its article; neither an article nor a comment goes    *)
(* with its author, whose row cannot be deleted while one is there.  A     *)
(* removal is one transaction: what it has deleted is locked until it      *)
(* commits, and back if it does not.                                       *)
(***************************************************************************)
EXTENDS Naturals

CONSTANTS Requests,    \* the requests that run at a time
          MaxRequests, \* bound: requests started in all
          Users, Admins, Posts, CommentIds,
          None, Gone   \* a row before it is there, and after

VARIABLES alive,     \* the rows of users
          posts,     \* author and allowComments
          comments,  \* post and author
          pc, job,   \* where each request is, and what it works on
          started    \* how many requests there have been

\* History, read by no action.
VARIABLE hindered    \* requests that have lost a row they need, or met a new one

tables == <<alive, posts, comments>>
vars == <<tables, pc, job, started, hindered>>

PostRows == [author : Users, allowComments : BOOLEAN]
CommentRows == [post : Posts, author : Users]

\* `by` is the user of the token, `target` the user to be removed, `locked`
\* what a removal has deleted and not committed.
Jobs == [by : Users \cup {None}, target : Users \cup {None},
         post : Posts \cup {None}, comment : CommentIds \cup {None},
         locked : SUBSET CommentIds]

NoJob == [by |-> None, target |-> None, post |-> None, comment |-> None,
          locked |-> {}]

ASSUME CommentsAssumption ==
    /\ MaxRequests \in Nat
    /\ Admins \subseteq Users
    /\ None # Gone
    /\ {None, Gone} \cap (PostRows \cup CommentRows) = {}
    /\ None \notin Users \cup Posts \cup CommentIds

Here == {p \in Posts : posts[p] \notin {None, Gone}}
Written == {c \in CommentIds : comments[c] \notin {None, Gone}}

PostsBy(u) == {p \in Here : posts[p].author = u}
CommentsBy(u) == {c \in Written : comments[c].author = u}
CommentsOn(p) == {c \in Written : comments[c].post = p}

TypeInvariant ==
    /\ alive \subseteq Users
    /\ posts \in [Posts -> PostRows \cup {None, Gone}]
    /\ comments \in [CommentIds -> CommentRows \cup {None, Gone}]
    /\ pc \in [Requests -> {"idle", "failed", "publishing", "commenting",
                            "deleting", "purging", "removing"}]
    /\ job \in [Requests -> Jobs]
    /\ \A q, r \in Requests : q # r => job[q].locked \cap job[r].locked = {}
    /\ started \in 0 .. MaxRequests
    /\ hindered \subseteq Requests

Init ==
    /\ alive = Users
    /\ posts = [p \in Posts |-> None]
    /\ comments = [c \in CommentIds |-> None]
    /\ pc = [r \in Requests |-> "idle"]
    /\ job = [r \in Requests |-> NoJob]
    /\ started = 0
    /\ hindered = {}

-------------------------------------------------------------------------------
\* Mutant: the author is not taken from the token.
AuthorOf_Body(r) == None

\* request.user!.sub
AuthorOf(r) == job[r].by

InFlight(r) == pc[r] \notin {"idle", "failed"}

Goto(r, state, work) ==
    /\ pc' = [pc EXCEPT ![r] = state]
    /\ job' = [job EXCEPT ![r] = work]

\* An answer, be it a refusal; and a 500.
Answer(r) == Goto(r, "idle", NoJob)
Fail(r) == Goto(r, "failed", NoJob)

\* JwtAuthGuard lets a token pass whose user is gone.
Start(r, by) ==
    /\ ~InFlight(r)
    /\ started < MaxRequests
    /\ started' = started + 1
    /\ hindered' = IF by \in alive THEN hindered \ {r} ELSE hindered \cup {r}
    /\ UNCHANGED tables

Locked == UNION {job[r].locked : r \in Requests}

\* History of a write: the requests in the way of which it is.
Hinder(rs) == hindered' = hindered \cup rs

AboutPost(p) == {r \in Requests : pc[r] = "commenting" /\ job[r].post = p}
By(u) == {r \in Requests : pc[r] \in {"publishing", "commenting"} /\ job[r].by = u}
Removing(u) == {r \in Requests : pc[r] \in {"purging", "removing"} /\ job[r].target = u}

-------------------------------------------------------------------------------
(* Articles, as far as comments depend on them (posts.service.ts).         *)

Publish(r) ==
    \E by \in Admins :
        /\ Start(r, by)
        /\ Goto(r, "publishing", [NoJob EXCEPT !.by = by])

InsertPost(r) ==
    LET by == job[r].by IN
    /\ pc[r] = "publishing"
    /\ by \in alive
    /\ \E p \in Posts, allowComments \in BOOLEAN :
          /\ posts[p] = None
          /\ posts' = [posts EXCEPT ![p] =
                [author |-> AuthorOf(r), allowComments |-> allowComments]]
    /\ Answer(r)
    /\ Hinder(Removing(by))
    /\ UNCHANGED <<alive, comments, started>>

\* The author's row is gone.
InsertPostFails(r) ==
    /\ pc[r] = "publishing"
    /\ job[r].by \notin alive
    /\ Fail(r)
    /\ UNCHANGED <<tables, started, hindered>>

\* update, of the switch.
SwitchComments(p) ==
    /\ p \in Here
    /\ posts' = [posts EXCEPT ![p].allowComments = ~@]
    /\ UNCHANGED <<alive, comments, pc, job, started, hindered>>

\* remove; the comments go with the article.  A locked one is waited for.
RemovePost(p) ==
    /\ p \in Here
    /\ CommentsOn(p) \cap Locked = {}
    /\ posts' = [posts EXCEPT ![p] = Gone]
    /\ comments' = [c \in CommentIds |->
                       IF c \in CommentsOn(p) THEN Gone ELSE comments[c]]
    /\ Hinder(AboutPost(p))
    /\ UNCHANGED <<alive, pc, job, started>>

-------------------------------------------------------------------------------
(* create.                                                                 *)

Commentable(p) == p \in Here /\ posts[p].allowComments

ReadPost(r) ==
    \E by \in Users, p \in Posts :
        /\ Start(r, by)
        /\ IF Commentable(p)
           THEN Goto(r, "commenting", [NoJob EXCEPT !.by = by, !.post = p])
           ELSE Answer(r)

\* Both rows that the new one refers to are there.
InsertComment(r) ==
    LET by == job[r].by  p == job[r].post IN
    /\ pc[r] = "commenting"
    /\ by \in alive /\ p \in Here
    /\ \E c \in CommentIds :
          /\ comments[c] = None
          /\ comments' = [comments EXCEPT ![c] = [post |-> p, author |-> AuthorOf(r)]]
    /\ Answer(r)
    /\ Hinder(Removing(by))
    /\ UNCHANGED <<alive, posts, started>>

\* A foreign key refuses the row.
InsertCommentFails(r) ==
    /\ pc[r] = "commenting"
    /\ job[r].by \notin alive \/ job[r].post \notin Here
    /\ Fail(r)
    /\ UNCHANGED <<tables, started, hindered>>

-------------------------------------------------------------------------------
(* remove, of a comment.                                                   *)

\* Mutant: whoever has signed in may delete.
MayDelete_Anyone(by, c) == by \in Users

MayDelete(by, c) == comments[c].author = by \/ by \in Admins

ReadComment(r) ==
    \E by \in Users, c \in CommentIds :
        /\ Start(r, by)
        /\ IF c \in Written /\ MayDelete(by, c)
           THEN Goto(r, "deleting", [NoJob EXCEPT !.by = by, !.comment = c])
           ELSE Answer(r)

\* Where it is gone already, nothing is deleted and the answer is the same.
DeleteComment(r) ==
    LET c == job[r].comment IN
    /\ pc[r] = "deleting"
    /\ c \notin Locked
    /\ comments' = [comments EXCEPT ![c] = Gone]
    /\ Answer(r)
    /\ UNCHANGED <<alive, posts, started, hindered>>

-------------------------------------------------------------------------------
(* deleteUserAndCascadeComments: one transaction, three statements.        *)

\* Mutant: the removal is left to the foreign keys.
Authored_Never(u) == {}

Authored(u) == PostsBy(u)

ReadAuthored(r) ==
    \E u \in Users :
        /\ Start(r, u)
        /\ IF Authored(u) # {} THEN Answer(r)
           ELSE Goto(r, "purging", [NoJob EXCEPT !.target = u])

\* Mutant: no transaction; the comments are gone at once.
PurgeComments_Commits(r) ==
    LET u == job[r].target IN
    /\ pc[r] = "purging"
    /\ comments' = [c \in CommentIds |->
                       IF c \in CommentsBy(u) THEN Gone ELSE comments[c]]
    /\ Goto(r, "removing", job[r])
    /\ UNCHANGED <<alive, posts, started, hindered>>

\* DELETE FROM comments.  Rows that another removal has deleted are waited for.
PurgeComments(r) ==
    LET u == job[r].target IN
    /\ pc[r] = "purging"
    /\ CommentsBy(u) \cap Locked = {}
    /\ Goto(r, "removing", [job[r] EXCEPT !.locked = CommentsBy(u)])
    /\ UNCHANGED <<tables, started, hindered>>

\* Mutant: comments.author_id is not a foreign key.
References_PostsOnly(r, u) == PostsBy(u)

\* What the foreign keys find when the row of user u is deleted.
References(r, u) == PostsBy(u) \cup (CommentsBy(u) \ job[r].locked)

\* DELETE FROM users, and COMMIT.
DeleteUser(r) ==
    LET u == job[r].target IN
    /\ pc[r] = "removing"
    /\ u \in alive /\ References(r, u) = {}
    /\ alive' = alive \ {u}
    /\ comments' = [c \in CommentIds |->
                       IF c \in job[r].locked THEN Gone ELSE comments[c]]
    /\ Answer(r)
    /\ Hinder(By(u) \cup Removing(u))
    /\ UNCHANGED <<posts, started>>

\* ROLLBACK: nobody was deleted (404), or a foreign key refused (500).
DeleteUserRollsBack(r) ==
    LET u == job[r].target IN
    /\ pc[r] = "removing"
    /\ \/ u \notin alive /\ Answer(r)
       \/ u \in alive /\ References(r, u) # {} /\ Fail(r)
    /\ UNCHANGED <<tables, started, hindered>>

Next ==
    \/ \E r \in Requests :
          \/ Publish(r) \/ InsertPost(r) \/ InsertPostFails(r)
          \/ ReadPost(r) \/ InsertComment(r) \/ InsertCommentFails(r)
          \/ ReadComment(r) \/ DeleteComment(r)
          \/ ReadAuthored(r) \/ PurgeComments(r)
          \/ DeleteUser(r) \/ DeleteUserRollsBack(r)
    \/ \E p \in Posts : SwitchComments(p) \/ RemovePost(p)

Spec == Init /\ [][Next]_vars

-------------------------------------------------------------------------------
(***************************************************************************)
(* Nothing outlives what it belongs to: no article is without its author,  *)
(* no comment without its author or its article, although every request    *)
(* decides on rows that others may remove before it writes                 *)
(* (users.service.ts 161-191, comments.service.ts 58-78).                  *)
(***************************************************************************)
NothingIsOrphaned ==
    /\ \A p \in Here : posts[p].author \in alive
    /\ \A c \in Written : comments[c].author \in alive /\ comments[c].post \in Here

(***************************************************************************)
(* A comment disappears with its article, with its author, or because its  *)
(* author or an administrator asked for that; a removal that does not      *)
(* come about takes none with it (users.service.ts 162-191,                *)
(* comments.service.ts 89-101).                                            *)
(***************************************************************************)
CommentsVanishForAReason ==
    [][\A c \in Written \ Written' :
          \/ comments[c].post \notin Here'
          \/ comments[c].author \notin alive'
          \/ \E r \in Requests :
                /\ pc[r] = "deleting" /\ job[r].comment = c
                /\ job[r].by \in Admins \cup {comments[c].author}]_vars

(***************************************************************************)
(* A request ends in a 500 only if it came from a user who is gone, or     *)
(* lost its article or its user under way, or, being a removal, met        *)
(* something its user wrote meanwhile: for ids that are well formed, what  *)
(* each handler reads first (comments.service.ts 58-73, users.service.ts   *)
(* 166-174) and deletes first (178) rules out every other failure.         *)
(***************************************************************************)
OnlyHinderedRequestsFail == \A r \in Requests : pc[r] = "failed" => r \in hindered
===============================================================================
