----------------------------- MODULE CommentsProofs -----------------------------
(* Theorems about Comments, for any number of requests, users, articles and *)
(* comments.                                                                *)
EXTENDS Comments, TLAPS

\* What a request works on while it is under way.
JobFits(r) ==
    /\ pc[r] \in {"publishing", "commenting", "deleting"} => job[r].by \in Users
    /\ pc[r] = "commenting" => job[r].post \in Posts
    /\ pc[r] = "deleting" => job[r].comment \in CommentIds
    /\ pc[r] \in {"purging", "removing"} => job[r].target \in Users

\* A removal has locked comments of its user, which nobody else touches.
LocksBelong(r) ==
    \A c \in job[r].locked :
        /\ pc[r] = "removing"
        /\ c \in Written
        /\ comments[c].author = job[r].target

\* Who is about to delete a comment may delete it, if it is still there.
DeleterMay(r) ==
    pc[r] = "deleting" =>
        /\ comments[job[r].comment] # None
        /\ job[r].comment \in Written => MayDelete(job[r].by, job[r].comment)

\* Whoever is in nobody's way finds the rows it needs, and none it must not find.
IsUnhindered(r) ==
    /\ pc[r] # "failed"
    /\ pc[r] \in {"publishing", "commenting"} => job[r].by \in alive
    /\ pc[r] = "commenting" => job[r].post \in Here
    /\ pc[r] \in {"purging", "removing"} => PostsBy(job[r].target) = {}
    /\ pc[r] = "removing" => CommentsBy(job[r].target) \subseteq job[r].locked

Fits(r) ==
    /\ JobFits(r)
    /\ LocksBelong(r)
    /\ DeleterMay(r)
    /\ r \notin hindered => IsUnhindered(r)

IInv ==
    /\ TypeInvariant
    /\ NothingIsOrphaned
    /\ \A r \in Requests : Fits(r)

LEMMA NoJobType == NoJob \in Jobs /\ NoJob.locked = {}
BY DEF NoJob, Jobs

LEMMA Rows ==
    ASSUME TypeInvariant
    PROVE  /\ Here \subseteq Posts /\ \A p \in Here : posts[p] \in PostRows
           /\ Written \subseteq CommentIds /\ \A c \in Written : comments[c] \in CommentRows
BY DEF TypeInvariant, Here, Written

\* A request that has nothing to do has nothing to do wrong.
LEMMA IdleFits ==
    ASSUME NEW r \in Requests, pc[r] = "idle", job[r] = NoJob
    PROVE  Fits(r)
BY NoJobType DEF Fits, JobFits, LocksBelong, DeleterMay, IsUnhindered

LEMMA InitIInv == Init => IInv
<1> SUFFICES ASSUME Init PROVE IInv
  OBVIOUS
<1> USE NoJobType, CommentsAssumption DEF Init
<1>1. TypeInvariant
  BY DEF TypeInvariant
<1>2. NothingIsOrphaned
  BY DEF NothingIsOrphaned, Here, Written
<1> QED
  BY <1>1, <1>2, IdleFits DEF IInv

-------------------------------------------------------------------------------
(* Steps of one request that leave the tables alone.                        *)

\* What such a step leaves to the other requests.
Alone(r) ==
    /\ UNCHANGED tables
    /\ \A q \in Requests \ {r} :
          /\ pc'[q] = pc[q]
          /\ job'[q] = job[q]
          /\ q \in hindered' <=> q \in hindered

LEMMA OthersFit ==
    ASSUME NEW r \in Requests, Alone(r), \A q \in Requests : Fits(q)
    PROVE  \A q \in Requests \ {r} : Fits(q)'
BY DEF Alone, Fits, JobFits, LocksBelong, DeleterMay, IsUnhindered,
   tables, Here, Written, MayDelete, PostsBy, CommentsBy

LEMMA AloneIInv ==
    ASSUME NEW r \in Requests, IInv, Alone(r), TypeInvariant', Fits(r)'
    PROVE  IInv'
<1>1. NothingIsOrphaned'
  BY DEF IInv, Alone, tables, NothingIsOrphaned, Here, Written
<1> QED
  BY <1>1, OthersFit DEF IInv

\* A request that sets out, or is answered at once.
LEMMA StartIInv ==
    ASSUME NEW r \in Requests, NEW by \in Users, IInv, Start(r, by),
           NEW state \in {"idle", "publishing", "commenting", "deleting", "purging"},
           NEW work \in Jobs, work.locked = {}, Goto(r, state, work),
           state = "idle" => work = NoJob,
           Fits(r)'
    PROVE  IInv'
<1>1. Alone(r)
  BY DEF Alone, Start, Goto, IInv, TypeInvariant
<1>2. started' \in 0 .. MaxRequests
  BY CommentsAssumption DEF Start, IInv, TypeInvariant
<1>3. TypeInvariant'
  BY <1>1, <1>2 DEF Start, Goto, IInv, TypeInvariant, tables
<1> QED
  BY <1>1, <1>3, AloneIInv

LEMMA PublishIInv ==
    ASSUME NEW r \in Requests, IInv, Publish(r) PROVE IInv'
<1> PICK by \in Admins : /\ Start(r, by)
                         /\ Goto(r, "publishing", [NoJob EXCEPT !.by = by])
  BY DEF Publish
<1> DEFINE work == [NoJob EXCEPT !.by = by]
<1>1. by \in Users
  BY CommentsAssumption
<1>2. work \in Jobs /\ work.locked = {} /\ work.by = by
  BY <1>1 DEF NoJob, Jobs
<1>3. pc'[r] = "publishing" /\ job'[r] = work
  BY DEF Goto, IInv, TypeInvariant
<1>4. r \notin hindered' => by \in alive'
  BY DEF Start, tables
<1>5. Fits(r)'
  BY <1>1, <1>2, <1>3, <1>4 DEF Fits, JobFits, LocksBelong, DeleterMay, IsUnhindered
<1> QED
  BY <1>1, <1>2, <1>5, StartIInv DEF IInv, TypeInvariant

LEMMA ReadPostIInv ==
    ASSUME NEW r \in Requests, IInv, ReadPost(r) PROVE IInv'
<1> PICK by \in Users, p \in Posts :
        /\ Start(r, by)
        /\ IF Commentable(p)
           THEN Goto(r, "commenting", [NoJob EXCEPT !.by = by, !.post = p])
           ELSE Answer(r)
  BY DEF ReadPost
<1> DEFINE work == [NoJob EXCEPT !.by = by, !.post = p]
<1>1. work \in Jobs /\ work.locked = {} /\ work.by = by /\ work.post = p
  BY DEF NoJob, Jobs
<1>2. CASE Commentable(p)
  <2>1. pc'[r] = "commenting" /\ job'[r] = work
    BY <1>2 DEF Goto, IInv, TypeInvariant
  <2>2. r \notin hindered' => by \in alive'
    BY DEF Start, tables
  <2>3. p \in Here'
    BY <1>2 DEF Commentable, Start, tables, Here
  <2>4. Fits(r)'
    BY <1>1, <2>1, <2>2, <2>3
       DEF Fits, JobFits, LocksBelong, DeleterMay, IsUnhindered
  <2> QED
    BY <1>1, <1>2, <2>4, StartIInv
<1>3. CASE ~Commentable(p)
  <2>1. pc'[r] = "idle" /\ job'[r] = NoJob
    BY <1>3 DEF Answer, Goto, IInv, TypeInvariant
  <2>2. Fits(r)'
    BY <2>1, NoJobType
       DEF Fits, JobFits, LocksBelong, DeleterMay, IsUnhindered
  <2> QED
    BY <1>3, <2>2, NoJobType, StartIInv DEF Answer
<1> QED
  BY <1>2, <1>3

LEMMA ReadCommentIInv ==
    ASSUME NEW r \in Requests, IInv, ReadComment(r) PROVE IInv'
<1> PICK by \in Users, c \in CommentIds :
        /\ Start(r, by)
        /\ IF c \in Written /\ MayDelete(by, c)
           THEN Goto(r, "deleting", [NoJob EXCEPT !.by = by, !.comment = c])
           ELSE Answer(r)
  BY DEF ReadComment
<1> DEFINE work == [NoJob EXCEPT !.by = by, !.comment = c]
<1>1. work \in Jobs /\ work.locked = {} /\ work.by = by /\ work.comment = c
  BY DEF NoJob, Jobs
<1>2. CASE c \in Written /\ MayDelete(by, c)
  <2>1. pc'[r] = "deleting" /\ job'[r] = work
    BY <1>2 DEF Goto, IInv, TypeInvariant
  <2>2. comments'[c] # None /\ MayDelete(by, c)'
    BY <1>2 DEF Start, tables, Written, MayDelete
  <2>3. Fits(r)'
    BY <1>1, <2>1, <2>2
       DEF Fits, JobFits, LocksBelong, DeleterMay, IsUnhindered, MayDelete
  <2> QED
    BY <1>1, <1>2, <2>3, StartIInv
<1>3. CASE ~(c \in Written /\ MayDelete(by, c))
  <2>1. pc'[r] = "idle" /\ job'[r] = NoJob
    BY <1>3 DEF Answer, Goto, IInv, TypeInvariant
  <2>2. Fits(r)'
    BY <2>1, NoJobType
       DEF Fits, JobFits, LocksBelong, DeleterMay, IsUnhindered
  <2> QED
    BY <1>3, <2>2, NoJobType, StartIInv DEF Answer
<1> QED
  BY <1>2, <1>3

LEMMA ReadAuthoredIInv ==
    ASSUME NEW r \in Requests, IInv, ReadAuthored(r) PROVE IInv'
<1> PICK u \in Users :
        /\ Start(r, u)
        /\ IF Authored(u) # {} THEN Answer(r)
           ELSE Goto(r, "purging", [NoJob EXCEPT !.target = u])
  BY DEF ReadAuthored
<1> DEFINE work == [NoJob EXCEPT !.target = u]
<1>1. work \in Jobs /\ work.locked = {} /\ work.target = u
  BY DEF NoJob, Jobs
<1>2. CASE Authored(u) = {}
  <2>1. pc'[r] = "purging" /\ job'[r] = work
    BY <1>2 DEF Goto, IInv, TypeInvariant
  <2>2. PostsBy(u)' = {}
    BY <1>2 DEF Authored, Start, tables, PostsBy, Here
  <2>3. Fits(r)'
    BY <1>1, <2>1, <2>2
       DEF Fits, JobFits, LocksBelong, DeleterMay, IsUnhindered, PostsBy
  <2> QED
    BY <1>1, <1>2, <2>3, StartIInv
<1>3. CASE Authored(u) # {}
  <2>1. pc'[r] = "idle" /\ job'[r] = NoJob
    BY <1>3 DEF Answer, Goto, IInv, TypeInvariant
  <2>2. Fits(r)'
    BY <2>1, NoJobType
       DEF Fits, JobFits, LocksBelong, DeleterMay, IsUnhindered
  <2> QED
    BY <1>3, <2>2, NoJobType, StartIInv DEF Answer
<1> QED
  BY <1>2, <1>3

\* Comments that a removal locks are nobody else's.
LEMMA PurgeCommentsIInv ==
    ASSUME NEW r \in Requests, IInv, PurgeComments(r) PROVE IInv'
<1> DEFINE u == job[r].target
           work == [job[r] EXCEPT !.locked = CommentsBy(u)]
<1>1. CommentsBy(u) \subseteq CommentIds
  BY DEF CommentsBy, Written
<1>2. work \in Jobs /\ work.target = u /\ work.locked = CommentsBy(u)
  BY <1>1 DEF IInv, TypeInvariant, Jobs
<1>3. pc'[r] = "removing" /\ job'[r] = work /\ job' \in [Requests -> Jobs]
  BY <1>2 DEF PurgeComments, Goto, IInv, TypeInvariant
<1>4. Alone(r)
  BY DEF PurgeComments, Alone, Goto, IInv, TypeInvariant
<1>5. \A q, s \in Requests : q # s => job'[q].locked \cap job'[s].locked = {}
  <2>1. \A q \in Requests : CommentsBy(u) \cap job[q].locked = {}
    BY DEF PurgeComments, Locked
  <2>2. \A q \in Requests \ {r} : job'[q] = job[q]
    BY <1>4 DEF Alone
  <2>3. \A q, s \in Requests : q # s => job[q].locked \cap job[s].locked = {}
    BY DEF IInv, TypeInvariant
  <2>4. job'[r].locked = CommentsBy(u)
    BY <1>2, <1>3
  <2> HIDE DEF u, work
  <2> QED
    BY <2>1, <2>2, <2>3, <2>4
<1>6. TypeInvariant'
  BY <1>3, <1>5 DEF PurgeComments, Goto, IInv, TypeInvariant, tables
<1>7. Fits(r) /\ u \in Users
  BY DEF PurgeComments, IInv, Fits, JobFits
<1>8. UNCHANGED <<alive, posts, comments, hindered>>
  BY DEF PurgeComments, tables
<1>9. Fits(r)'
  BY <1>2, <1>3, <1>7, <1>8 DEF PurgeComments, Fits, JobFits, LocksBelong, DeleterMay, IsUnhindered, PostsBy, CommentsBy, Here, Written
<1> QED
  BY <1>4, <1>6, <1>9, AloneIInv

\* A request that ends without a change to the tables, badly if it was hindered.
LEMMA EndIInv ==
    ASSUME NEW r \in Requests, IInv, Answer(r) \/ (Fail(r) /\ r \in hindered),
           UNCHANGED <<tables, started, hindered>>
    PROVE  IInv'
<1>1. job'[r] = NoJob /\ pc'[r] \in {"idle", "failed"} /\ (pc'[r] = "failed" => r \in hindered)
  BY DEF Answer, Fail, Goto, IInv, TypeInvariant
<1>2. Alone(r)
  BY DEF Answer, Fail, Goto, Alone, IInv, TypeInvariant
<1>3. TypeInvariant'
  BY NoJobType DEF Answer, Fail, Goto, IInv, TypeInvariant, tables
<1>4. Fits(r)'
  BY <1>1, NoJobType DEF Fits, JobFits, LocksBelong, DeleterMay,
     IsUnhindered
<1> QED
  BY <1>2, <1>3, <1>4, AloneIInv

\* Nobody fails for nothing.
LEMMA FailuresAreHindered ==
    ASSUME NEW r \in Requests, IInv,
           \/ pc[r] = "publishing" /\ job[r].by \notin alive
           \/ pc[r] = "commenting" /\ (job[r].by \notin alive \/ job[r].post \notin Here)
           \/ pc[r] = "removing" /\ References(r, job[r].target) # {}
    PROVE  r \in hindered
BY DEF IInv, Fits, IsUnhindered, References

LEMMA FailingIInv ==
    ASSUME NEW r \in Requests, IInv,
           InsertPostFails(r) \/ InsertCommentFails(r) \/ DeleteUserRollsBack(r)
    PROVE  IInv'
<1>1. Answer(r) \/ (Fail(r) /\ r \in hindered)
  BY FailuresAreHindered DEF InsertPostFails, InsertCommentFails, DeleteUserRollsBack
<1>2. UNCHANGED <<tables, started, hindered>>
  BY DEF InsertPostFails, InsertCommentFails, DeleteUserRollsBack
<1> QED
  BY <1>1, <1>2, EndIInv

-------------------------------------------------------------------------------
(* Steps that write.                                                        *)

LEMMA InsertPostIInv ==
    ASSUME NEW r \in Requests, IInv, InsertPost(r) PROVE IInv'
<1> DEFINE by == job[r].by
<1> PICK p \in Posts, allowComments \in BOOLEAN :
        /\ posts[p] = None
        /\ posts' = [posts EXCEPT ![p] = [author |-> by, allowComments |-> allowComments]]
  BY DEF InsertPost, AuthorOf
<1>1. by \in Users /\ by \in alive
  BY DEF InsertPost, IInv, Fits, JobFits
<1>2. TypeInvariant'
  BY <1>1, NoJobType DEF InsertPost, Answer, Goto, Hinder, Removing, IInv, TypeInvariant, PostRows
<1>3. Here' = Here \cup {p} /\ \A q \in Here : posts'[q] = posts[q]
  BY <1>1, CommentsAssumption DEF Here, IInv, TypeInvariant, PostRows
<1>4. Written' = Written /\ \A c \in Written : comments'[c] = comments[c]
  BY DEF InsertPost, Written
<1>5. posts'[p].author = by
  BY DEF IInv, TypeInvariant
<1>6. NothingIsOrphaned'
  BY <1>1, <1>3, <1>4, <1>5 DEF InsertPost, IInv, NothingIsOrphaned
<1>7. Fits(r)'
  <2> pc'[r] = "idle" /\ job'[r] = NoJob
    BY DEF InsertPost, Answer, Goto, IInv, TypeInvariant
  <2> QED
    BY NoJobType DEF Fits, JobFits, LocksBelong, DeleterMay, IsUnhindered
<1>8. ASSUME NEW q \in Requests \ {r} PROVE Fits(q)'
  <2>1. pc'[q] = pc[q] /\ job'[q] = job[q] /\ Fits(q)
    BY DEF InsertPost, Answer, Goto, IInv, TypeInvariant
  <2>2. q \notin hindered' /\ pc[q] \in {"purging", "removing"} => job[q].target # by
    BY DEF InsertPost, Hinder, Removing
  <2>3. q \notin hindered' => q \notin hindered
    BY DEF InsertPost, Hinder
  <2>4. q \notin hindered' => IsUnhindered(q)'
    BY <1>3, <1>4, <1>5, <2>1, <2>2, <2>3
       DEF InsertPost, Fits, IsUnhindered, PostsBy, CommentsBy
  <2> QED
    BY <1>4, <2>1, <2>4
       DEF InsertPost, Fits, JobFits, LocksBelong, DeleterMay, MayDelete
<1> QED
  BY <1>2, <1>6, <1>7, <1>8 DEF IInv

LEMMA SwitchCommentsIInv ==
    ASSUME NEW p \in Posts, IInv, SwitchComments(p) PROVE IInv'
<1>1. posts[p] \in PostRows
  BY Rows DEF IInv, SwitchComments
<1>2. [posts[p] EXCEPT !.allowComments = ~@] \in PostRows
  BY <1>1 DEF PostRows
<1>3. posts'[p] = [posts[p] EXCEPT !.allowComments = ~@]
      /\ \A q \in Posts \ {p} : posts'[q] = posts[q]
  BY DEF SwitchComments, IInv, TypeInvariant
<1>4. TypeInvariant'
  BY <1>2 DEF SwitchComments, IInv, TypeInvariant, AboutPost
<1>5. Here' = Here /\ \A q \in Here : posts'[q].author = posts[q].author
  BY <1>1, <1>2, <1>3, CommentsAssumption DEF SwitchComments, Here, PostRows
<1>6. Written' = Written
  BY DEF SwitchComments, Written
<1>7. NothingIsOrphaned'
  BY <1>5, <1>6 DEF SwitchComments, IInv, NothingIsOrphaned
<1>8. ASSUME NEW q \in Requests PROVE Fits(q)'
  BY <1>5, <1>6 DEF SwitchComments, IInv, Fits, JobFits, LocksBelong, DeleterMay, MayDelete, IsUnhindered, PostsBy, CommentsBy
<1> QED
  BY <1>4, <1>7, <1>8 DEF IInv

LEMMA RemovePostIInv ==
    ASSUME NEW p \in Posts, IInv, RemovePost(p) PROVE IInv'
<1>1. TypeInvariant'
  BY DEF RemovePost, IInv, TypeInvariant, Hinder, AboutPost
<1>2. Here' = Here \ {p} /\ \A q \in Here' : posts'[q] = posts[q]
  BY DEF RemovePost, Here, IInv, TypeInvariant
<1>3. Written' = Written \ CommentsOn(p) /\ \A c \in Written' : comments'[c] = comments[c]
  BY DEF RemovePost, Written, CommentsOn, IInv, TypeInvariant
<1>4. NothingIsOrphaned'
  BY <1>2, <1>3 DEF RemovePost, IInv, NothingIsOrphaned, CommentsOn
<1>5. ASSUME NEW q \in Requests PROVE Fits(q)'
  <2>1. pc'[q] = pc[q] /\ job'[q] = job[q] /\ Fits(q) /\ UNCHANGED alive
    BY DEF RemovePost, IInv
  <2>2. q \notin hindered' => q \notin hindered /\ ~(pc[q] = "commenting" /\ job[q].post = p)
    BY DEF RemovePost, Hinder, AboutPost
  <2>3. job[q].locked \cap CommentsOn(p) = {}
    BY DEF RemovePost, Locked
  <2>4. JobFits(q)'
    BY <2>1 DEF Fits, JobFits
  <2>5. LocksBelong(q)'
    BY <1>3, <2>1, <2>3 DEF Fits, LocksBelong
  <2>6. DeleterMay(q)'
    BY <1>3, <2>1, CommentsAssumption
       DEF RemovePost, Fits, DeleterMay, JobFits, MayDelete
  <2>7. q \notin hindered' => IsUnhindered(q)'
    BY <1>2, <1>3, <2>1, <2>2 DEF Fits, IsUnhindered, PostsBy, CommentsBy
  <2> QED
    BY <2>4, <2>5, <2>6, <2>7 DEF Fits
<1> QED
  BY <1>1, <1>4, <1>5 DEF IInv

LEMMA InsertCommentIInv ==
    ASSUME NEW r \in Requests, IInv, InsertComment(r) PROVE IInv'
<1> DEFINE by == job[r].by
           p == job[r].post
<1> PICK c \in CommentIds :
        /\ comments[c] = None
        /\ comments' = [comments EXCEPT ![c] = [post |-> p, author |-> by]]
  BY DEF InsertComment, AuthorOf
<1>1. by \in Users /\ by \in alive /\ p \in Posts /\ p \in Here
  BY DEF InsertComment, IInv, Fits, JobFits
<1>2. TypeInvariant'
  BY <1>1, NoJobType
     DEF InsertComment, Answer, Goto, Hinder, Removing, IInv, TypeInvariant, CommentRows
<1>3. Written' = Written \cup {c} /\ \A d \in Written : comments'[d] = comments[d]
  BY <1>1, CommentsAssumption DEF Written, IInv, TypeInvariant, CommentRows
<1>4. Here' = Here /\ posts' = posts /\ c \notin Written
  BY DEF InsertComment, Here, Written
<1>5. comments'[c].author = by /\ comments'[c].post = p
  BY DEF IInv, TypeInvariant
<1>6. NothingIsOrphaned'
  BY <1>1, <1>3, <1>4, <1>5 DEF InsertComment, IInv, NothingIsOrphaned
<1>7. Fits(r)'
  <2> pc'[r] = "idle" /\ job'[r] = NoJob
    BY DEF InsertComment, Answer, Goto, IInv, TypeInvariant
  <2> QED
    BY NoJobType DEF Fits, JobFits, LocksBelong, DeleterMay, IsUnhindered
<1>8. ASSUME NEW q \in Requests \ {r} PROVE Fits(q)'
  <2>1. pc'[q] = pc[q] /\ job'[q] = job[q] /\ Fits(q) /\ UNCHANGED alive
    BY DEF InsertComment, Answer, Goto, IInv, TypeInvariant
  <2>2. q \notin hindered' /\ pc[q] \in {"purging", "removing"} => job[q].target # by
    BY DEF InsertComment, Hinder, Removing
  <2>3. q \notin hindered' => q \notin hindered
    BY DEF InsertComment, Hinder
  <2>4. JobFits(q)'
    BY <2>1 DEF Fits, JobFits
  <2>5. LocksBelong(q)'
    BY <1>3, <2>1 DEF Fits, LocksBelong
  <2>6. DeleterMay(q)'
    <3>1. pc[q] = "deleting" => job[q].comment # c
      BY <2>1 DEF Fits, DeleterMay
    <3> QED
      BY <1>3, <2>1, <3>1 DEF Fits, DeleterMay, JobFits, MayDelete
  <2>7. q \notin hindered' => IsUnhindered(q)'
    BY <1>3, <1>4, <1>5, <2>1, <2>2, <2>3 DEF Fits, IsUnhindered, PostsBy, CommentsBy
  <2> QED
    BY <2>4, <2>5, <2>6, <2>7 DEF Fits
<1> QED
  BY <1>2, <1>6, <1>7, <1>8 DEF IInv

\* What all steps have in common that take comments away and nothing else.
LEMMA OthersLoseComments ==
    ASSUME NEW q \in Requests, IInv, pc'[q] = pc[q], job'[q] = job[q],
           UNCHANGED posts,
           Written' \subseteq Written,
           \A c \in Written' : comments'[c] = comments[c],
           \A c \in CommentIds : comments[c] # None => comments'[c] # None,
           job[q].locked \subseteq Written',
           q \notin hindered' =>
              /\ q \notin hindered
              /\ pc[q] \in {"publishing", "commenting"} /\ job[q].by \in alive
                    => job[q].by \in alive'
    PROVE  Fits(q)'
<1>1. Fits(q) /\ Here' = Here
  BY DEF IInv, Here
<1>2. JobFits(q)' /\ LocksBelong(q)'
  BY <1>1 DEF Fits, JobFits, LocksBelong
<1>3. DeleterMay(q)'
  BY <1>1 DEF Fits, DeleterMay, JobFits, MayDelete
<1>4. q \notin hindered' => IsUnhindered(q)'
  BY <1>1 DEF Fits, IsUnhindered, PostsBy, CommentsBy
<1> QED
  BY <1>2, <1>3, <1>4 DEF Fits

LEMMA DeleteCommentIInv ==
    ASSUME NEW r \in Requests, IInv, DeleteComment(r) PROVE IInv'
<1> DEFINE c == job[r].comment
<1>1. c \in CommentIds /\ c \notin Locked
  BY DEF DeleteComment, IInv, Fits, JobFits
<1>2. comments' = [comments EXCEPT ![c] = Gone]
  BY DEF DeleteComment
<1>3. TypeInvariant'
  BY <1>1, <1>2, NoJobType DEF DeleteComment, Answer, Goto, IInv, TypeInvariant
<1>4. Written' = Written \ {c} /\ \A d \in Written' : comments'[d] = comments[d]
  BY <1>1, <1>2 DEF Written, IInv, TypeInvariant
<1>5. NothingIsOrphaned'
  BY <1>4 DEF DeleteComment, IInv, NothingIsOrphaned, Here
<1>6. Fits(r)'
  <2> pc'[r] = "idle" /\ job'[r] = NoJob
    BY DEF DeleteComment, Answer, Goto, IInv, TypeInvariant
  <2> QED
    BY NoJobType DEF Fits, JobFits, LocksBelong, DeleterMay, IsUnhindered
<1>7. ASSUME NEW q \in Requests \ {r} PROVE Fits(q)'
  <2>1. pc'[q] = pc[q] /\ job'[q] = job[q]
    BY DEF DeleteComment, Answer, Goto, IInv, TypeInvariant
  <2>2. job[q].locked \subseteq Written'
    BY <1>1, <1>4 DEF IInv, Fits, LocksBelong, Locked
  <2>3. \A d \in CommentIds : comments[d] # None => comments'[d] # None
    BY <1>2, CommentsAssumption DEF IInv, TypeInvariant
  <2> QED
    BY <1>4, <2>1, <2>2, <2>3, OthersLoseComments DEF DeleteComment
<1> QED
  BY <1>3, <1>5, <1>6, <1>7 DEF IInv

LEMMA DeleteUserIInv ==
    ASSUME NEW r \in Requests, IInv, DeleteUser(r) PROVE IInv'
<1> DEFINE u == job[r].target
           gone == job[r].locked
<1>1. u \in Users /\ u \in alive /\ PostsBy(u) = {} /\ CommentsBy(u) \subseteq gone
  BY DEF DeleteUser, References, IInv, Fits, JobFits
<1>2. comments' = [c \in CommentIds |-> IF c \in gone THEN Gone ELSE comments[c]]
  BY DEF DeleteUser
<1>3. TypeInvariant'
  BY NoJobType DEF DeleteUser, Answer, Goto, Hinder, By, Removing, IInv, TypeInvariant
<1>4. Written' = Written \ gone /\ \A d \in Written' : comments'[d] = comments[d]
  BY <1>2 DEF Written, IInv, TypeInvariant
<1>5. alive' = alive \ {u} /\ Here' = Here /\ UNCHANGED posts
  BY DEF DeleteUser, Here
<1>6. NothingIsOrphaned'
  BY <1>1, <1>4, <1>5 DEF IInv, NothingIsOrphaned, PostsBy, CommentsBy
<1>7. Fits(r)'
  <2> pc'[r] = "idle" /\ job'[r] = NoJob
    BY DEF DeleteUser, Answer, Goto, IInv, TypeInvariant
  <2> QED
    BY NoJobType DEF Fits, JobFits, LocksBelong, DeleterMay, IsUnhindered
<1>8. ASSUME NEW q \in Requests \ {r} PROVE Fits(q)'
  <2>1. pc'[q] = pc[q] /\ job'[q] = job[q]
    BY DEF DeleteUser, Answer, Goto, IInv, TypeInvariant
  <2>2. job[q].locked \subseteq Written'
    BY <1>4 DEF IInv, Fits, LocksBelong, TypeInvariant
  <2>3. \A d \in CommentIds : comments[d] # None => comments'[d] # None
    BY <1>2, CommentsAssumption DEF IInv, TypeInvariant
  <2>4. q \notin hindered' =>
          /\ q \notin hindered
          /\ pc[q] \in {"publishing", "commenting"} /\ job[q].by \in alive
                => job[q].by \in alive'
    BY <1>5 DEF DeleteUser, Hinder, By
  <2> QED
    BY <1>4, <1>5, <2>1, <2>2, <2>3, <2>4, OthersLoseComments
<1> QED
  BY <1>3, <1>6, <1>7, <1>8 DEF IInv

-------------------------------------------------------------------------------
LEMMA NextIInv == IInv /\ [Next]_vars => IInv'
<1> SUFFICES ASSUME IInv, [Next]_vars PROVE IInv'
  OBVIOUS
<1>1. CASE UNCHANGED vars
  BY <1>1 DEF vars, tables, IInv, TypeInvariant, NothingIsOrphaned, Fits, JobFits,
     LocksBelong, DeleterMay, MayDelete, IsUnhindered, PostsBy,
     CommentsBy, Here, Written
<1>2. ASSUME NEW r \in Requests,
             \/ Publish(r) \/ InsertPost(r) \/ InsertPostFails(r)
             \/ ReadPost(r) \/ InsertComment(r) \/ InsertCommentFails(r)
             \/ ReadComment(r) \/ DeleteComment(r)
             \/ ReadAuthored(r) \/ PurgeComments(r)
             \/ DeleteUser(r) \/ DeleteUserRollsBack(r)
      PROVE  IInv'
  BY <1>2, PublishIInv, InsertPostIInv, FailingIInv, ReadPostIInv, InsertCommentIInv,
     ReadCommentIInv, DeleteCommentIInv, ReadAuthoredIInv, PurgeCommentsIInv, DeleteUserIInv
<1>3. ASSUME NEW p \in Posts, SwitchComments(p) \/ RemovePost(p) PROVE IInv'
  BY <1>3, SwitchCommentsIInv, RemovePostIInv
<1> QED
  BY <1>1, <1>2, <1>3 DEF Next

\* The invariant that the theorems below are read off from.
THEOREM CommentsInvariant == Spec => []IInv
<1> QED
  BY InitIInv, NextIInv, PTL DEF Spec

\* Rows, requests and what a removal has locked keep their types; no two removals
\* lock one comment.
THEOREM CommentsTypes == Spec => []TypeInvariant
<1>1. IInv => TypeInvariant
  BY DEF IInv
<1> QED
  BY <1>1, CommentsInvariant, PTL

\* No article is left without its author, no comment without author or article,
\* whatever requests overlap.
THEOREM CommentsOrphanNothing == Spec => []NothingIsOrphaned
<1>1. IInv => NothingIsOrphaned
  BY DEF IInv
<1> QED
  BY <1>1, CommentsInvariant, PTL

\* A request that nobody got in the way of does not end in a 500.
THEOREM CommentsFailForAReason == Spec => []OnlyHinderedRequestsFail
<1>1. IInv => OnlyHinderedRequestsFail
  BY DEF IInv, Fits, IsUnhindered, OnlyHinderedRequestsFail
<1> QED
  BY <1>1, CommentsInvariant, PTL

\* Comments only disappear with their article, with their author, or on request.
THEOREM CommentsVanish == Spec => CommentsVanishForAReason
<1> DEFINE Reason(c) == \/ comments[c].post \notin Here'
                        \/ comments[c].author \notin alive'
                        \/ \E r \in Requests :
                              /\ pc[r] = "deleting" /\ job[r].comment = c
                              /\ job[r].by \in Admins \cup {comments[c].author}
<1>1. IInv /\ [Next]_vars => [\A c \in Written \ Written' : Reason(c)]_vars
  <2> SUFFICES ASSUME IInv, Next, NEW c \in Written, c \notin Written' PROVE Reason(c)
    OBVIOUS
  <2>1. comments' # comments
    BY DEF Written
  <2>2. CASE \E r \in Requests : InsertComment(r)
    <3>1. \A d \in CommentIds : comments[d] # None => comments'[d] = comments[d]
      BY <2>2 DEF InsertComment, IInv, TypeInvariant
    <3> QED
      BY <3>1 DEF Written
  <2>3. CASE \E r \in Requests : DeleteComment(r)
    <3> PICK r \in Requests : DeleteComment(r)
      BY <2>3
    <3>1. job[r].comment = c
      BY DEF DeleteComment, Written, IInv, TypeInvariant
    <3>2. pc[r] = "deleting" /\ MayDelete(job[r].by, c)
      BY <3>1 DEF DeleteComment, IInv, Fits, DeleterMay
    <3> QED
      BY <3>1, <3>2 DEF MayDelete
  <2>4. CASE \E r \in Requests : DeleteUser(r)
    <3> PICK r \in Requests : DeleteUser(r)
      BY <2>4
    <3>1. c \in job[r].locked
      BY DEF DeleteUser, Written, IInv, TypeInvariant
    <3> QED
      BY <3>1 DEF DeleteUser, IInv, Fits, LocksBelong
  <2>5. CASE \E p \in Posts : RemovePost(p)
    <3> PICK p \in Posts : RemovePost(p)
      BY <2>5
    <3>1. c \in CommentsOn(p) /\ p \notin Here'
      BY CommentsAssumption DEF RemovePost, Written, Here, IInv, TypeInvariant
    <3> QED
      BY <3>1 DEF CommentsOn
  <2>6. \/ comments' = comments
        \/ \E r \in Requests : InsertComment(r) \/ DeleteComment(r) \/ DeleteUser(r)
        \/ \E p \in Posts : RemovePost(p)
    BY DEF Next, Publish, InsertPost, InsertPostFails, ReadPost, InsertCommentFails,
       ReadComment, ReadAuthored, PurgeComments, DeleteUserRollsBack, SwitchComments,
       Start, tables
  <2> QED
    BY <2>1, <2>2, <2>3, <2>4, <2>5, <2>6
<1> QED
  BY <1>1, CommentsInvariant, PTL DEF Spec, CommentsVanishForAReason
===============================================================================
