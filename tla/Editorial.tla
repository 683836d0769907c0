------------------------------- MODULE Editorial -------------------------------
(***************************************************************************)
(* The editors' transactions (src/posts/posts.service.ts and               *)
(* src/topics/topics.service.ts) over the connections of one process       *)
(* (src/database/postgres-options.ts): articles with their slugs, the      *)
(* topics they are linked to, and who waits for whom.                      *)
(*                                                                         *)
(* A request is a list of statements.  A transaction has a connection of   *)
(* its own from its BEGIN to its end; any other statement takes one of the *)
(* pool for itself.  What a transaction has written, others see once it is *)
(* committed; until then they wait for it where Postgres makes them: at a  *)
(* row it has written, at a row its foreign keys lean on, at a value of a  *)
(* unique column that it has taken or that a row has which it has written. *)
(* A circle of such waits is broken by Postgres, which fails one of them.  *)
(* A circle through the pool nobody breaks.                                *)
(***************************************************************************)
EXTENDS Integers, Sequences, FiniteSets

CONSTANTS MaxRequests,     \* bound: HTTP requests of editors to one process
          MaxConnections,  \* `max`: the pool's connections
          PostIds, TopicIds,
          Slugs, NoSlug,   \* NoSlug: a slug_en that is NULL
          NoRow, NoTopic,  \* an article and a topic that are not there
          Keep,            \* topicIds left out of an edit
          InitialPosts, InitialTopics, InitialLinks,
          Orders           \* what requests may ask for

Columns == {"slug", "slugEn"}
\* A topic is its slug; a name makes it, and two names may make the same one. The
\* name, which is unique too, is checked before the slug: who waits for one with
\* the same name waits for whom that one waits for.
PostRows == [slug : Slugs, slugEn : Slugs \cup {NoSlug}]

\* Numbered as they come.
Calls == 1 .. MaxRequests

\* An order names the post or the topic it is about, the slug columns it sets
\* and the topics it wants. slug is never NULL, and a new article has one.
NoOrder == [do |-> "none"]
SlugChanges ==
    {s \in UNION {[C -> Slugs \cup {NoSlug}] : C \in SUBSET Columns} :
        "slug" \in DOMAIN s => s["slug"] # NoSlug}
OrdersForPosts ==
    [do : {"edit"}, post : PostIds, slugs : SlugChanges, topics : {Keep} \cup SUBSET TopicIds]
    \cup [do : {"create"}, post : PostIds, slugs : {s \in SlugChanges : "slug" \in DOMAIN s},
          topics : {Keep} \cup SUBSET TopicIds]
    \cup [do : {"removePost"}, post : PostIds]
OrdersForTopics ==
    [do : {"addTopic", "renameTopic"}, topic : TopicIds, slug : Slugs]
    \cup [do : {"removeTopic"}, topic : TopicIds]

VARIABLES posts,      \* the committed rows of posts
          topics,     \* those of topics, as the slug each has
          links,      \* posts_to_topics
          order,      \* what each request under way was asked
          todo,       \* the statements each request has yet to make ...
          did,        \* ... and those its transaction is past
          unlinked,   \* links that each open transaction has deleted
          answer,     \* how each request ended
          asked       \* history: the topics last asked for, less those removed

tables == <<posts, topics, links>>
editorialVars == <<tables, order, todo, did, unlinked, answer, asked>>

ASSUME EditorialAssumption ==
    /\ MaxRequests \in Nat
    /\ MaxConnections \in Nat \ {0}
    /\ NoSlug \notin Slugs
    /\ NoRow \notin PostRows
    /\ InitialPosts \in [PostIds -> PostRows \cup {NoRow}]
    /\ InitialTopics \in [TopicIds -> Slugs \cup {NoTopic}]
    /\ InitialLinks \subseteq {p \in PostIds : InitialPosts[p] # NoRow}
                        \X {t \in TopicIds : InitialTopics[t] # NoTopic}
    /\ \A p, q \in PostIds : \A c \in Columns :
        /\ p # q /\ InitialPosts[p] # NoRow /\ InitialPosts[q] # NoRow
        /\ InitialPosts[p][c] = InitialPosts[q][c]
        => InitialPosts[p][c] = NoSlug
    /\ \A T \in SUBSET TopicIds : Keep # T
    /\ Orders \subseteq OrdersForPosts \cup OrdersForTopics

-------------------------------------------------------------------------------
(* Calls as lists of statements.                                           *)

\* Mutant: an edit replaces the links before it writes its article.
EditStatements_LinksFirst(o) ==
    IF o.topics = Keep THEN <<"find", "begin", "write", "index", "reread">>
    ELSE IF o.topics = {} THEN <<"find", "begin", "unlink", "write", "index", "reread">>
    ELSE <<"find", "begin", "unlink", "link", "write", "index", "reread">>

\* Links are deleted when topicIds is there, inserted when it is not empty.
EditStatements(o) ==
    IF o.topics = Keep THEN <<"find", "begin", "write", "index", "reread">>
    ELSE IF o.topics = {} THEN <<"find", "begin", "write", "index", "unlink", "reread">>
    ELSE <<"find", "begin", "write", "index", "unlink", "link", "reread">>

CreateStatements(o) ==
    IF o.topics \in {Keep, {}} THEN <<"begin", "index", "reread">>
    ELSE <<"begin", "index", "link", "reread">>

\* Mutant: a removal takes the links away before the row.
RemovalStatements_LinksFirst == <<"begin", "unlink", "remove", "cascade">>

\* A statement outside any transaction has one of its own: BEGIN stands for
\* its getting a connection, "cascade" for the foreign keys' part of it.
RemovalStatements == <<"begin", "remove", "cascade">>

\* An UPDATE has its row before it comes to the unique columns.
RenameStatements == <<"begin", "rename", "check">>

Statements(o) ==
    CASE o.do = "edit" -> EditStatements(o)
      [] o.do = "create" -> CreateStatements(o)
      [] o.do \in {"removePost", "removeTopic"} -> RemovalStatements
      [] o.do = "renameTopic" -> RenameStatements
      [] o.do = "addTopic" -> <<"begin", "check">>

TopicExists(t) == topics[t] # NoTopic

Active(r) == todo[r] # <<>>
At(r, s) == Active(r) /\ Head(todo[r]) = s

Did(r, s) == s \in did[r]

EditorialInit ==
    /\ posts = InitialPosts
    /\ topics = InitialTopics
    /\ links = InitialLinks
    /\ order = [r \in Calls |-> NoOrder]
    /\ todo = [r \in Calls |-> <<>>]
    /\ did = [r \in Calls |-> {}]
    /\ unlinked = [r \in Calls |-> {}]
    /\ answer = [r \in Calls |-> "none"]
    /\ asked = [p \in PostIds |-> {t \in TopicIds : <<p, t>> \in InitialLinks}]

-------------------------------------------------------------------------------
(* Who waits for whom.                                                     *)

Exists(p) == posts[p] # NoRow

\* Articles that an English address may lead to, where published: the query
\* asks for the first one and orders them by nothing.
Reached(address) ==
    {p \in PostIds : Exists(p) /\
        (posts[p].slugEn = address \/ (posts[p].slugEn = NoSlug /\ posts[p].slug = address))}

LinksOf(p) == {l \in links : l[1] = p}
LinksTo(t) == {l \in links : l[2] = t}

\* The unique columns that an edit gives another value.
Changes(o) == {c \in DOMAIN o.slugs : Exists(o.post) => o.slugs[c] # posts[o.post][c]}

\* The row of its article, from the UPDATE or DELETE to the end ...
LocksPost(q, p) ==
    /\ order[q].do \in {"edit", "removePost"}
    /\ order[q].post = p
    /\ Did(q, "write") \/ Did(q, "remove")

\* ... and against those who lean on it, if it goes or changes such a column.
LocksKey(q, p) ==
    /\ LocksPost(q, p)
    /\ order[q].do = "removePost" \/ Changes(order[q]) # {}

\* A link leans on its article and on its topic: neither may go or change a
\* unique column while the link is not committed.
SharesPost(q, p) == Did(q, "link") /\ order[q].post = p
SharesTopic(q, t) == Did(q, "link") /\ t \in order[q].topics

\* The row of a topic, from its DELETE or UPDATE to the end. A rename is taken to
\* change a unique column: one that repeats the name would let links pass.
LocksTopic(q, t) ==
    /\ order[q].do \in {"removeTopic", "renameTopic"}
    /\ order[q].topic = t
    /\ Did(q, "remove") \/ Did(q, "rename")

\* Values of a unique column that are not settled before q ends: one that it has
\* taken, and that of a row it has written, though the value stays as it is.
InDoubt(q, c) ==
    (IF Did(q, "index") /\ c \in Changes(order[q]) THEN {order[q].slugs[c]} ELSE {})
    \cup {posts[p][c] : p \in {x \in PostIds : LocksPost(q, x)}}
TopicsInDoubt(q) == {topics[t] : t \in {x \in TopicIds : LocksTopic(q, x)}}

WaitsAtPost(r, q) ==
    LET o == order[r] IN
    \/ At(r, "write") /\ LocksPost(q, o.post)
    \/ At(r, "write") /\ SharesPost(q, o.post) /\ Changes(o) # {}
    \/ At(r, "remove") /\ o.do = "removePost"
         /\ (LocksPost(q, o.post) \/ SharesPost(q, o.post))
    \/ At(r, "index") /\ \E c \in Changes(o) : o.slugs[c] \in InDoubt(q, c) \ {NoSlug}
    \/ At(r, "link") /\ LocksKey(q, o.post)

WaitsAtTopic(r, q) ==
    LET o == order[r] IN
    \/ At(r, "link") /\ \E t \in o.topics : LocksTopic(q, t)
    \/ o.do \in {"removeTopic", "renameTopic"} /\ (At(r, "remove") \/ At(r, "rename"))
         /\ (LocksTopic(q, o.topic) \/ SharesTopic(q, o.topic))
    \/ At(r, "check") /\ o.slug \in TopicsInDoubt(q)

\* Links that the next statement of r deletes, itself or by the cascade.
Deletes(r) ==
    LET o == order[r] IN
    IF ~(At(r, "unlink") \/ At(r, "cascade")) THEN {}
    ELSE IF o.do = "removeTopic" THEN LinksTo(o.topic) ELSE LinksOf(o.post)

Blockers(r) ==
    {q \in Calls \ {r} :
        \/ WaitsAtPost(r, q)
        \/ WaitsAtTopic(r, q)
        \/ Deletes(r) \cap unlinked[q] # {}
        \/ At(r, "link") /\ SharesPost(q, order[r].post)
             /\ order[r].topics \cap order[q].topics # {}}

\* Calls each of which waits, at some remove, for each of the others.
Knot(S) ==
    /\ Cardinality(S) > 1
    /\ \A q \in S : Blockers(q) # {}
    /\ \A T \in (SUBSET S) \ {{}, S} : \E q \in T : Blockers(q) \cap (S \ T) # {}

\* Mutant: the row that answers an edit is read back through the pool.
Pooled_ReadBack == {"find", "begin", "reread"}

\* Statements that take a connection of the pool: the query before a transaction,
\* and the BEGIN, whose connection stays with the transaction.
Pooled == {"find", "begin"}

Connected(r) == Did(r, "begin")
Free == MaxConnections - Cardinality({r \in Calls : Connected(r)})

\* The next statement of r is s, has its connection, and waits for nobody.
Runs(r, s) ==
    /\ At(r, s)
    /\ s \in Pooled => Free > 0
    /\ Blockers(r) = {}

-------------------------------------------------------------------------------
(* The statements.                                                         *)

Proceed(r) ==
    /\ todo' = [todo EXCEPT ![r] = Tail(@)]
    /\ did' = [did EXCEPT ![r] = @ \cup {Head(todo[r])}]
    /\ UNCHANGED <<tables, order, answer, asked>>

\* The handler answers; whatever was open is over, its connection is back.
End(r, a) ==
    /\ todo' = [todo EXCEPT ![r] = <<>>]
    /\ did' = [did EXCEPT ![r] = {}]
    /\ unlinked' = [unlinked EXCEPT ![r] = {}]
    /\ answer' = [answer EXCEPT ![r] = a]
    /\ order' = [order EXCEPT ![r] = NoOrder]

\* An error before the COMMIT: nothing of it is seen.
RollBack(r, a) == End(r, a) /\ UNCHANGED <<tables, asked>>

\* A statement that commits. Its answer may get lost.
Commits(r) == End(r, "ok") \/ End(r, "failed")

ThenOrNotFound(r, found) ==
    IF found THEN Proceed(r) /\ UNCHANGED unlinked ELSE RollBack(r, "not_found")

\* Editors name what is or was there; the identifier of a new row is new.
Start(r, o) ==
    /\ ~Active(r) /\ answer[r] = "none"
    /\ \A q \in 1 .. r - 1 : Active(q) \/ answer[q] # "none"
    /\ o.do = "create" =>
        ~Exists(o.post) /\ \A q \in Calls : order[q].do = "create" => order[q].post # o.post
    /\ o.do = "addTopic" =>
        ~TopicExists(o.topic) /\ \A q \in Calls : order[q].do = "addTopic" => order[q].topic # o.topic
    /\ order' = [order EXCEPT ![r] = o]
    /\ todo' = [todo EXCEPT ![r] = Statements(o)]
    /\ UNCHANGED <<tables, did, unlinked, answer, asked>>

\* The first query of an edit.
Find(r) == Runs(r, "find") /\ ThenOrNotFound(r, Exists(order[r].post))

Begin(r) == Runs(r, "begin") /\ Proceed(r) /\ UNCHANGED unlinked

\* UPDATE posts: the row is locked; it may be gone since it was found.
Write(r) == Runs(r, "write") /\ ThenOrNotFound(r, Exists(order[r].post))

\* Mutant: slug_en is declared without unique().
UniqueColumns_SlugOnly == {"slug"}

UniqueColumns == {"slug", "slugEn"}

\* The field of a value that another article has.
Conflicts(r) ==
    {c \in UniqueColumns \cap Changes(order[r]) :
        /\ order[r].slugs[c] # NoSlug
        /\ \E p \in PostIds \ {order[r].post} : Exists(p) /\ posts[p][c] = order[r].slugs[c]}

\* The unique columns: the 409 names the field (rethrowFriendlySlugConflict). They
\* are passed in one step; who waited at the second would have taken the first,
\* so that of those who are here some more would wait for each other.
Index(r) ==
    /\ Runs(r, "index")
    /\ IF Conflicts(r) = {}
       THEN Proceed(r) /\ UNCHANGED unlinked
       ELSE RollBack(r, "conflict")

Unlink(r) ==
    /\ Runs(r, "unlink")
    /\ unlinked' = [unlinked EXCEPT ![r] = Deletes(r)]
    /\ Proceed(r)

\* A topic that is gone, or a link that is there, fails the INSERT.
LinkFails(r) ==
    \/ \E t \in order[r].topics : ~TopicExists(t)
    \/ {order[r].post} \X order[r].topics \cap (links \ unlinked[r]) # {}

Link(r) ==
    /\ Runs(r, "link")
    /\ IF LinkFails(r)
       THEN RollBack(r, "failed")
       ELSE Proceed(r) /\ UNCHANGED unlinked

\* The row as the transaction leaves it; a new one has NULL where nothing is set.
NewRow(o) ==
    [c \in Columns |-> IF c \in DOMAIN o.slugs THEN o.slugs[c]
                       ELSE IF o.do = "create" THEN NoSlug ELSE posts[o.post][c]]

\* The answer is read back, and the transaction commits.
Commit(r) ==
    LET o == order[r]
        wanted == IF o.topics = Keep THEN {} ELSE o.topics
    IN
    /\ Runs(r, "reread")
    /\ posts' = [posts EXCEPT ![o.post] = NewRow(o)]
    /\ links' = (links \ unlinked[r]) \cup ({o.post} \X wanted)
    /\ asked' = IF o.topics = Keep THEN asked ELSE [asked EXCEPT ![o.post] = wanted]
    /\ Commits(r)
    /\ UNCHANGED topics

\* The DELETE of an article or a topic, which locks its row ...
DeleteRow(r) ==
    /\ Runs(r, "remove")
    /\ ThenOrNotFound(r, IF order[r].do = "removePost" THEN Exists(order[r].post)
                                                       ELSE TopicExists(order[r].topic))

\* ... and then takes its links along.
Cascade(r) ==
    LET o == order[r] IN
    /\ Runs(r, "cascade")
    /\ links' = links \ Deletes(r)
    /\ IF o.do = "removePost"
       THEN /\ posts' = [posts EXCEPT ![o.post] = NoRow]
            /\ asked' = [asked EXCEPT ![o.post] = {}]
            /\ UNCHANGED topics
       ELSE /\ topics' = [topics EXCEPT ![o.topic] = NoTopic]
            /\ asked' = [p \in PostIds |-> asked[p] \ {o.topic}]
            /\ UNCHANGED posts
    /\ Commits(r)

\* UPDATE topics: the row is locked; it may be gone.
RenameTopic(r) == Runs(r, "rename") /\ ThenOrNotFound(r, TopicExists(order[r].topic))

\* Another topic has the slug: nobody turns that error into a 409.
SlugTaken(r) == \E t \in TopicIds \ {order[r].topic} : topics[t] = order[r].slug

\* The unique columns, for the INSERT and for the UPDATE, which then commits.
SetTopic(r) ==
    /\ Runs(r, "check")
    /\ \/ SlugTaken(r) /\ RollBack(r, "failed")
       \/ /\ ~SlugTaken(r)
          /\ topics' = [topics EXCEPT ![order[r].topic] = order[r].slug]
          /\ Commits(r)
          /\ UNCHANGED <<posts, links, asked>>

\* deadlock_timeout: one of those who wait for each other is failed.
Deadlocked(r) ==
    /\ \E S \in SUBSET Calls : r \in S /\ Knot(S)
    /\ RollBack(r, "failed")

Step(r) ==
    \/ Find(r) \/ Begin(r) \/ Write(r) \/ Index(r) \/ Unlink(r) \/ Link(r) \/ Commit(r)
    \/ DeleteRow(r) \/ Cascade(r) \/ RenameTopic(r) \/ SetTopic(r)
    \/ Deadlocked(r)

\* Any statement may fail, and so may its connection.
Fails(r) == Active(r) /\ RollBack(r, "failed")

\* All requests have been answered.
AllAnswered == (\A r \in Calls : answer[r] # "none") /\ UNCHANGED editorialVars

EditorialNext ==
    \/ \E r \in Calls : Step(r) \/ Fails(r) \/ \E o \in Orders : Start(r, o)
    \/ AllAnswered

EditorialSpec == EditorialInit /\ [][EditorialNext]_editorialVars

\* A statement that has its connection and its locks ends; who waits in a circle
\* is found. Nothing is assumed of failures, which would end any wait.
FairSpec == EditorialSpec /\ \A r \in Calls : WF_editorialVars(Step(r))

-------------------------------------------------------------------------------
(***************************************************************************)
(* An article has the topics of one edit: of the last to ask for any, less *)
(* those removed since.  The edits of an article follow one another        *)
(* because the UPDATE comes first and locks its row; the lists of two are  *)
(* never mixed (posts.service.ts 186-210).                                 *)
(***************************************************************************)
TopicsAreOneEdits ==
    \A p \in PostIds : {t \in TopicIds : <<p, t>> \in links} = asked[p]

(***************************************************************************)
(* Two articles that answer to one address of a locale do so one by a slug *)
(* of its own and the other by falling back: no two have an own slug, nor  *)
(* any two fall back, in common (findPublishedBySlug, 139-162).            *)
(***************************************************************************)
OnlyFallbacksCollide ==
    \A address \in Slugs : \A p, q \in Reached(address) :
        p # q => {posts[p].slugEn, posts[q].slugEn} = {address, NoSlug}

(***************************************************************************)
(* Editors do not fail each other by deadlock unless a topic is being      *)
(* removed that an edit keeps, or all of them wait for each other's slugs, *)
(* of articles or of topics: an edit has its article before it touches the *)
(* links, and a removal or a rename wants one row (posts.service.ts        *)
(* 186-219, topics.service.ts 30-57).                                      *)
(***************************************************************************)
KnotsHaveACause ==
    \A S \in SUBSET Calls : Knot(S) =>
        \/ \E r \in S : order[r].do = "removeTopic"
        \/ \A r \in S : At(r, "index")
        \/ \A r \in S : At(r, "check")

(***************************************************************************)
(* Every request is answered, with any number of connections: no           *)
(* transaction asks the pool for a second one while it holds its own       *)
(* (postgres-options.ts 10-12 and 40-45).  A request comes once, so that   *)
(* all have ended when nobody is under way.                                *)
(***************************************************************************)
EveryRequestEnds == []<>(\A r \in Calls : ~Active(r))
===============================================================================
