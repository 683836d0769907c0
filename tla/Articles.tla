-------------------------------- MODULE Articles --------------------------------
(***************************************************************************)
(* The life of one article (src/posts/posts.service.ts): its creation, any *)
(* number of concurrent edits and removals, its publication date, and the  *)
(* objects it references in the media bucket.                              *)
(*                                                                         *)
(* An edit reads the article, updates it in a transaction whose first      *)
(* statement locks the row and whose result it reads back, and then        *)
(* deletes from the bucket what the article no longer references.  The     *)
(* transaction is one step; other requests interleave between the three.   *)
(*                                                                         *)
(* A media field holds at most one bucket key.  Every upload has a key of  *)
(* its own; all of them are in the bucket before they are referenced.      *)
(***************************************************************************)
EXTENDS FiniteSets

CONSTANTS Edits,      \* PATCH /posts/:id
          Removals,   \* DELETE /posts/:id
          Covers,     \* the fields of collectMediaKeys that hold a plain URL
          Bodies,     \* ... and those whose Markdown embeds images
          Keys,       \* bucket keys
          NoKey, NoPost

ASSUME ArticlesAssumption ==
    /\ Edits \cap Removals = {}
    /\ NoKey \notin Keys
    /\ {"draft", "creation"} \cap Edits = {}
    /\ Covers \cap Bodies = {}

VARIABLES post,     \* the row of the article
          born,     \* whether it has been created
          bucket,   \* the objects in the media bucket
          pc,       \* where each request is
          patch,    \* the payload of each edit
          existing, \* the row each request has read or deleted
          updated   \* the row each edit has read back in its transaction

\* History, read by no action.
VARIABLES dropped,  \* keys the article has ceased to reference
          returned, \* keys it references again after that
          untidy    \* requests overlapped, or a clean-up was cut short

requestVars == <<pc, patch, existing, updated>>
history == <<dropped, returned, untidy>>
vars == <<post, born, bucket, requestVars, history>>

Requests == Edits \cup Removals
Fields == Covers \cup Bodies

\* publishedAt is named after the request that stamped it.
Posts == [media : [Fields -> Keys \cup {NoKey}],
          isPublished : BOOLEAN,
          publishedAt : Edits \cup {"draft", "creation"}]

\* What an edit may carry: any of the fields, and at most one value for
\* isPublished.  A cover outside the bucket has no key.
Patches == [media : UNION {[F -> Keys \cup {NoKey}] : F \in SUBSET Fields},
            isPublished : {{}, {TRUE}, {FALSE}}]

NoPatch == [media |-> [f \in {} |-> NoKey], isPublished |-> {}]

\* collectMediaKeys
MediaKeys(p) == IF p = NoPost THEN {} ELSE {p.media[f] : f \in Fields} \ {NoKey}

TypeInvariant ==
    /\ post \in Posts \cup {NoPost}
    /\ born \in BOOLEAN
    /\ bucket \subseteq Keys
    /\ pc \in [Requests -> {"idle", "updating", "cleaning", "done", "missing", "failed"}]
    /\ patch \in [Edits -> Patches]
    /\ existing \in [Requests -> Posts \cup {NoPost}]
    /\ updated \in [Requests -> Posts \cup {NoPost}]
    /\ dropped \subseteq Keys
    /\ returned \subseteq Keys
    /\ untidy \in BOOLEAN

Init ==
    /\ post = NoPost
    /\ born = FALSE
    /\ bucket = Keys
    /\ pc = [r \in Requests |-> "idle"]
    /\ patch = [e \in Edits |-> NoPatch]
    /\ existing = [r \in Requests |-> NoPost]
    /\ updated = [r \in Requests |-> NoPost]
    /\ dropped = {}
    /\ returned = {}
    /\ untidy = FALSE

InFlight(r) == pc[r] \in {"updating", "cleaning"}
Goto(r, state) == pc' = [pc EXCEPT ![r] = state]

\* History of a step that leaves the article with the keys of `new`.
NoteKeys(new) ==
    /\ dropped' = dropped \cup (MediaKeys(post) \ MediaKeys(new))
    /\ returned' = returned \cup ((MediaKeys(new) \ MediaKeys(post)) \cap dropped)

\* History of a request that starts while another one runs.
NoteOverlap == untidy' = (untidy \/ \E r \in Requests : InFlight(r))

-------------------------------------------------------------------------------
(* create                                                                  *)

\* Mutant: an article created as published carries no date.
DateOfNew_Draft(isPublished) == "draft"

DateOfNew(isPublished) == IF isPublished THEN "creation" ELSE "draft"

Create ==
    /\ ~born
    /\ born' = TRUE
    /\ \E media \in [Fields -> Keys \cup {NoKey}], isPublished \in BOOLEAN :
          post' = [media |-> media,
                   isPublished |-> isPublished,
                   publishedAt |-> DateOfNew(isPublished)]
    /\ UNCHANGED <<bucket, requestVars, history>>

-------------------------------------------------------------------------------
(* update                                                                  *)

ReadPost(e) ==
    /\ pc[e] = "idle"
    /\ born
    /\ existing' = [existing EXCEPT ![e] = post]
    /\ IF post = NoPost
       THEN /\ Goto(e, "missing")
            /\ UNCHANGED <<patch, untidy>>
       ELSE /\ Goto(e, "updating")
            /\ \E p \in Patches : patch' = [patch EXCEPT ![e] = p]
            /\ NoteOverlap
    /\ UNCHANGED <<post, born, bucket, updated, dropped, returned>>

\* Mutant: every publication is stamped.
Stamps_Always(e) == TRUE \in patch[e].isPublished

\* shouldStampPublishedAt, decided on the row as it was read.
Stamps(e) ==
    /\ existing[e].publishedAt = "draft"
    /\ TRUE \in patch[e].isPublished

\* UPDATE ... SET: only the columns in the payload, on the row as it is now.
Patched(e) ==
    [media |-> [f \in Fields |-> IF f \in DOMAIN patch[e].media
                                 THEN patch[e].media[f] ELSE post.media[f]],
     isPublished |-> IF patch[e].isPublished = {} THEN post.isPublished
                     ELSE TRUE \in patch[e].isPublished,
     publishedAt |-> IF Stamps(e) THEN e ELSE post.publishedAt]

\* The transaction commits.  If its answer is lost, so is the clean-up.
Update(e) ==
    /\ pc[e] = "updating"
    /\ post # NoPost
    /\ post' = Patched(e)
    /\ updated' = [updated EXCEPT ![e] = Patched(e)]
    /\ NoteKeys(Patched(e))
    /\ \/ Goto(e, "cleaning") /\ UNCHANGED untidy
       \/ Goto(e, "failed") /\ untidy' = TRUE
    /\ UNCHANGED <<born, bucket, patch, existing>>

\* The article was removed after it was read: the transaction finds no row.
UpdateMisses(e) ==
    /\ pc[e] = "updating"
    /\ post = NoPost
    /\ Goto(e, "missing")
    /\ UNCHANGED <<post, born, bucket, patch, existing, updated, history>>

\* A slug is taken, a topic is gone, a statement fails: all is rolled back.
UpdateFails(e) ==
    /\ pc[e] = "updating"
    /\ Goto(e, "failed")
    /\ UNCHANGED <<post, born, bucket, patch, existing, updated, history>>

-------------------------------------------------------------------------------
(* remove                                                                  *)

\* DELETE ... RETURNING
Remove(d) ==
    /\ pc[d] = "idle"
    /\ born
    /\ IF post = NoPost
       THEN /\ Goto(d, "missing")
            /\ UNCHANGED <<post, existing, history>>
       ELSE /\ post' = NoPost
            /\ existing' = [existing EXCEPT ![d] = post]
            /\ NoteKeys(NoPost)
            /\ \/ Goto(d, "cleaning") /\ NoteOverlap
               \/ Goto(d, "failed") /\ untidy' = TRUE
    /\ UNCHANGED <<born, bucket, patch, updated>>

-------------------------------------------------------------------------------
(* The media that a request has cut loose.                                 *)

\* Mutant: only what Markdown embeds is looked for.
RemovedKeys_BodiesOnly(r) ==
    {existing[r].media[f] : f \in Bodies} \ (MediaKeys(updated[r]) \cup {NoKey})

\* Read first, and compared with the row read back, not with the payload; a
\* removal keeps nothing (updated[r] is NoPost).
RemovedKeys(r) == MediaKeys(existing[r]) \ MediaKeys(updated[r])

\* Mutant: the edit keeps alive only what its payload mentions.
DeleteMedia_ByPayload(r) ==
    /\ pc[r] = "cleaning"
    /\ Goto(r, "done")
    /\ bucket' = bucket \ (MediaKeys(existing[r]) \
                    IF r \in Edits
                    THEN {patch[r].media[f] : f \in DOMAIN patch[r].media} ELSE {})
    /\ UNCHANGED <<post, born, patch, existing, updated, history>>

\* deleteMediaKeys.  A call that fails is logged, one that S3 carries out in
\* part goes unnoticed; either way the request succeeds.
DeleteMedia(r) ==
    /\ pc[r] = "cleaning"
    /\ Goto(r, "done")
    /\ \E gone \in SUBSET RemovedKeys(r) :
          /\ bucket' = bucket \ gone
          /\ untidy' = (untidy \/ gone # RemovedKeys(r))
    /\ UNCHANGED <<post, born, patch, existing, updated, dropped, returned>>

Next ==
    \/ Create
    \/ \E e \in Edits : ReadPost(e) \/ Update(e) \/ UpdateMisses(e) \/ UpdateFails(e)
    \/ \E d \in Removals : Remove(d)
    \/ \E r \in Requests : DeleteMedia(r)

Spec == Init /\ [][Next]_vars

-------------------------------------------------------------------------------
(***************************************************************************)
(* "Diffing against the refetched row keeps media referenced by untouched  *)
(* fields alive" (posts.service.ts 221-222), also when edits and removals  *)
(* overlap: an object the article has never ceased to reference is in the  *)
(* bucket.                                                                 *)
(***************************************************************************)
ReferencedMediaIsAlive == MediaKeys(post) \subseteq bucket \cup returned

(***************************************************************************)
(* The clean-up leaves no orphan (posts.service.ts 168-170, 221-228, 243): *)
(* once no request is running, and if none overlapped and no clean-up was  *)
(* cut short, what the article has ceased to reference is gone.            *)
(***************************************************************************)
SerialEditsLeaveNoOrphans ==
    ~untidy /\ (\A r \in Requests : ~InFlight(r))
        => dropped \cap bucket \subseteq MediaKeys(post)

(***************************************************************************)
(* The public listing orders by publishedAt (posts.service.ts 111-120): an *)
(* article that is published has a date, whichever requests made it so.    *)
(***************************************************************************)
PublishedIsDated ==
    post # NoPost /\ post.isPublished => post.publishedAt # "draft"

(***************************************************************************)
(* "Unpublish-then-republish keeps showing the original publish date"      *)
(* (posts.service.ts 179-182): an edit that begins once the article has a  *)
(* date leaves the date alone, whatever other edits do meanwhile.          *)
(***************************************************************************)
LaterEditsKeepDate ==
    [][\A e \in Edits :
          /\ pc[e] = "updating" /\ post' # NoPost
          /\ pc'[e] \in {"cleaning", "failed"}
          /\ existing[e].publishedAt # "draft"
          => post'.publishedAt = post.publishedAt]_vars
===============================================================================
