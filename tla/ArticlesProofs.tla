----------------------------- MODULE ArticlesProofs -----------------------------
(***************************************************************************)
(* Proofs about articles.                                                  *)
(*                                                                         *)
(* Part 1, Articles, for any number of edits, removals, fields and keys:   *)
(* the media an article references, its publication date, the clean-up.    *)
(* Part 2, Editorial, for any number of requests, articles, topics and     *)
(* slugs: link lists, slugs and deadlocks.                                 *)
(***************************************************************************)
EXTENDS Articles, Editorial, FiniteSetTheorems, TLAPS

(***************************************************************************)
(* What is missing from the bucket has been dropped by the article, and a  *)
(* dropped key that the article references has returned.  The rest says    *)
(* why the clean-up respects this: what a request has read is referenced   *)
(* or dropped by now, and what it is about to delete is dropped.           *)
(***************************************************************************)
ReadIsAccountedFor(e) ==
    pc[e] = "updating" =>
        /\ existing[e] \in Posts
        /\ MediaKeys(existing[e]) \subseteq MediaKeys(post) \cup dropped
        /\ existing[e].publishedAt # "draft" /\ post # NoPost
              => post.publishedAt # "draft"

RemovedIsDropped(r) == pc[r] = "cleaning" => RemovedKeys(r) \subseteq dropped

NothingBeforeBirth ==
    ~born => post = NoPost /\ dropped = {} /\ \A r \in Requests : pc[r] = "idle"

IInv ==
    /\ TypeInvariant
    /\ Keys \ bucket \subseteq dropped
    /\ MediaKeys(post) \cap dropped \subseteq returned
    /\ \A e \in Edits : ReadIsAccountedFor(e)
    /\ \A r \in Requests : RemovedIsDropped(r)
    /\ \A d \in Removals : pc[d] # "updating" /\ updated[d] = NoPost
    /\ NothingBeforeBirth
    /\ PublishedIsDated

-------------------------------------------------------------------------------
\* MediaKeys is a set of keys.
LEMMA MediaKeysAreKeys ==
    ASSUME NEW p \in Posts \cup {NoPost}
    PROVE  MediaKeys(p) \subseteq Keys
BY DEF MediaKeys, Posts

\* An update keeps the row a row.
LEMMA PatchedIsPost ==
    ASSUME TypeInvariant, NEW e \in Edits, post \in Posts
    PROVE  Patched(e) \in Posts
<1>1. patch[e] \in Patches
  BY DEF TypeInvariant
<1>2. [f \in Fields |-> IF f \in DOMAIN patch[e].media
                        THEN patch[e].media[f] ELSE post.media[f]]
         \in [Fields -> Keys \cup {NoKey}]
  <2>1. PICK F \in SUBSET Fields : patch[e].media \in [F -> Keys \cup {NoKey}]
    BY <1>1 DEF Patches
  <2>2. post.media \in [Fields -> Keys \cup {NoKey}]
    BY DEF Posts
  <2>3. \A f \in Fields : (IF f \in DOMAIN patch[e].media
                          THEN patch[e].media[f] ELSE post.media[f]) \in Keys \cup {NoKey}
    BY <2>1, <2>2
  <2>4. QED BY <2>3
<1>3. (IF Stamps(e) THEN e ELSE post.publishedAt) \in Edits \cup {"draft", "creation"}
  BY DEF Posts
<1>4. (IF patch[e].isPublished = {} THEN post.isPublished
       ELSE TRUE \in patch[e].isPublished) \in BOOLEAN
  <2>1. post.isPublished \in BOOLEAN
    BY DEF Posts
  <2>2. (TRUE \in patch[e].isPublished) \in BOOLEAN
    BY SMT
  <2>3. QED BY <2>1, <2>2, Zenon
<1>5. QED BY <1>2, <1>3, <1>4 DEF Patched, Posts

\* Stamping dates a draft; an update never takes a date away.
LEMMA PatchedIsDated ==
    ASSUME TypeInvariant, NEW e \in Edits, post \in Posts
    PROVE  /\ post.publishedAt # "draft" => Patched(e).publishedAt # "draft"
           /\ Stamps(e) => Patched(e).publishedAt = e
           /\ ~Stamps(e) => Patched(e).publishedAt = post.publishedAt
           /\ e # "draft"
BY ArticlesAssumption DEF Patched

-------------------------------------------------------------------------------
\* The history keeps its meaning in a step that leaves the article as `new`.
LEMMA NotedKeys ==
    ASSUME IInv, NEW new \in Posts \cup {NoPost}, post' = new, NoteKeys(new)
    PROVE  /\ dropped' \subseteq Keys /\ returned' \subseteq Keys
           /\ dropped \subseteq dropped' /\ returned \subseteq returned'
           /\ MediaKeys(post') \cap dropped' \subseteq returned'
           /\ MediaKeys(post) \subseteq MediaKeys(post') \cup dropped'
           /\ MediaKeys(post) \ MediaKeys(post') \subseteq dropped'
<1>1. MediaKeys(post) \subseteq Keys /\ MediaKeys(new) \subseteq Keys
  BY MediaKeysAreKeys DEF IInv, TypeInvariant
<1>2. QED BY <1>1 DEF NoteKeys, IInv, TypeInvariant

LEMMA InitSatisfiesIInv == ASSUME Init PROVE IInv
<1>1. NoPatch \in Patches
  <2>1. [f \in {} |-> NoKey] \in [{} -> Keys \cup {NoKey}]
    OBVIOUS
  <2>2. QED BY <2>1 DEF NoPatch, Patches
<1>2. TypeInvariant
  BY <1>1 DEF Init, TypeInvariant, Requests
<1>3. MediaKeys(post) = {}
  BY DEF Init, MediaKeys
<1>4. \A r \in Requests : pc[r] = "idle" /\ updated[r] = NoPost
  BY DEF Init
<1>5. PublishedIsDated /\ Keys \ bucket \subseteq dropped
  BY DEF Init, PublishedIsDated
<1>6. NothingBeforeBirth
  BY <1>4 DEF Init, NothingBeforeBirth
<1>7. \A e \in Edits : ReadIsAccountedFor(e)
  BY <1>4 DEF ReadIsAccountedFor, Requests
<1>8. \A r \in Requests : RemovedIsDropped(r)
  BY <1>4 DEF RemovedIsDropped
<1>9. QED BY <1>2, <1>3, <1>4, <1>5, <1>6, <1>7, <1>8 DEF IInv, Requests

-------------------------------------------------------------------------------
\* Creation comes before everything else: nothing has been dropped yet.
LEMMA CreateKeepsIInv == ASSUME IInv, Create PROVE IInv'
<1>1. /\ dropped = {} /\ dropped' = {} /\ born'
      /\ \A r \in Requests : pc'[r] = "idle"
  BY DEF IInv, NothingBeforeBirth, Create, requestVars, history
<1>2. PICK media \in [Fields -> Keys \cup {NoKey}], isPublished \in BOOLEAN :
         post' = [media |-> media, isPublished |-> isPublished,
                  publishedAt |-> DateOfNew(isPublished)]
  BY DEF Create
<1>3. post' \in Posts
  BY <1>2 DEF Posts, DateOfNew
<1>4. TypeInvariant'
  BY <1>3 DEF IInv, TypeInvariant, Create, requestVars, history
<1>5. PublishedIsDated'
  BY <1>2 DEF PublishedIsDated, DateOfNew
<1>6. /\ (Keys \ bucket \subseteq dropped)'
      /\ (MediaKeys(post) \cap dropped \subseteq returned)'
      /\ NothingBeforeBirth'
  BY <1>1 DEF IInv, Create, NothingBeforeBirth
<1>7. \A d \in Removals : pc'[d] # "updating" /\ updated'[d] = NoPost
  BY <1>1 DEF IInv, Create, requestVars, Requests
<1>8. \A e \in Edits : ReadIsAccountedFor(e)'
  BY <1>1 DEF ReadIsAccountedFor, Requests
<1>9. \A r \in Requests : RemovedIsDropped(r)'
  BY <1>1 DEF RemovedIsDropped
<1>10. QED BY <1>4, <1>5, <1>6, <1>7, <1>8, <1>9 DEF IInv

\* An edit that reads the article finds there what it will compare with.
LEMMA ReadPostKeepsIInv ==
    ASSUME IInv, NEW e \in Edits, ReadPost(e) PROVE IInv'
<1>1. /\ post' = post /\ born' = born /\ bucket' = bucket /\ updated' = updated
      /\ dropped' = dropped /\ returned' = returned
      /\ born /\ existing' = [existing EXCEPT ![e] = post]
      /\ pc[e] = "idle" /\ e \in Requests
  BY DEF ReadPost, Requests
<1>2. PICK there \in {"missing", "updating"} :
         pc' = [pc EXCEPT ![e] = there] /\ (there = "updating" => post # NoPost)
  BY DEF ReadPost, Goto
<1>3. patch' \in [Edits -> Patches] /\ untidy' \in BOOLEAN
  BY DEF ReadPost, IInv, TypeInvariant, NoteOverlap
<1>4. TypeInvariant'
  BY <1>1, <1>2, <1>3 DEF IInv, TypeInvariant
<1>5. PublishedIsDated' /\ NothingBeforeBirth'
  BY <1>1 DEF IInv, PublishedIsDated, NothingBeforeBirth
<1>6. /\ (Keys \ bucket \subseteq dropped)'
      /\ (MediaKeys(post) \cap dropped \subseteq returned)'
  BY <1>1 DEF IInv, MediaKeys
<1>7. \A d \in Removals : pc'[d] # "updating" /\ updated'[d] = NoPost
  BY <1>1, <1>2, ArticlesAssumption DEF IInv, TypeInvariant, Requests
<1>8. \A r \in Edits : ReadIsAccountedFor(r)'
  <2>1. CASE post = NoPost
    BY <2>1, <1>1, <1>2 DEF IInv, TypeInvariant, ReadIsAccountedFor, MediaKeys, Requests
  <2>2. CASE post # NoPost
    <3>1. TAKE r \in Edits
    <3>2. CASE r = e
      BY <3>2, <2>2, <1>1, <1>2 DEF IInv, TypeInvariant, ReadIsAccountedFor, MediaKeys, Requests
    <3>3. CASE r # e
      BY <3>3, <1>1, <1>2 DEF IInv, TypeInvariant, ReadIsAccountedFor, MediaKeys, Requests
    <3>4. QED BY <3>2, <3>3
  <2>3. QED BY <2>1, <2>2
<1>9. \A r \in Requests : RemovedIsDropped(r)'
  BY <1>1, <1>2 DEF IInv, TypeInvariant, RemovedIsDropped, RemovedKeys, MediaKeys
<1>10. QED BY <1>4, <1>5, <1>6, <1>7, <1>8, <1>9 DEF IInv

\* An update drops what it takes out of the article, and so what it will delete.
LEMMA UpdateKeepsIInv ==
    ASSUME IInv, NEW e \in Edits, Update(e) PROVE IInv'
<1> DEFINE new == Patched(e)
<1>1. PICK there \in {"cleaning", "failed"} : pc' = [pc EXCEPT ![e] = there]
  BY DEF Update, Goto
<1>2. /\ pc[e] = "updating" /\ e \in Requests /\ e \notin Removals
      /\ post' = new /\ updated' = [updated EXCEPT ![e] = new] /\ NoteKeys(new)
      /\ born' = born /\ bucket' = bucket /\ patch' = patch /\ existing' = existing
  BY ArticlesAssumption DEF Update, Requests
<1>3. post \in Posts /\ post # NoPost
  BY DEF Update, IInv, TypeInvariant
<1>4. new \in Posts
  BY <1>3, PatchedIsPost DEF IInv
<1>5. /\ dropped' \subseteq Keys /\ returned' \subseteq Keys
      /\ dropped \subseteq dropped'
      /\ MediaKeys(post') \cap dropped' \subseteq returned'
      /\ MediaKeys(post) \subseteq MediaKeys(post') \cup dropped'
  <2> HIDE DEF new
  <2> QED BY <1>2, <1>4, NotedKeys
<1>6. TypeInvariant'
  <2>1. untidy' \in BOOLEAN
    BY DEF Update, IInv, TypeInvariant
  <2> HIDE DEF new
  <2>2. QED BY <1>1, <1>2, <1>4, <1>5, <2>1 DEF IInv, TypeInvariant
<1>7. (Keys \ bucket \subseteq dropped)'
  BY <1>2, <1>5 DEF IInv
<1>8. post.publishedAt # "draft" => new.publishedAt # "draft"
  BY <1>3, PatchedIsDated DEF IInv
<1>9. \A r \in Edits : ReadIsAccountedFor(r)'
  <2> HIDE DEF new
  <2>1. TAKE r \in Edits
  <2>2. CASE r = e
    BY <2>2, <1>1, <1>2 DEF IInv, TypeInvariant, ReadIsAccountedFor
  <2>3. CASE r # e
    <3>1. pc'[r] = pc[r]
      BY <2>3, <1>1, <1>2 DEF IInv, TypeInvariant, Requests
    <3>2. MediaKeys(existing'[r]) = MediaKeys(existing[r])
      BY <1>2
    <3>3. QED BY <3>1, <3>2, <1>2, <1>3, <1>5, <1>8 DEF IInv, ReadIsAccountedFor
  <2>4. QED BY <2>2, <2>3
<1>10. \A r \in Requests : RemovedIsDropped(r)'
  <2> HIDE DEF new
  <2>1. TAKE r \in Requests
  <2>2. CASE r = e
    <3>1. MediaKeys(existing[e]) \subseteq MediaKeys(post) \cup dropped
      BY <1>2 DEF IInv, ReadIsAccountedFor
    <3>2. RemovedKeys(e)' = MediaKeys(existing[e]) \ MediaKeys(post')
      BY <1>2 DEF IInv, TypeInvariant, RemovedKeys, MediaKeys
    <3>3. QED BY <2>2, <3>1, <3>2, <1>5 DEF RemovedIsDropped
  <2>3. CASE r # e
    <3>1. pc'[r] = pc[r] /\ updated'[r] = updated[r]
      BY <2>3, <1>1, <1>2 DEF IInv, TypeInvariant
    <3>2. RemovedKeys(r)' = RemovedKeys(r)
      BY <3>1, <1>2 DEF RemovedKeys, MediaKeys
    <3>3. QED BY <3>1, <3>2, <1>5 DEF IInv, RemovedIsDropped
  <2>4. QED BY <2>2, <2>3
<1>11. \A d \in Removals : pc'[d] # "updating" /\ updated'[d] = NoPost
  <2> HIDE DEF new
  <2> QED BY <1>1, <1>2 DEF IInv, TypeInvariant, Requests
<1>12. NothingBeforeBirth'
  BY <1>2, <1>3 DEF IInv, NothingBeforeBirth
<1>13. PublishedIsDated'
  <2>1. CASE Stamps(e)
    BY <2>1, <1>2, <1>3, PatchedIsDated DEF IInv, PublishedIsDated
  <2>2. CASE ~Stamps(e) /\ TRUE \in patch[e].isPublished
    <3>1. existing[e].publishedAt # "draft"
      BY <2>2 DEF Stamps
    <3>2. post.publishedAt # "draft"
      BY <3>1, <1>2, <1>3 DEF IInv, ReadIsAccountedFor
    <3>3. QED BY <3>2, <1>2, <1>8 DEF PublishedIsDated
  <2>3. CASE TRUE \notin patch[e].isPublished
    <3>1. new.isPublished => post.isPublished
      BY <2>3 DEF Patched
    <3>2. QED BY <3>1, <1>2, <1>3, <1>8 DEF IInv, PublishedIsDated
  <2>4. QED BY <2>1, <2>2, <2>3
<1>14. QED BY <1>5, <1>6, <1>7, <1>9, <1>10, <1>11, <1>12, <1>13 DEF IInv

\* A transaction that finds no row, or is rolled back, changes nothing.
LEMMA AbortKeepsIInv ==
    ASSUME IInv, NEW e \in Edits, UpdateMisses(e) \/ UpdateFails(e) PROVE IInv'
<1>1. PICK there \in {"missing", "failed"} : pc' = [pc EXCEPT ![e] = there]
  BY DEF UpdateMisses, UpdateFails, Goto
<1>2. /\ e \in Requests
      /\ post' = post /\ born' = born /\ bucket' = bucket /\ patch' = patch
      /\ existing' = existing /\ updated' = updated
      /\ dropped' = dropped /\ returned' = returned /\ untidy' = untidy
  BY DEF UpdateMisses, UpdateFails, Requests, history
<1>3. pc[e] = "updating"
  BY DEF UpdateMisses, UpdateFails
<1>4. TypeInvariant'
  BY <1>1, <1>2 DEF IInv, TypeInvariant
<1>5. \A r \in Requests : pc'[r] \in {"updating", "cleaning"} => pc'[r] = pc[r]
  BY <1>1, <1>2 DEF IInv, TypeInvariant
<1>6. /\ (Keys \ bucket \subseteq dropped)'
      /\ (MediaKeys(post) \cap dropped \subseteq returned)'
  BY <1>2 DEF IInv, MediaKeys
<1>7. \A r \in Edits : ReadIsAccountedFor(r)'
  BY <1>2, <1>5 DEF IInv, ReadIsAccountedFor, MediaKeys, Requests
<1>8. \A r \in Requests : RemovedIsDropped(r)'
  BY <1>2, <1>5 DEF IInv, RemovedIsDropped, RemovedKeys, MediaKeys
<1>9. \A d \in Removals : pc'[d] # "updating" /\ updated'[d] = NoPost
  BY <1>2, <1>5 DEF IInv, Requests
<1>10. NothingBeforeBirth' /\ PublishedIsDated'
  BY <1>2, <1>3 DEF IInv, NothingBeforeBirth, PublishedIsDated
<1>11. QED BY <1>4, <1>6, <1>7, <1>8, <1>9, <1>10 DEF IInv

\* A removal drops all the article referenced.
LEMMA RemoveKeepsIInv ==
    ASSUME IInv, NEW d \in Removals, Remove(d) PROVE IInv'
<1>1. /\ d \in Requests /\ d \notin Edits /\ born /\ pc[d] = "idle"
      /\ born' = born /\ bucket' = bucket /\ patch' = patch /\ updated' = updated
  BY ArticlesAssumption DEF Remove, Requests
<1>2. PICK there \in {"missing", "cleaning", "failed"} :
         /\ pc' = [pc EXCEPT ![d] = there]
         /\ there = "cleaning" => post # NoPost
  BY DEF Remove, Goto
<1>3. post' = NoPost
  BY DEF Remove
<1>4. MediaKeys(post') = {}
  BY <1>3 DEF MediaKeys
<1>5. /\ dropped' \subseteq Keys /\ returned' \subseteq Keys
      /\ dropped \subseteq dropped'
      /\ MediaKeys(post') \cap dropped' \subseteq returned'
      /\ MediaKeys(post) \subseteq dropped'
  <2>1. CASE post = NoPost
    BY <2>1, <1>4 DEF Remove, MediaKeys, IInv, TypeInvariant, history
  <2>2. CASE post # NoPost
    <3>1. NoteKeys(NoPost)
      BY <2>2 DEF Remove
    <3>2. QED BY <3>1, <1>3, <1>4, NotedKeys
  <2>3. QED BY <2>1, <2>2
<1>6. PICK row \in Posts \cup {NoPost} :
         /\ existing' = [existing EXCEPT ![d] = row]
         /\ post # NoPost => row = post
  <2>1. CASE post = NoPost
    <3>1. existing' = [existing EXCEPT ![d] = existing[d]]
      BY <2>1, <1>1 DEF Remove, IInv, TypeInvariant
    <3>2. existing[d] \in Posts \cup {NoPost}
      BY <1>1 DEF IInv, TypeInvariant
    <3>3. QED BY <2>1, <3>1, <3>2
  <2>2. CASE post # NoPost
    BY <2>2 DEF Remove, IInv, TypeInvariant
  <2>3. QED BY <2>1, <2>2
<1>7. TypeInvariant'
  <2>1. untidy' \in BOOLEAN
    BY DEF Remove, IInv, TypeInvariant, NoteOverlap, history
  <2>2. QED BY <1>1, <1>2, <1>3, <1>5, <1>6, <2>1 DEF IInv, TypeInvariant
<1>8. (Keys \ bucket \subseteq dropped)'
  BY <1>1, <1>5 DEF IInv
<1>9. \A e \in Edits : ReadIsAccountedFor(e)'
  <2>1. TAKE e \in Edits
  <2>2. pc'[e] = pc[e] /\ existing'[e] = existing[e]
    BY <1>1, <1>2, <1>6 DEF IInv, TypeInvariant, Requests
  <2>3. MediaKeys(existing'[e]) = MediaKeys(existing[e])
    BY <2>2 DEF MediaKeys
  <2>4. QED BY <2>2, <2>3, <1>3, <1>5 DEF IInv, ReadIsAccountedFor
<1>10. \A r \in Requests : RemovedIsDropped(r)'
  <2>1. TAKE r \in Requests
  <2>2. CASE r = d
    <3>1. post # NoPost => RemovedKeys(d)' \subseteq MediaKeys(post)
      BY <1>1, <1>6 DEF IInv, TypeInvariant, RemovedKeys, MediaKeys
    <3>2. pc'[d] = "cleaning" => post # NoPost
      BY <1>1, <1>2 DEF IInv, TypeInvariant
    <3>3. QED BY <2>2, <3>1, <3>2, <1>5 DEF RemovedIsDropped
  <2>3. CASE r # d
    <3>1. pc'[r] = pc[r] /\ existing'[r] = existing[r]
      BY <2>3, <1>1, <1>2, <1>6 DEF IInv, TypeInvariant
    <3>2. RemovedKeys(r)' = RemovedKeys(r)
      BY <3>1, <1>1 DEF RemovedKeys, MediaKeys
    <3>3. QED BY <3>1, <3>2, <1>5 DEF IInv, RemovedIsDropped
  <2>4. QED BY <2>2, <2>3
<1>11. \A r \in Removals : pc'[r] # "updating" /\ updated'[r] = NoPost
  BY <1>1, <1>2 DEF IInv, TypeInvariant, Requests
<1>12. NothingBeforeBirth' /\ PublishedIsDated'
  BY <1>1, <1>3 DEF NothingBeforeBirth, PublishedIsDated
<1>13. QED BY <1>5, <1>7, <1>8, <1>9, <1>10, <1>11, <1>12 DEF IInv

\* A clean-up deletes dropped keys only.
LEMMA DeleteMediaKeepsIInv ==
    ASSUME IInv, NEW r \in Requests, DeleteMedia(r) PROVE IInv'
<1>1. /\ pc[r] = "cleaning" /\ pc' = [pc EXCEPT ![r] = "done"]
      /\ post' = post /\ born' = born /\ patch' = patch
      /\ existing' = existing /\ updated' = updated
      /\ dropped' = dropped /\ returned' = returned
  BY DEF DeleteMedia, Goto
<1>2. PICK gone \in SUBSET RemovedKeys(r) :
         bucket' = bucket \ gone /\ untidy' = (untidy \/ gone # RemovedKeys(r))
  BY DEF DeleteMedia
<1>3. gone \subseteq dropped
  BY <1>1, <1>2 DEF IInv, RemovedIsDropped
<1>4. TypeInvariant'
  <2>1. untidy' \in BOOLEAN
    BY <1>2 DEF IInv, TypeInvariant
  <2>2. QED BY <1>1, <1>2, <2>1 DEF IInv, TypeInvariant
<1>5. \A s \in Requests : pc'[s] \in {"updating", "cleaning"} => pc'[s] = pc[s]
  BY <1>1 DEF IInv, TypeInvariant
<1>6. /\ (Keys \ bucket \subseteq dropped)'
      /\ (MediaKeys(post) \cap dropped \subseteq returned)'
  BY <1>1, <1>2, <1>3 DEF IInv, MediaKeys
<1>7. \A e \in Edits : ReadIsAccountedFor(e)'
  BY <1>1, <1>5 DEF IInv, ReadIsAccountedFor, MediaKeys, Requests
<1>8. \A s \in Requests : RemovedIsDropped(s)'
  BY <1>1, <1>5 DEF IInv, RemovedIsDropped, RemovedKeys, MediaKeys
<1>9. \A d \in Removals : pc'[d] # "updating" /\ updated'[d] = NoPost
  BY <1>1, <1>5 DEF IInv, Requests
<1>10. NothingBeforeBirth' /\ PublishedIsDated'
  BY <1>1 DEF IInv, NothingBeforeBirth, PublishedIsDated
<1>11. QED BY <1>4, <1>6, <1>7, <1>8, <1>9, <1>10 DEF IInv

LEMMA StutterKeepsIInv == ASSUME IInv, UNCHANGED vars PROVE IInv'
<1>1. MediaKeys(post)' = MediaKeys(post)
  BY DEF vars, MediaKeys
<1>2. \A r \in Requests : RemovedKeys(r)' = RemovedKeys(r)
  BY DEF vars, requestVars, RemovedKeys, MediaKeys
<1>3. \A r \in Requests : MediaKeys(existing'[r]) = MediaKeys(existing[r])
  BY DEF vars, requestVars
<1>4. TypeInvariant'
  BY DEF IInv, TypeInvariant, vars, requestVars, history
<1>5. QED BY <1>1, <1>2, <1>3, <1>4 DEF IInv, ReadIsAccountedFor, RemovedIsDropped,
        NothingBeforeBirth, PublishedIsDated, vars, requestVars, history, Requests

LEMMA StepKeepsIInv == ASSUME IInv, [Next]_vars PROVE IInv'
<1>1. CASE Create BY <1>1, CreateKeepsIInv
<1>2. CASE \E e \in Edits : ReadPost(e) BY <1>2, ReadPostKeepsIInv
<1>3. CASE \E e \in Edits : Update(e) BY <1>3, UpdateKeepsIInv
<1>4. CASE \E e \in Edits : UpdateMisses(e) \/ UpdateFails(e) BY <1>4, AbortKeepsIInv
<1>5. CASE \E d \in Removals : Remove(d) BY <1>5, RemoveKeepsIInv
<1>6. CASE \E r \in Requests : DeleteMedia(r) BY <1>6, DeleteMediaKeepsIInv
<1>7. CASE UNCHANGED vars BY <1>7, StutterKeepsIInv
<1>8. QED BY <1>1, <1>2, <1>3, <1>4, <1>5, <1>6, <1>7 DEF Next

\* The inductive invariant holds in every reachable state.
LEMMA InvariantHolds == Spec => []IInv
BY InitSatisfiesIInv, StepKeepsIInv, PTL DEF Spec

-------------------------------------------------------------------------------
(***************************************************************************)
(* Every row, payload and history variable keeps its type.                 *)
(***************************************************************************)
THEOREM ArticlesTypes == Spec => []TypeInvariant
<1>1. IInv => TypeInvariant
  BY DEF IInv
<1>2. QED BY <1>1, InvariantHolds, PTL

(***************************************************************************)
(* However edits and removals overlap, what the article has never ceased   *)
(* to reference is in the bucket.                                          *)
(***************************************************************************)
THEOREM ArticlesReferencedMediaIsAlive == Spec => []ReferencedMediaIsAlive
<1>1. ASSUME IInv PROVE ReferencedMediaIsAlive
  <2>1. MediaKeys(post) \subseteq Keys
    BY <1>1, MediaKeysAreKeys DEF IInv, TypeInvariant
  <2>2. QED BY <1>1, <2>1 DEF IInv, ReferencedMediaIsAlive
<1>2. QED BY <1>1, InvariantHolds, PTL

(***************************************************************************)
(* A published article has a publication date, although the stamp is       *)
(* decided on a row that may be stale when it is written.                  *)
(***************************************************************************)
THEOREM ArticlesPublishedIsDated == Spec => []PublishedIsDated
<1>1. IInv => PublishedIsDated
  BY DEF IInv
<1>2. QED BY <1>1, InvariantHolds, PTL

(***************************************************************************)
(* An edit that has read a date leaves the article's date alone.           *)
(***************************************************************************)
LEMMA StepKeepsDate ==
    ASSUME IInv, [Next]_vars, NEW e \in Edits,
           pc[e] = "updating", pc'[e] \in {"cleaning", "failed"}, post' # NoPost,
           existing[e].publishedAt # "draft"
    PROVE  post'.publishedAt = post.publishedAt
<1>1. CASE Create \/ UNCHANGED vars
  BY <1>1 DEF Create, vars, requestVars
<1>2. CASE \E r \in Edits : ReadPost(r) \/ UpdateMisses(r) \/ UpdateFails(r)
  BY <1>2 DEF ReadPost, UpdateMisses, UpdateFails
<1>3. CASE \E r \in Edits : Update(r)
  <2>1. PICK r \in Edits : Update(r)
    BY <1>3
  <2>2. r = e
    BY <2>1 DEF Update, Goto, IInv, TypeInvariant, Requests
  <2>3. ~Stamps(e)
    BY DEF Stamps
  <2>4. post' = Patched(e) /\ post \in Posts
    BY <2>1, <2>2 DEF Update, IInv, TypeInvariant
  <2>5. QED BY <2>3, <2>4, PatchedIsDated DEF IInv
<1>4. CASE \E d \in Removals : Remove(d)
  BY <1>4 DEF Remove
<1>5. CASE \E r \in Requests : DeleteMedia(r)
  BY <1>5 DEF DeleteMedia
<1>6. QED BY <1>1, <1>2, <1>3, <1>4, <1>5 DEF Next

(***************************************************************************)
(* "Unpublish-then-republish keeps showing the original publish date": for *)
(* every edit that begins once the article has a date.                     *)
(***************************************************************************)
THEOREM ArticlesLaterEditsKeepDate == Spec => LaterEditsKeepDate
<1>1. ASSUME IInv, [Next]_vars
      PROVE  [\A e \in Edits :
                 /\ pc[e] = "updating" /\ post' # NoPost
                 /\ pc'[e] \in {"cleaning", "failed"}
                 /\ existing[e].publishedAt # "draft"
                 => post'.publishedAt = post.publishedAt]_vars
  BY <1>1, StepKeepsDate
<1>2. QED BY <1>1, InvariantHolds, PTL DEF Spec, LaterEditsKeepDate
-------------------------------------------------------------------------------
(***************************************************************************)
(* As long as no requests have overlapped and no clean-up has been cut     *)
(* short: whoever runs runs alone, an edit that is about to write holds    *)
(* the article as it is, and what the article has left in the bucket is    *)
(* about to be deleted.                                                    *)
(***************************************************************************)
RunsAlone == \A r, s \in Requests : InFlight(r) /\ InFlight(s) => r = s

ReadIsCurrent == \A e \in Edits : pc[e] = "updating" => existing[e] = post

Orphans == (dropped \cap bucket) \ MediaKeys(post)

OrphansAreInHand ==
    \A k \in Orphans : \E r \in Requests : pc[r] = "cleaning" /\ k \in RemovedKeys(r)

Tidy == ~untidy => RunsAlone /\ ReadIsCurrent /\ OrphansAreInHand

LEMMA InitTidy == ASSUME Init PROVE Tidy
<1>1. \A r \in Requests : pc[r] = "idle"
  BY DEF Init
<1>2. Orphans = {}
  BY DEF Init, Orphans
<1>3. QED BY <1>1, <1>2 DEF Tidy, RunsAlone, ReadIsCurrent, OrphansAreInHand,
        InFlight, Requests

\* Nobody is at work when a request that does not overlap begins.
LEMMA BeginsAlone ==
    ASSUME NoteOverlap, ~untidy', OrphansAreInHand
    PROVE  ~untidy /\ Orphans = {} /\ \A r \in Requests : ~InFlight(r)
BY DEF NoteOverlap, InFlight, OrphansAreInHand

LEMMA CreateKeepsTidy == ASSUME IInv, Tidy, Create PROVE Tidy'
<1>1. /\ dropped' = {} /\ \A r \in Requests : pc'[r] = "idle"
  BY DEF IInv, NothingBeforeBirth, Create, requestVars, history
<1>2. Orphans' = {}
  BY <1>1 DEF Orphans
<1>3. QED BY <1>1, <1>2 DEF Tidy, RunsAlone, ReadIsCurrent, OrphansAreInHand,
        InFlight, Requests

LEMMA ReadPostKeepsTidy ==
    ASSUME IInv, Tidy, NEW e \in Edits, ReadPost(e) PROVE Tidy'
<1> SUFFICES ASSUME ~untidy' PROVE (RunsAlone /\ ReadIsCurrent /\ OrphansAreInHand)'
  BY DEF Tidy
<1>1. /\ e \in Requests /\ pc[e] = "idle"
      /\ existing' = [existing EXCEPT ![e] = post]
      /\ post' = post /\ bucket' = bucket /\ dropped' = dropped /\ updated' = updated
  BY DEF ReadPost, Requests
<1>2. ~untidy
  BY DEF ReadPost, NoteOverlap
<1>3. Orphans' = Orphans
  BY <1>1 DEF Orphans, MediaKeys
<1>4. \A r \in Requests \ {e} : RemovedKeys(r)' = RemovedKeys(r)
  BY <1>1 DEF RemovedKeys, MediaKeys
<1>5. CASE post = NoPost
  <2>1. pc' = [pc EXCEPT ![e] = "missing"]
    BY <1>5 DEF ReadPost, Goto
  <2>2. \A r \in Requests \ {e} : pc'[r] = pc[r]
    BY <2>1 DEF IInv, TypeInvariant
  <2>3. ~InFlight(e)'
    BY <2>1, <1>1 DEF IInv, TypeInvariant, InFlight
  <2>4. RunsAlone' /\ ReadIsCurrent'
    BY <1>1, <1>2, <2>2, <2>3 DEF Tidy, RunsAlone, ReadIsCurrent, InFlight, Requests,
       IInv, TypeInvariant
  <2>5. OrphansAreInHand'
    BY <1>1, <1>2, <1>3, <1>4, <2>2 DEF Tidy, OrphansAreInHand
  <2>6. QED BY <2>4, <2>5
<1>6. CASE post # NoPost
  <2>1. NoteOverlap /\ pc' = [pc EXCEPT ![e] = "updating"]
    BY <1>6 DEF ReadPost, Goto
  <2>2. Orphans = {} /\ \A r \in Requests : ~InFlight(r)
    BY <2>1, <1>2, BeginsAlone DEF Tidy
  <2>3. \A r \in Requests : InFlight(r)' => r = e
    BY <2>1, <2>2 DEF IInv, TypeInvariant, InFlight
  <2>4. existing'[e] = post
    BY <1>1 DEF IInv, TypeInvariant
  <2>5. RunsAlone' /\ ReadIsCurrent'
    BY <1>1, <2>3, <2>4 DEF RunsAlone, ReadIsCurrent, InFlight, Requests
  <2>6. OrphansAreInHand'
    BY <1>3, <2>2 DEF OrphansAreInHand
  <2>7. QED BY <2>5, <2>6
<1>7. QED BY <1>5, <1>6

\* What an edit takes out of the article it has in hand for the clean-up.
LEMMA UpdateKeepsTidy ==
    ASSUME IInv, Tidy, NEW e \in Edits, Update(e) PROVE Tidy'
<1> SUFFICES ASSUME ~untidy' PROVE (RunsAlone /\ ReadIsCurrent /\ OrphansAreInHand)'
  BY DEF Tidy
<1> DEFINE new == Patched(e)
<1>1. /\ pc[e] = "updating" /\ e \in Requests
      /\ post' = new /\ updated' = [updated EXCEPT ![e] = new] /\ NoteKeys(new)
      /\ bucket' = bucket /\ existing' = existing
  BY DEF Update, Requests
<1>2. ~untidy /\ pc' = [pc EXCEPT ![e] = "cleaning"]
  BY DEF Update, Goto
<1> HIDE DEF new
<1>3. existing[e] = post /\ \A r \in Requests : InFlight(r) => r = e
  BY <1>1, <1>2 DEF Tidy, RunsAlone, ReadIsCurrent, InFlight
<1>4. pc'[e] = "cleaning" /\ \A r \in Requests : InFlight(r)' => r = e
  BY <1>1, <1>2, <1>3 DEF IInv, TypeInvariant, InFlight
<1>5. RunsAlone' /\ ReadIsCurrent'
  BY <1>4 DEF RunsAlone, ReadIsCurrent, InFlight, Requests
<1>6. Orphans = {}
  BY <1>1, <1>2, <1>3 DEF Tidy, OrphansAreInHand, InFlight
<1>7. RemovedKeys(e)' = MediaKeys(post) \ MediaKeys(post')
  BY <1>1, <1>3 DEF IInv, TypeInvariant, RemovedKeys, MediaKeys
<1>8. dropped' = dropped \cup (MediaKeys(post) \ MediaKeys(post'))
  BY <1>1 DEF NoteKeys
<1>9. Orphans' \subseteq RemovedKeys(e)'
  BY <1>1, <1>6, <1>7, <1>8 DEF Orphans
<1>10. QED BY <1>1, <1>4, <1>5, <1>9 DEF OrphansAreInHand

LEMMA AbortKeepsTidy ==
    ASSUME IInv, Tidy, NEW e \in Edits, UpdateMisses(e) \/ UpdateFails(e) PROVE Tidy'
<1>1. PICK there \in {"missing", "failed"} : pc' = [pc EXCEPT ![e] = there]
  BY DEF UpdateMisses, UpdateFails, Goto
<1>2. /\ e \in Requests /\ pc[e] = "updating"
      /\ post' = post /\ bucket' = bucket /\ dropped' = dropped
      /\ existing' = existing /\ updated' = updated /\ untidy' = untidy
  BY DEF UpdateMisses, UpdateFails, Requests, history
<1>3. \A r \in Requests : pc'[r] \in {"updating", "cleaning"} => pc'[r] = pc[r]
  BY <1>1, <1>2 DEF IInv, TypeInvariant
<1>4. \A r \in Requests : pc[r] = "cleaning" => pc'[r] = "cleaning"
  BY <1>1, <1>2 DEF IInv, TypeInvariant
<1>5. Orphans' = Orphans /\ \A r \in Requests : RemovedKeys(r)' = RemovedKeys(r)
  BY <1>2 DEF Orphans, RemovedKeys, MediaKeys
<1>6. (RunsAlone => RunsAlone') /\ (ReadIsCurrent => ReadIsCurrent')
  BY <1>2, <1>3 DEF RunsAlone, ReadIsCurrent, InFlight, Requests
<1>7. OrphansAreInHand => OrphansAreInHand'
  BY <1>4, <1>5 DEF OrphansAreInHand
<1>8. QED BY <1>2, <1>6, <1>7 DEF Tidy

\* A removal has all in hand that the article referenced.
LEMMA RemoveKeepsTidy ==
    ASSUME IInv, Tidy, NEW d \in Removals, Remove(d) PROVE Tidy'
<1> SUFFICES ASSUME ~untidy' PROVE (RunsAlone /\ ReadIsCurrent /\ OrphansAreInHand)'
  BY DEF Tidy
<1>1. /\ d \in Requests /\ d \notin Edits /\ pc[d] = "idle"
      /\ bucket' = bucket /\ updated' = updated
  BY ArticlesAssumption DEF Remove, Requests
<1>2. CASE post = NoPost
  <2>1. /\ pc' = [pc EXCEPT ![d] = "missing"] /\ post' = post /\ existing' = existing
        /\ dropped' = dropped /\ untidy' = untidy
    BY <1>2 DEF Remove, Goto, history
  <2>2. \A r \in Requests : (InFlight(r)' \/ InFlight(r)) => pc'[r] = pc[r]
    BY <2>1, <1>1 DEF IInv, TypeInvariant, InFlight
  <2>3. Orphans' = Orphans /\ \A r \in Requests : RemovedKeys(r)' = RemovedKeys(r)
    BY <1>1, <2>1 DEF Orphans, RemovedKeys, MediaKeys
  <2>4. RunsAlone' /\ ReadIsCurrent'
    BY <2>1, <2>2 DEF Tidy, RunsAlone, ReadIsCurrent, InFlight, Requests
  <2>5. OrphansAreInHand'
    BY <2>1, <2>2, <2>3 DEF Tidy, OrphansAreInHand, InFlight
  <2>6. QED BY <2>4, <2>5
<1>3. CASE post # NoPost
  <2>1. /\ post' = NoPost /\ existing' = [existing EXCEPT ![d] = post]
        /\ NoteKeys(NoPost) /\ NoteOverlap /\ pc' = [pc EXCEPT ![d] = "cleaning"]
    BY <1>3 DEF Remove, Goto
  <2>2. ~untidy
    BY <2>1 DEF NoteOverlap
  <2>3. Orphans = {} /\ \A r \in Requests : ~InFlight(r)
    BY <2>1, <2>2, BeginsAlone DEF Tidy
  <2>4. pc'[d] = "cleaning" /\ \A r \in Requests : InFlight(r)' => r = d
    BY <2>1, <2>3, <1>1 DEF IInv, TypeInvariant, InFlight
  <2>5. RunsAlone' /\ ReadIsCurrent'
    BY <1>1, <2>4 DEF RunsAlone, ReadIsCurrent, InFlight, Requests
  <2>6. MediaKeys(NoPost) = {}
    BY DEF MediaKeys
  <2>7. RemovedKeys(d)' = MediaKeys(post)
    BY <1>1, <2>1 DEF IInv, TypeInvariant, RemovedKeys, MediaKeys
  <2>8. Orphans' \subseteq MediaKeys(post)
    BY <1>1, <2>1, <2>3, <2>6 DEF Orphans, NoteKeys
  <2>9. QED BY <1>1, <2>4, <2>5, <2>7, <2>8 DEF OrphansAreInHand
<1>4. QED BY <1>2, <1>3

\* A clean-up that is not cut short leaves nothing behind.
LEMMA DeleteMediaKeepsTidy ==
    ASSUME IInv, Tidy, NEW r \in Requests, DeleteMedia(r) PROVE Tidy'
<1> SUFFICES ASSUME ~untidy' PROVE (RunsAlone /\ ReadIsCurrent /\ OrphansAreInHand)'
  BY DEF Tidy
<1>1. /\ pc[r] = "cleaning" /\ pc' = [pc EXCEPT ![r] = "done"]
      /\ post' = post /\ existing' = existing /\ updated' = updated /\ dropped' = dropped
  BY DEF DeleteMedia, Goto
<1>2. ~untidy /\ bucket' = bucket \ RemovedKeys(r)
  BY DEF DeleteMedia
<1>3. \A s \in Requests : InFlight(s) => s = r
  BY <1>1, <1>2 DEF Tidy, RunsAlone, InFlight
<1>4. \A s \in Requests : ~InFlight(s)'
  BY <1>1, <1>3 DEF IInv, TypeInvariant, InFlight
<1>5. RunsAlone' /\ ReadIsCurrent'
  BY <1>4 DEF RunsAlone, ReadIsCurrent, InFlight, Requests
<1>6. Orphans \subseteq RemovedKeys(r)
  BY <1>2, <1>3 DEF Tidy, OrphansAreInHand, InFlight
<1>7. Orphans' = {}
  BY <1>1, <1>2, <1>6 DEF Orphans, MediaKeys
<1>8. QED BY <1>5, <1>7 DEF OrphansAreInHand

LEMMA StutterKeepsTidy == ASSUME Tidy, UNCHANGED vars PROVE Tidy'
<1>1. /\ post' = post /\ bucket' = bucket /\ pc' = pc /\ existing' = existing
      /\ updated' = updated /\ dropped' = dropped /\ untidy' = untidy
  BY DEF vars, requestVars, history
<1>2. Orphans' = Orphans /\ \A r \in Requests : RemovedKeys(r)' = RemovedKeys(r)
  BY <1>1 DEF Orphans, RemovedKeys, MediaKeys
<1>3. QED BY <1>1, <1>2 DEF Tidy, RunsAlone, ReadIsCurrent, OrphansAreInHand, InFlight

LEMMA StepKeepsTidy == ASSUME IInv, Tidy, [Next]_vars PROVE Tidy'
<1>1. CASE Create BY <1>1, CreateKeepsTidy
<1>2. CASE \E e \in Edits : ReadPost(e) BY <1>2, ReadPostKeepsTidy
<1>3. CASE \E e \in Edits : Update(e) BY <1>3, UpdateKeepsTidy
<1>4. CASE \E e \in Edits : UpdateMisses(e) \/ UpdateFails(e) BY <1>4, AbortKeepsTidy
<1>5. CASE \E d \in Removals : Remove(d) BY <1>5, RemoveKeepsTidy
<1>6. CASE \E r \in Requests : DeleteMedia(r) BY <1>6, DeleteMediaKeepsTidy
<1>7. CASE UNCHANGED vars BY <1>7, StutterKeepsTidy
<1>8. QED BY <1>1, <1>2, <1>3, <1>4, <1>5, <1>6, <1>7 DEF Next

(***************************************************************************)
(* Requests that do not overlap leave no orphan: once none is running,     *)
(* what the article has ceased to reference is gone from the bucket.       *)
(***************************************************************************)
THEOREM ArticlesLeaveNoOrphans == Spec => []SerialEditsLeaveNoOrphans
<1>1. Tidy => SerialEditsLeaveNoOrphans
  BY DEF Tidy, OrphansAreInHand, Orphans, InFlight, SerialEditsLeaveNoOrphans
<1>2. Spec => []Tidy
  BY InitTidy, StepKeepsTidy, InvariantHolds, PTL DEF Spec
<1>3. QED BY <1>1, <1>2, PTL

-------------------------------------------------------------------------------
(***************************************************************************)
(* Part 2.  The transactions of editors: slugs, topics, locks.             *)
(*                                                                         *)
(* EditorialInv rests on one fact: an article has one owner at a time, who *)
(* has created it or locked its row, and only the owner writes to the row, *)
(* its links and the values of its unique columns.                         *)
(***************************************************************************)
\* The statements.
Names == {"find", "begin", "write", "index", "unlink", "link", "reread", "remove", "cascade",
          "rename", "check"}

Answers == {"none", "ok", "failed", "not_found", "conflict"}

(***************************************************************************)
(* A request under way is at one of the statements of its order, past      *)
(* those before it; one that is not has nothing open.                      *)
(***************************************************************************)
AtStatement(r, k) ==
    LET list == Statements(order[r]) IN
    /\ k \in 1 .. Len(list)
    /\ todo[r] = SubSeq(list, k, Len(list))
    /\ did[r] = {list[j] : j \in 1 .. k - 1}

InOrder(r) ==
    IF Active(r)
    THEN order[r] \in Orders /\ \E k \in Nat : AtStatement(r, k)
    ELSE order[r] = NoOrder /\ did[r] = {} /\ unlinked[r] = {}

\* An article is its creator's, or of him who has locked its row.
Creates(r, p) == order[r].do = "create" /\ order[r].post = p
Owns(r, p) == LocksPost(r, p) \/ Creates(r, p)

OneOwner ==
    /\ \A p \in PostIds : \A r, q \in Calls : Owns(r, p) /\ Owns(q, p) => r = q
    /\ \A p \in PostIds : \A r \in Calls :
        /\ LocksPost(r, p) => Exists(p)
        /\ Creates(r, p) => ~Exists(p)

LinksAreLean == \A l \in links : Exists(l[1])

\* What a transaction has unlinked is all that its article was linked to.
UnlinksItsOwn(r) ==
    /\ \A l \in unlinked[r] : Did(r, "unlink") /\ l[1] = order[r].post
    /\ Did(r, "unlink") => LinksOf(order[r].post) \subseteq unlinked[r]

\* Whoever is past the unique indexes has its values to itself: no article has
\* them, nor does another request that is past the indexes.
SlugsAreTaken(r) ==
    Did(r, "index") =>
        \A col \in Changes(order[r]) : \A p \in PostIds \ {order[r].post} :
            order[r].slugs[col] # NoSlug /\ Exists(p) => posts[p][col] # order[r].slugs[col]

TakenOnce(r, q) ==
    r # q /\ Did(r, "index") /\ Did(q, "index") =>
        \A col \in Changes(order[r]) \cap Changes(order[q]) :
            order[r].slugs[col] = order[q].slugs[col] => order[r].slugs[col] = NoSlug

SlugsAreUnique ==
    \A p, q \in PostIds : \A col \in Columns :
        p # q /\ Exists(p) /\ Exists(q) /\ posts[p][col] = posts[q][col]
            => posts[p][col] = NoSlug

EditorialTypes ==
    /\ posts \in [PostIds -> PostRows \cup {NoRow}]
    /\ topics \in [TopicIds -> Slugs \cup {NoTopic}]
    /\ links \subseteq PostIds \X TopicIds
    /\ order \in [Calls -> Orders \cup {NoOrder}]
    /\ todo \in [Calls -> Seq(Names)]
    /\ did \in [Calls -> SUBSET Names]
    /\ unlinked \in [Calls -> SUBSET (PostIds \X TopicIds)]
    /\ answer \in [Calls -> Answers]
    /\ asked \in [PostIds -> SUBSET TopicIds]

\* The inductive invariant.
EditorialInv ==
    /\ EditorialTypes
    /\ \A r \in Calls : InOrder(r)
    /\ OneOwner
    /\ LinksAreLean
    /\ \A r \in Calls : UnlinksItsOwn(r)
    /\ \A r \in Calls : SlugsAreTaken(r)
    /\ \A r, q \in Calls : TakenOnce(r, q)
    /\ SlugsAreUnique
    /\ TopicsAreOneEdits

-------------------------------------------------------------------------------
(* Orders and their statements.                                            *)

\* What an order says, by its kind.
LEMMA OrderKinds ==
    ASSUME NEW o \in Orders
    PROVE  /\ o.do \in {"edit", "create", "removePost", "addTopic", "renameTopic", "removeTopic"}
           /\ o.do \in {"edit", "create", "removePost"} => o.post \in PostIds
           /\ o.do \in {"edit", "create"} =>
                o.slugs \in SlugChanges /\ o.topics \in {Keep} \cup SUBSET TopicIds
           /\ o.do = "create" => "slug" \in DOMAIN o.slugs
           /\ o.do \in {"addTopic", "renameTopic", "removeTopic"} => o.topic \in TopicIds
           /\ o.do \in {"addTopic", "renameTopic"} => o.slug \in Slugs
           /\ o # NoOrder
<1>1. o \in OrdersForPosts \/ o \in OrdersForTopics
  BY EditorialAssumption
<1> QED
  BY <1>1 DEF OrdersForPosts, OrdersForTopics, NoOrder

\* A column that an order sets is a column, and its value one for it.
LEMMA SlugsOfAnOrder ==
    ASSUME NEW s \in SlugChanges, NEW col \in DOMAIN s
    PROVE  /\ col \in Columns
           /\ s[col] \in Slugs \cup {NoSlug}
           /\ col = "slug" => s[col] \in Slugs
<1>1. PICK C \in SUBSET Columns : s \in [C -> Slugs \cup {NoSlug}]
  BY DEF SlugChanges
<1> QED
  BY <1>1 DEF SlugChanges

\* A suffix of a list: its head, and its tail.
LEMMA Suffixes ==
    ASSUME NEW S, NEW list \in Seq(S), NEW k \in 1 .. Len(list)
    PROVE  /\ SubSeq(list, k, Len(list)) \in Seq(S)
           /\ SubSeq(list, k, Len(list)) # <<>>
           /\ Head(SubSeq(list, k, Len(list))) = list[k]
           /\ k < Len(list) => Tail(SubSeq(list, k, Len(list))) = SubSeq(list, k + 1, Len(list))
<1> DEFINE rest == SubSeq(list, k, Len(list))
<1>1. rest \in Seq(S) /\ Len(rest) = Len(list) - k + 1
  OBVIOUS
<1>2. \A i \in 1 .. Len(rest) : rest[i] = list[k + i - 1]
  OBVIOUS
<1>3. ASSUME k < Len(list)
      PROVE  Tail(rest) = SubSeq(list, k + 1, Len(list))
  OBVIOUS
<1>4. rest # <<>> /\ Head(rest) = list[k]
  <2>1. Len(rest) > 0 /\ rest[1] = list[k]
    BY <1>1, <1>2
  <2> HIDE DEF rest
  <2> QED
    BY <1>1, <2>1
<1> QED
  BY <1>1, <1>3, <1>4

(***************************************************************************)
(* Where a request of order o stands that is at statement s, and what it   *)
(* is past: the order of the statements, read from the lists.              *)
(***************************************************************************)
Written == {"find", "begin", "write", "index"}
Stands(o, s, past) ==
    \/ /\ o.do = "edit"
       /\ \/ s = "find" /\ past = {}
          \/ s = "begin" /\ past = {"find"}
          \/ s = "write" /\ past = {"find", "begin"}
          \/ s = "index" /\ past = {"find", "begin", "write"}
          \/ s = "unlink" /\ o.topics # Keep /\ past = Written
          \/ s = "link" /\ o.topics # Keep /\ past = Written \cup {"unlink"}
          \/ /\ s = "reread"
             /\ Written \subseteq past /\ past \subseteq Written \cup {"unlink", "link"}
             /\ "unlink" \in past <=> o.topics # Keep
    \/ /\ o.do = "create"
       /\ \/ s = "begin" /\ past = {}
          \/ s = "index" /\ past = {"begin"}
          \/ s = "link" /\ past = {"begin", "index"}
          \/ /\ s = "reread"
             /\ {"begin", "index"} \subseteq past /\ past \subseteq {"begin", "index", "link"}
    \/ /\ o.do \in {"removePost", "removeTopic"}
       /\ \/ s = "begin" /\ past = {}
          \/ s = "remove" /\ past = {"begin"}
          \/ s = "cascade" /\ past = {"begin", "remove"}
    \/ /\ o.do = "renameTopic"
       /\ \/ s = "begin" /\ past = {}
          \/ s = "rename" /\ past = {"begin"}
          \/ s = "check" /\ past = {"begin", "rename"}
    \/ /\ o.do = "addTopic"
       /\ \/ s = "begin" /\ past = {}
          \/ s = "check" /\ past = {"begin"}

Final == {"reread", "cascade", "check"}

\* What is before the k-th element of a list.
LEMMA Prefixes ==
    ASSUME NEW list, NEW k \in 1 .. 7
    PROVE  /\ k = 1 => {list[j] : j \in 1 .. k - 1} = {}
           /\ k = 2 => {list[j] : j \in 1 .. k - 1} = {list[1]}
           /\ k = 3 => {list[j] : j \in 1 .. k - 1} = {list[1], list[2]}
           /\ k = 4 => {list[j] : j \in 1 .. k - 1} = {list[1], list[2], list[3]}
           /\ k = 5 => {list[j] : j \in 1 .. k - 1} = {list[1], list[2], list[3], list[4]}
           /\ k = 6 => {list[j] : j \in 1 .. k - 1}
                        = {list[1], list[2], list[3], list[4], list[5]}
           /\ k = 7 => {list[j] : j \in 1 .. k - 1}
                        = {list[1], list[2], list[3], list[4], list[5], list[6]}
OBVIOUS

LEMMA OneMore ==
    ASSUME NEW list, NEW k \in Nat \ {0}
    PROVE  {list[j] : j \in 1 .. (k + 1) - 1} = {list[j] : j \in 1 .. k - 1} \cup {list[k]}
<1>1. 1 .. (k + 1) - 1 = (1 .. k - 1) \cup {k}
  OBVIOUS
<1> QED
  BY <1>1

\* The lists say so: an edit.
LEMMA EditsStand ==
    ASSUME NEW o, o.do = "edit", NEW k \in 1 .. Len(EditStatements(o)),
           NEW past, past = {EditStatements(o)[j] : j \in 1 .. k - 1}
    PROVE  /\ EditStatements(o) \in Seq(Names)
           /\ Stands(o, EditStatements(o)[k], past)
           /\ EditStatements(o)[k] \notin Final => k < Len(EditStatements(o))
<1>1. CASE o.topics = Keep
  <2>1. EditStatements(o) = <<"find", "begin", "write", "index", "reread">>
    BY <1>1 DEF EditStatements
  <2>2. k \in 1 .. 5 /\ Len(EditStatements(o)) = 5
    BY <2>1
  <2>3. /\ k = 1 => EditStatements(o)[k] = "find" /\ past = {}
        /\ k = 2 => EditStatements(o)[k] = "begin" /\ past = {"find"}
        /\ k = 3 => EditStatements(o)[k] = "write" /\ past = {"find", "begin"}
        /\ k = 4 => EditStatements(o)[k] = "index" /\ past = {"find", "begin", "write"}
        /\ k = 5 => EditStatements(o)[k] = "reread" /\ past = {"find", "begin", "write", "index"}
    BY <2>1, <2>2, Prefixes
  <2>4. Stands(o, EditStatements(o)[k], past)
    BY <1>1, <2>2, <2>3 DEF Stands, Written
  <2>5. EditStatements(o)[k] \notin Final => k < Len(EditStatements(o))
    BY <2>2, <2>3 DEF Final
  <2>6. EditStatements(o) \in Seq(Names)
    <3> SUFFICES <<"find", "begin", "write", "index", "reread">> \in Seq(Names)
      BY <2>1
    <3> QED
      BY DEF Names
  <2> QED
    BY <2>4, <2>5, <2>6
<1>2. CASE o.topics # Keep /\ o.topics = {}
  <2>1. EditStatements(o) = <<"find", "begin", "write", "index", "unlink", "reread">>
    BY <1>2 DEF EditStatements
  <2>2. k \in 1 .. 6 /\ Len(EditStatements(o)) = 6
    BY <2>1
  <2>3. /\ k = 1 => EditStatements(o)[k] = "find" /\ past = {}
        /\ k = 2 => EditStatements(o)[k] = "begin" /\ past = {"find"}
        /\ k = 3 => EditStatements(o)[k] = "write" /\ past = {"find", "begin"}
        /\ k = 4 => EditStatements(o)[k] = "index" /\ past = {"find", "begin", "write"}
        /\ k = 5 => EditStatements(o)[k] = "unlink" /\ past = {"find", "begin", "write", "index"}
        /\ k = 6 => EditStatements(o)[k] = "reread" /\ past = {"find", "begin", "write", "index", "unlink"}
    BY <2>1, <2>2, Prefixes
  <2>4. Stands(o, EditStatements(o)[k], past)
    BY <1>2, <2>2, <2>3 DEF Stands, Written
  <2>5. EditStatements(o)[k] \notin Final => k < Len(EditStatements(o))
    BY <2>2, <2>3 DEF Final
  <2>6. EditStatements(o) \in Seq(Names)
    <3> SUFFICES <<"find", "begin", "write", "index", "unlink", "reread">> \in Seq(Names)
      BY <2>1
    <3> QED
      BY DEF Names
  <2> QED
    BY <2>4, <2>5, <2>6
<1>3. CASE o.topics # Keep /\ o.topics # {}
  <2>1. EditStatements(o) = <<"find", "begin", "write", "index", "unlink", "link", "reread">>
    BY <1>3 DEF EditStatements
  <2>2. k \in 1 .. 7 /\ Len(EditStatements(o)) = 7
    BY <2>1
  <2>3. /\ k = 1 => EditStatements(o)[k] = "find" /\ past = {}
        /\ k = 2 => EditStatements(o)[k] = "begin" /\ past = {"find"}
        /\ k = 3 => EditStatements(o)[k] = "write" /\ past = {"find", "begin"}
        /\ k = 4 => EditStatements(o)[k] = "index" /\ past = {"find", "begin", "write"}
        /\ k = 5 => EditStatements(o)[k] = "unlink" /\ past = {"find", "begin", "write", "index"}
        /\ k = 6 => EditStatements(o)[k] = "link" /\ past = {"find", "begin", "write", "index", "unlink"}
        /\ k = 7 => EditStatements(o)[k] = "reread" /\ past = {"find", "begin", "write", "index", "unlink", "link"}
    BY <2>1, <2>2, Prefixes
  <2>4. Stands(o, EditStatements(o)[k], past)
    <3>1. o.topics # Keep
      BY <1>3
    <3>2. k = 1 \/ k = 2 \/ k = 3 \/ k = 4 \/ k = 5 \/ k = 6 \/ k = 7
      BY <2>2
    <3>3. CASE k = 1
      BY <2>3, <3>3 DEF Stands
    <3>4. CASE k = 2
      BY <2>3, <3>4 DEF Stands
    <3>5. CASE k = 3
      BY <2>3, <3>5 DEF Stands
    <3>6. CASE k = 4
      BY <2>3, <3>6 DEF Stands
    <3>7. CASE k = 5
      BY <2>3, <3>1, <3>7 DEF Stands, Written
    <3>8. CASE k = 6
      BY <2>3, <3>1, <3>8 DEF Stands, Written
    <3>9. CASE k = 7
      BY <2>3, <3>1, <3>9 DEF Stands, Written
    <3> QED
      BY <3>2, <3>3, <3>4, <3>5, <3>6, <3>7, <3>8, <3>9
  <2>5. EditStatements(o)[k] \notin Final => k < Len(EditStatements(o))
    BY <2>2, <2>3 DEF Final
  <2>6. EditStatements(o) \in Seq(Names)
    <3> SUFFICES <<"find", "begin", "write", "index", "unlink", "link", "reread">> \in Seq(Names)
      BY <2>1
    <3> QED
      BY DEF Names
  <2> QED
    BY <2>4, <2>5, <2>6
<1> QED
  BY <1>1, <1>2, <1>3

\* A creation.
LEMMA CreationsStand ==
    ASSUME NEW o, o.do = "create", NEW k \in 1 .. Len(CreateStatements(o)),
           NEW past, past = {CreateStatements(o)[j] : j \in 1 .. k - 1}
    PROVE  /\ CreateStatements(o) \in Seq(Names)
           /\ Stands(o, CreateStatements(o)[k], past)
           /\ CreateStatements(o)[k] \notin Final => k < Len(CreateStatements(o))
<1>1. CASE o.topics \in {Keep, {}}
  <2>1. CreateStatements(o) = <<"begin", "index", "reread">>
    BY <1>1 DEF CreateStatements
  <2>2. k \in 1 .. 3 /\ Len(CreateStatements(o)) = 3
    BY <2>1
  <2>3. /\ k = 1 => CreateStatements(o)[k] = "begin" /\ past = {}
        /\ k = 2 => CreateStatements(o)[k] = "index" /\ past = {"begin"}
        /\ k = 3 => CreateStatements(o)[k] = "reread" /\ past = {"begin", "index"}
    BY <2>1, <2>2, Prefixes
  <2>4. Stands(o, CreateStatements(o)[k], past)
    BY <2>2, <2>3 DEF Stands
  <2>5. CreateStatements(o)[k] \notin Final => k < Len(CreateStatements(o))
    BY <2>2, <2>3 DEF Final
  <2>6. CreateStatements(o) \in Seq(Names)
    <3> SUFFICES <<"begin", "index", "reread">> \in Seq(Names)
      BY <2>1
    <3> QED
      BY DEF Names
  <2> QED
    BY <2>4, <2>5, <2>6
<1>2. CASE o.topics \notin {Keep, {}}
  <2>1. CreateStatements(o) = <<"begin", "index", "link", "reread">>
    BY <1>2 DEF CreateStatements
  <2>2. k \in 1 .. 4 /\ Len(CreateStatements(o)) = 4
    BY <2>1
  <2>3. /\ k = 1 => CreateStatements(o)[k] = "begin" /\ past = {}
        /\ k = 2 => CreateStatements(o)[k] = "index" /\ past = {"begin"}
        /\ k = 3 => CreateStatements(o)[k] = "link" /\ past = {"begin", "index"}
        /\ k = 4 => CreateStatements(o)[k] = "reread" /\ past = {"begin", "index", "link"}
    BY <2>1, <2>2, Prefixes
  <2>4. Stands(o, CreateStatements(o)[k], past)
    BY <2>2, <2>3 DEF Stands
  <2>5. CreateStatements(o)[k] \notin Final => k < Len(CreateStatements(o))
    BY <2>2, <2>3 DEF Final
  <2>6. CreateStatements(o) \in Seq(Names)
    <3> SUFFICES <<"begin", "index", "link", "reread">> \in Seq(Names)
      BY <2>1
    <3> QED
      BY DEF Names
  <2> QED
    BY <2>4, <2>5, <2>6
<1> QED
  BY <1>1, <1>2

\* A removal.
LEMMA RemovalsStand ==
    ASSUME NEW o, o.do = "removePost" \/ o.do = "removeTopic",
           NEW list, list = RemovalStatements, NEW k \in 1 .. Len(list),
           NEW past, past = {list[j] : j \in 1 .. k - 1}
    PROVE  /\ list \in Seq(Names)
           /\ Stands(o, list[k], past)
           /\ list[k] \notin Final => k < Len(list)
<1>1. k \in 1 .. 3 /\ Len(list) = 3
  BY DEF RemovalStatements
<1>2. /\ k = 1 => list[k] = "begin" /\ past = {}
      /\ k = 2 => list[k] = "remove" /\ past = {"begin"}
      /\ k = 3 => list[k] = "cascade" /\ past = {"begin", "remove"}
  BY <1>1, Prefixes DEF RemovalStatements
<1>3. Stands(o, list[k], past)
  BY <1>1, <1>2 DEF Stands
<1>4. list[k] \notin Final => k < Len(list)
  BY <1>1, <1>2 DEF Final
<1>5. list \in Seq(Names)
  BY DEF RemovalStatements, Names
<1> QED
  BY <1>3, <1>4, <1>5

\* A rename, and a new topic.
LEMMA RenamesStand ==
    ASSUME NEW o, o.do = "renameTopic",
           NEW list, list = RenameStatements, NEW k \in 1 .. Len(list),
           NEW past, past = {list[j] : j \in 1 .. k - 1}
    PROVE  /\ list \in Seq(Names)
           /\ Stands(o, list[k], past)
           /\ list[k] \notin Final => k < Len(list)
<1>1. k \in 1 .. 3 /\ Len(list) = 3
  BY DEF RenameStatements
<1>2. /\ k = 1 => list[k] = "begin" /\ past = {}
      /\ k = 2 => list[k] = "rename" /\ past = {"begin"}
      /\ k = 3 => list[k] = "check" /\ past = {"begin", "rename"}
  BY <1>1, Prefixes DEF RenameStatements
<1>3. Stands(o, list[k], past)
  BY <1>1, <1>2 DEF Stands
<1>4. list[k] \notin Final => k < Len(list)
  BY <1>1, <1>2 DEF Final
<1>5. list \in Seq(Names)
  BY DEF RenameStatements, Names
<1> QED
  BY <1>3, <1>4, <1>5

LEMMA AdditionsStand ==
    ASSUME NEW o, o.do = "addTopic",
           NEW list, list = <<"begin", "check">>, NEW k \in 1 .. Len(list),
           NEW past, past = {list[j] : j \in 1 .. k - 1}
    PROVE  /\ list \in Seq(Names)
           /\ Stands(o, list[k], past)
           /\ list[k] \notin Final => k < Len(list)
<1>1. k \in 1 .. 2 /\ Len(list) = 2
  OBVIOUS
<1>2. /\ k = 1 => list[k] = "begin" /\ past = {}
      /\ k = 2 => list[k] = "check" /\ past = {"begin"}
  BY <1>1, Prefixes
<1>3. Stands(o, list[k], past)
  BY <1>1, <1>2 DEF Stands
<1>4. list[k] \notin Final => k < Len(list)
  BY <1>1, <1>2 DEF Final
<1>5. list \in Seq(Names)
  BY DEF Names
<1> QED
  BY <1>3, <1>4, <1>5

\* Any order.
LEMMA ListsStand ==
    ASSUME NEW o \in Orders, NEW k \in 1 .. Len(Statements(o))
    PROVE  /\ Statements(o) \in Seq(Names)
           /\ Stands(o, Statements(o)[k], {Statements(o)[j] : j \in 1 .. k - 1})
           /\ Statements(o)[k] \notin Final => k < Len(Statements(o))
<1>1. CASE o.do = "edit"
  <2>1. Statements(o) = EditStatements(o)
    BY <1>1 DEF Statements
  <2> QED
    BY <1>1, <2>1, EditsStand
<1>2. CASE o.do = "create"
  <2>1. Statements(o) = CreateStatements(o)
    BY <1>2 DEF Statements
  <2> QED
    BY <1>2, <2>1, CreationsStand
<1>3. CASE o.do \in {"removePost", "removeTopic"}
  <2>1. Statements(o) = RemovalStatements
    BY <1>3 DEF Statements
  <2> QED
    BY <1>3, <2>1, RemovalsStand
<1>4. CASE o.do = "renameTopic"
  <2>1. Statements(o) = RenameStatements
    BY <1>4 DEF Statements
  <2> QED
    BY <1>4, <2>1, RenamesStand
<1>5. CASE o.do = "addTopic"
  <2>1. Statements(o) = <<"begin", "check">>
    BY <1>5 DEF Statements
  <2> QED
    BY <1>5, <2>1, AdditionsStand
<1> QED
  BY <1>1, <1>2, <1>3, <1>4, <1>5, OrderKinds

\* There is something to do for every order.
LEMMA ListsAreLists ==
    ASSUME NEW o \in Orders
    PROVE  Len(Statements(o)) > 0 /\ Statements(o) \in Seq(Names)
<1>1. Len(Statements(o)) > 0
  BY OrderKinds DEF Statements, EditStatements, CreateStatements, RemovalStatements,
                      RenameStatements
<1>2. 1 \in 1 .. Len(Statements(o))
  <2>1. Len(Statements(o)) \in Nat
    BY OrderKinds DEF Statements, EditStatements, CreateStatements, RemovalStatements,
                      RenameStatements
  <2> QED
    BY <1>1, <2>1
<1> QED
  BY <1>1, <1>2, ListsStand

\* A list is its own suffix.
LEMMA WholeLists ==
    ASSUME NEW S, NEW list \in Seq(S)
    PROVE  list = SubSeq(list, 1, Len(list))
OBVIOUS

\* What each kind of request has done, anywhere.
LEMMA Pasts ==
    ASSUME NEW o, NEW s, NEW past, Stands(o, s, past)
    PROVE  /\ "write" \in past => o.do = "edit"
           /\ "remove" \in past => o.do \in {"removePost", "removeTopic"}
           /\ "index" \in past \/ "link" \in past =>
                o.do = "create" \/ (o.do = "edit" /\ "write" \in past)
           /\ "unlink" \in past => o.do = "edit" /\ "write" \in past /\ o.topics # Keep
           /\ "rename" \in past => o.do = "renameTopic"
<1>1. CASE o.do = "edit"
  <2>1. "remove" \notin past /\ "rename" \notin past
    BY <1>1 DEF Stands, Written
  <2>2. "index" \in past \/ "link" \in past => "write" \in past
    BY <1>1 DEF Stands, Written
  <2>3. "unlink" \in past => "write" \in past /\ o.topics # Keep
    BY <1>1 DEF Stands, Written
  <2> QED
    BY <1>1, <2>1, <2>2, <2>3
<1>2. CASE o.do = "create"
  <2>1. past \cap {"write", "remove", "unlink", "rename"} = {}
    BY <1>2 DEF Stands
  <2> QED
    BY <1>2, <2>1
<1>3. CASE o.do \in {"removePost", "removeTopic"}
  <2>1. past \cap {"write", "index", "link", "unlink", "rename"} = {}
    BY <1>3 DEF Stands
  <2> QED
    BY <1>3, <2>1
<1>4. CASE o.do \in {"renameTopic", "addTopic"}
  <2>1. past \cap {"write", "remove", "index", "link", "unlink"} = {}
    BY <1>4 DEF Stands
  <2>2. "rename" \in past => o.do = "renameTopic"
    BY <1>4 DEF Stands
  <2> QED
    BY <2>1, <2>2
<1> QED
  BY <1>1, <1>2, <1>3, <1>4 DEF Stands

(***************************************************************************)
(* Requests between their statements.                                      *)
(***************************************************************************)

\* Where a request stands, what is in its hands, and what it has done.
LEMMA Standing ==
    ASSUME EditorialTypes, NEW r \in Calls, InOrder(r), Active(r)
    PROVE  /\ order[r] \in Orders
           /\ Stands(order[r], Head(todo[r]), did[r])
<1>1. order[r] \in Orders
  BY DEF InOrder
<1>2. PICK k \in Nat : AtStatement(r, k)
  BY DEF InOrder
<1> DEFINE list == Statements(order[r])
<1>3. /\ k \in 1 .. Len(list)
      /\ todo[r] = SubSeq(list, k, Len(list))
      /\ did[r] = {list[j] : j \in 1 .. k - 1}
  BY <1>2 DEF AtStatement
<1>4. list \in Seq(Names) /\ Stands(order[r], list[k], did[r])
  BY <1>1, <1>3, ListsStand
<1>5. Head(todo[r]) = list[k]
  BY <1>3, <1>4, Suffixes
<1> QED
  BY <1>1, <1>4, <1>5

\* A statement that is not the last leads to the next one.
LEMMA ProceedsInOrder ==
    ASSUME EditorialTypes, NEW r \in Calls, InOrder(r), Active(r),
           Head(todo[r]) \notin Final, Proceed(r)
    PROVE  /\ InOrder(r)'
           /\ todo' \in [Calls -> Seq(Names)]
           /\ did' \in [Calls -> SUBSET Names]
<1> DEFINE list == Statements(order[r])
<1>1. PICK k \in Nat : AtStatement(r, k)
  BY DEF InOrder
<1>2. /\ k \in 1 .. Len(list)
      /\ todo[r] = SubSeq(list, k, Len(list))
      /\ did[r] = {list[j] : j \in 1 .. k - 1}
  BY <1>1 DEF AtStatement
<1>3. order[r] \in Orders
  BY DEF InOrder
<1>4. list \in Seq(Names) /\ (list[k] \notin Final => k < Len(list))
  BY <1>2, <1>3, ListsStand
<1>5. Head(todo[r]) = list[k] /\ k < Len(list)
  BY <1>2, <1>4, Suffixes
<1>6. Tail(todo[r]) = SubSeq(list, k + 1, Len(list))
  BY <1>2, <1>4, <1>5, Suffixes
<1>7. k + 1 \in 1 .. Len(list) /\ list[k] \in Names
  BY <1>2, <1>4, <1>5
<1>8. SubSeq(list, k + 1, Len(list)) \in Seq(Names) /\ SubSeq(list, k + 1, Len(list)) # <<>>
  BY <1>4, <1>7, Suffixes
<1>9. todo'[r] = SubSeq(list, k + 1, Len(list)) /\ did'[r] = did[r] \cup {list[k]}
  BY <1>5, <1>6 DEF Proceed, EditorialTypes
<1>10. did'[r] = {list[j] : j \in 1 .. (k + 1) - 1}
  <2>1. k \in Nat \ {0}
    BY <1>2
  <2> QED
    BY <1>2, <1>9, <2>1, OneMore
<1>11. order' = order
  BY DEF Proceed
<1>12. InOrder(r)'
  <2>1. Active(r)'
    BY <1>8, <1>9 DEF Active
  <2>2. AtStatement(r, k + 1)'
    BY <1>7, <1>9, <1>10, <1>11 DEF AtStatement
  <2> QED
    BY <1>3, <1>11, <2>1, <2>2 DEF InOrder
<1>13. todo' \in [Calls -> Seq(Names)]
  BY <1>6, <1>8 DEF Proceed, EditorialTypes
<1>14. did' \in [Calls -> SUBSET Names]
  BY <1>5, <1>7 DEF Proceed, EditorialTypes
<1> QED
  BY <1>12, <1>13, <1>14

\* A request of which nothing changes stays where it is.
LEMMA OrderStays ==
    ASSUME NEW q \in Calls, InOrder(q),
           todo'[q] = todo[q], did'[q] = did[q], order'[q] = order[q],
           unlinked'[q] = unlinked[q]
    PROVE  InOrder(q)'
<1>1. Active(q)' <=> Active(q)
  BY DEF Active
<1>2. ASSUME NEW k \in Nat, AtStatement(q, k)
      PROVE  AtStatement(q, k)'
  <2>1. Statements(order'[q]) = Statements(order[q])
    OBVIOUS
  <2> QED
    BY <1>2, <2>1 DEF AtStatement
<1> QED
  BY <1>1, <1>2 DEF InOrder

\* What a request that is past a statement holds.
LEMMA Holdings ==
    ASSUME EditorialTypes, NEW r \in Calls, InOrder(r)
    PROVE  /\ order[r] \in Orders \cup {NoOrder}
           /\ Did(r, "write") => order[r].do = "edit"
           /\ Did(r, "remove") => order[r].do \in {"removePost", "removeTopic"}
           /\ Did(r, "rename") => order[r].do = "renameTopic"
           /\ Did(r, "index") \/ Did(r, "link") =>
                /\ order[r] \in Orders /\ order[r].post \in PostIds
                /\ Owns(r, order[r].post)
                /\ order[r].do \in {"edit", "create"}
                /\ order[r].do = "edit" => LocksPost(r, order[r].post)
           /\ Did(r, "unlink") =>
                /\ order[r] \in Orders /\ order[r].post \in PostIds
                /\ LocksPost(r, order[r].post)
                /\ order[r].do = "edit" /\ order[r].topics # Keep
<1>1. CASE ~Active(r)
  BY <1>1 DEF InOrder, Did, NoOrder
<1>2. CASE Active(r)
  <2>1. order[r] \in Orders /\ Stands(order[r], Head(todo[r]), did[r])
    BY <1>2, Standing
  <2>2. Did(r, "write") => order[r].do = "edit"
    BY <2>1, Pasts DEF Did
  <2>3. Did(r, "remove") => order[r].do \in {"removePost", "removeTopic"}
    BY <2>1, Pasts DEF Did
  <2>4. Did(r, "index") \/ Did(r, "link") =>
            order[r].do = "create" \/ (order[r].do = "edit" /\ Did(r, "write"))
    BY <2>1, Pasts DEF Did
  <2>5. Did(r, "unlink") => order[r].do = "edit" /\ Did(r, "write") /\ order[r].topics # Keep
    BY <2>1, Pasts DEF Did
  <2>6. order[r].do \in {"create", "edit"} => order[r].post \in PostIds
    BY <2>1, OrderKinds
  <2>7. Did(r, "rename") => order[r].do = "renameTopic"
    BY <2>1, Pasts DEF Did
  <2> QED
    BY <2>1, <2>2, <2>3, <2>4, <2>5, <2>6, <2>7 DEF Owns, LocksPost, Creates
<1> QED
  BY <1>1, <1>2

-------------------------------------------------------------------------------
(* Statements that leave the transaction open.                             *)

\* What such a statement changes.
LEMMA ProceedingFrame ==
    ASSUME EditorialTypes, \A q \in Calls : InOrder(q),
           NEW r \in Calls, NEW s, At(r, s), s \notin Final, Proceed(r),
           unlinked' \in [Calls -> SUBSET (PostIds \X TopicIds)],
           \A q \in Calls \ {r} : unlinked'[q] = unlinked[q]
    PROVE  /\ EditorialTypes'
           /\ \A q \in Calls : InOrder(q)'
           /\ order' = order /\ posts' = posts /\ links' = links /\ asked' = asked
           /\ \A q \in Calls : \A x : Did(q, x)' <=> Did(q, x) \/ (q = r /\ x = s)
<1>1. Active(r) /\ Head(todo[r]) = s
  BY DEF At
<1>2. /\ InOrder(r)'
      /\ todo' \in [Calls -> Seq(Names)]
      /\ did' \in [Calls -> SUBSET Names]
  BY <1>1, ProceedsInOrder
<1>3. EditorialTypes'
  BY <1>2 DEF EditorialTypes, Proceed, tables
<1>4. ASSUME NEW q \in Calls \ {r}
      PROVE  InOrder(q)'
  <2>1. todo'[q] = todo[q] /\ did'[q] = did[q] /\ order'[q] = order[q]
    BY DEF Proceed, EditorialTypes
  <2>2. InOrder(q) /\ unlinked'[q] = unlinked[q]
    OBVIOUS
  <2> QED
    BY <2>1, <2>2, OrderStays
<1>5. order' = order /\ posts' = posts /\ links' = links /\ asked' = asked
  BY DEF Proceed, tables
<1>6. \A q \in Calls : \A x : Did(q, x)' <=> Did(q, x) \/ (q = r /\ x = s)
  BY <1>1 DEF Proceed, EditorialTypes, Did
<1> QED
  BY <1>2, <1>3, <1>4, <1>5, <1>6

\* Who owns an article stays its owner, unless a row is locked.
LEMMA OwnersStay ==
    ASSUME OneOwner, order' = order, posts' = posts,
           \A q \in Calls : \A x \in {"write", "remove"} : Did(q, x)' <=> Did(q, x)
    PROVE  OneOwner'
<1>1. \A q \in Calls : \A p \in PostIds :
        /\ LocksPost(q, p)' <=> LocksPost(q, p)
        /\ Creates(q, p)' <=> Creates(q, p)
        /\ Exists(p)' <=> Exists(p)
  BY DEF LocksPost, Creates, Exists
<1> QED
  BY <1>1 DEF OneOwner, Owns

\* To lock the row of an article is to wait until it is nobody's.
LEMMA LocksAreExclusive ==
    ASSUME EditorialInv, NEW r \in Calls, NEW s \in {"write", "remove"}, At(r, s),
           Blockers(r) = {},
           order[r].do \in {"edit", "removePost"} => Exists(order[r].post),
           order' = order, posts' = posts,
           \A q \in Calls : \A x : Did(q, x)' <=> Did(q, x) \/ (q = r /\ x = s)
    PROVE  OneOwner'
<1>1. OneOwner
  BY DEF EditorialInv
<1>2. Stands(order[r], s, did[r])
  BY Standing DEF EditorialInv, At
<1>3. \A q \in Calls : \A p \in PostIds :
        /\ LocksPost(q, p)' <=>
             \/ LocksPost(q, p)
             \/ q = r /\ order[r].do \in {"edit", "removePost"} /\ p = order[r].post
        /\ Creates(q, p)' <=> Creates(q, p)
        /\ Exists(p)' <=> Exists(p)
  BY DEF LocksPost, Creates, Exists
<1>4. ASSUME order[r].do \in {"edit", "removePost"}, NEW q \in Calls \ {r}
      PROVE  ~Owns(q, order[r].post)
  <2>1. ~WaitsAtPost(r, q)
    BY DEF Blockers
  <2>2. ~LocksPost(q, order[r].post)
    BY <1>2, <1>4, <2>1 DEF WaitsAtPost, Stands
  <2>3. order[r].post \in PostIds
    BY <1>4, Standing, OrderKinds DEF EditorialInv, At
  <2>4. ~Creates(q, order[r].post)
    BY <1>1, <1>4, <2>3 DEF OneOwner
  <2> QED
    BY <2>2, <2>4 DEF Owns
<1>5. \A p \in PostIds : \A q1, q2 \in Calls : Owns(q1, p)' /\ Owns(q2, p)' => q1 = q2
  BY <1>1, <1>3, <1>4 DEF OneOwner, Owns
<1>6. \A p \in PostIds : \A q \in Calls :
        /\ LocksPost(q, p)' => Exists(p)'
        /\ Creates(q, p)' => ~Exists(p)'
  BY <1>1, <1>3 DEF OneOwner
<1> QED
  BY <1>5, <1>6 DEF OneOwner

\* Links that are deleted are those of an article that is locked.
LEMMA UnlinkedStay ==
    ASSUME NEW q \in Calls, UnlinksItsOwn(q), order' = order, links' = links,
           unlinked'[q] = unlinked[q], Did(q, "unlink")' <=> Did(q, "unlink")
    PROVE  UnlinksItsOwn(q)'
BY DEF UnlinksItsOwn, LinksOf

\* Values that were taken stay taken while no index is passed.
LEMMA TakenStay ==
    ASSUME \A r \in Calls : SlugsAreTaken(r), \A r, q \in Calls : TakenOnce(r, q),
           order' = order, posts' = posts,
           \A q \in Calls : Did(q, "index")' <=> Did(q, "index")
    PROVE  /\ \A r \in Calls : SlugsAreTaken(r)'
           /\ \A r, q \in Calls : TakenOnce(r, q)'
<1>1. \A q \in Calls : Changes(order[q])' = Changes(order[q])
  BY DEF Changes, Exists
<1> QED
  BY <1>1 DEF SlugsAreTaken, TakenOnce, Exists

\* Passing the indexes takes values that no article has, nor another request.
LEMMA IndexTakes ==
    ASSUME EditorialInv, NEW r \in Calls, At(r, "index"), Blockers(r) = {}, Conflicts(r) = {},
           order' = order, posts' = posts,
           \A q \in Calls : Did(q, "index")' <=> Did(q, "index") \/ q = r
    PROVE  /\ \A q \in Calls : SlugsAreTaken(q)'
           /\ \A q1, q2 \in Calls : TakenOnce(q1, q2)'
<1>1. \A q \in Calls : Changes(order[q])' = Changes(order[q])
  BY DEF Changes, Exists
<1>2. Changes(order[r]) \subseteq UniqueColumns
  <2>1. order[r] \in Orders /\ Stands(order[r], "index", did[r])
    BY Standing DEF EditorialInv, At
  <2>2. order[r].do \in {"edit", "create"}
    BY <2>1 DEF Stands
  <2>3. order[r].slugs \in SlugChanges
    BY <2>1, <2>2, OrderKinds
  <2> QED
    BY <2>3, SlugsOfAnOrder DEF Changes, Columns, UniqueColumns
<1>3. ASSUME NEW col \in Changes(order[r]), order[r].slugs[col] # NoSlug,
             NEW p \in PostIds \ {order[r].post}, Exists(p)
      PROVE  posts[p][col] # order[r].slugs[col]
  BY <1>2, <1>3 DEF Conflicts
<1>4. ASSUME NEW q \in Calls \ {r}, Did(q, "index"),
             NEW col \in Changes(order[r]) \cap Changes(order[q]),
             order[r].slugs[col] = order[q].slugs[col]
      PROVE  order[r].slugs[col] = NoSlug
  <2>1. ~WaitsAtPost(r, q)
    BY DEF Blockers
  <2>2. order[r].slugs[col] \notin InDoubt(q, col) \ {NoSlug}
    BY <2>1 DEF WaitsAtPost
  <2>3. order[q].slugs[col] \in InDoubt(q, col)
    BY <1>4 DEF InDoubt
  <2> QED
    BY <1>4, <2>2, <2>3
<1>5. ASSUME NEW q \in Calls
      PROVE  SlugsAreTaken(q)'
  <2>1. SlugsAreTaken(q)
    BY DEF EditorialInv
  <2> QED
    BY <1>1, <1>3, <2>1 DEF SlugsAreTaken, Exists
<1>6. ASSUME NEW q1 \in Calls, NEW q2 \in Calls
      PROVE  TakenOnce(q1, q2)'
  <2>1. TakenOnce(q1, q2)
    BY DEF EditorialInv
  <2> QED
    BY <1>1, <1>4, <2>1 DEF TakenOnce
<1> QED
  BY <1>5, <1>6

\* Find, BEGIN, the insertion of links and the lock of a topic that is renamed
\* change nothing that is at stake.
LEMMA QuietStep ==
    ASSUME EditorialInv, NEW r \in Calls, NEW s \in {"find", "begin", "link", "rename"}, At(r, s),
           Proceed(r), UNCHANGED unlinked
    PROVE  EditorialInv'
<1> USE DEF EditorialInv
<1>1. s \notin Final /\ s \notin {"write", "remove", "unlink", "index"}
  BY DEF Final
<1>2. unlinked' \in [Calls -> SUBSET (PostIds \X TopicIds)]
  BY DEF EditorialTypes
<1>3. /\ EditorialTypes'
      /\ \A q \in Calls : InOrder(q)'
      /\ order' = order /\ posts' = posts /\ links' = links /\ asked' = asked
      /\ \A q \in Calls : \A x : Did(q, x)' <=> Did(q, x) \/ (q = r /\ x = s)
  BY <1>1, <1>2, ProceedingFrame
<1>4. \A q \in Calls : \A x \in {"write", "remove", "unlink", "index"} : Did(q, x)' <=> Did(q, x)
  BY <1>1, <1>3
<1>5. OneOwner'
  BY <1>3, <1>4, OwnersStay
<1>6. \A q \in Calls : UnlinksItsOwn(q)'
  BY <1>3, <1>4, UnlinkedStay
<1>7. /\ \A q \in Calls : SlugsAreTaken(q)'
      /\ \A q1, q2 \in Calls : TakenOnce(q1, q2)'
  BY <1>3, <1>4, TakenStay
<1>8. LinksAreLean' /\ SlugsAreUnique' /\ TopicsAreOneEdits'
  BY <1>3 DEF LinksAreLean, SlugsAreUnique, TopicsAreOneEdits, Exists
<1> QED
  BY <1>3, <1>5, <1>6, <1>7, <1>8

\* UPDATE and DELETE lock the row of an article, or of a topic.
LEMMA LockStep ==
    ASSUME EditorialInv, NEW r \in Calls, NEW s \in {"write", "remove"}, At(r, s),
           Blockers(r) = {},
           order[r].do \in {"edit", "removePost"} => Exists(order[r].post),
           Proceed(r), UNCHANGED unlinked
    PROVE  EditorialInv'
<1> USE DEF EditorialInv
<1>1. s \notin Final /\ s \notin {"unlink", "index"}
  BY DEF Final
<1>2. unlinked' \in [Calls -> SUBSET (PostIds \X TopicIds)]
  BY DEF EditorialTypes
<1>3. /\ EditorialTypes'
      /\ \A q \in Calls : InOrder(q)'
      /\ order' = order /\ posts' = posts /\ links' = links /\ asked' = asked
      /\ \A q \in Calls : \A x : Did(q, x)' <=> Did(q, x) \/ (q = r /\ x = s)
  BY <1>1, <1>2, ProceedingFrame
<1>4. \A q \in Calls : \A x \in {"unlink", "index"} : Did(q, x)' <=> Did(q, x)
  BY <1>1, <1>3
<1>5. OneOwner'
  BY <1>3, LocksAreExclusive
<1>6. \A q \in Calls : UnlinksItsOwn(q)'
  BY <1>3, <1>4, UnlinkedStay
<1>7. /\ \A q \in Calls : SlugsAreTaken(q)'
      /\ \A q1, q2 \in Calls : TakenOnce(q1, q2)'
  BY <1>3, <1>4, TakenStay
<1>8. LinksAreLean' /\ SlugsAreUnique' /\ TopicsAreOneEdits'
  BY <1>3 DEF LinksAreLean, SlugsAreUnique, TopicsAreOneEdits, Exists
<1> QED
  BY <1>3, <1>5, <1>6, <1>7, <1>8

\* The unique indexes are passed.
LEMMA IndexStep ==
    ASSUME EditorialInv, NEW r \in Calls, At(r, "index"), Blockers(r) = {}, Conflicts(r) = {},
           Proceed(r), UNCHANGED unlinked
    PROVE  EditorialInv'
<1> USE DEF EditorialInv
<1>1. "index" \notin Final
  BY DEF Final
<1>2. unlinked' \in [Calls -> SUBSET (PostIds \X TopicIds)]
  BY DEF EditorialTypes
<1>3. /\ EditorialTypes'
      /\ \A q \in Calls : InOrder(q)'
      /\ order' = order /\ posts' = posts /\ links' = links /\ asked' = asked
      /\ \A q \in Calls : \A x : Did(q, x)' <=> Did(q, x) \/ (q = r /\ x = "index")
  BY <1>1, <1>2, ProceedingFrame
<1>4. \A q \in Calls : \A x \in {"write", "remove", "unlink"} : Did(q, x)' <=> Did(q, x)
  BY <1>3
<1>5. OneOwner'
  BY <1>3, <1>4, OwnersStay
<1>6. \A q \in Calls : UnlinksItsOwn(q)'
  BY <1>3, <1>4, UnlinkedStay
<1>7. /\ \A q \in Calls : SlugsAreTaken(q)'
      /\ \A q1, q2 \in Calls : TakenOnce(q1, q2)'
  BY <1>3, IndexTakes
<1>8. LinksAreLean' /\ SlugsAreUnique' /\ TopicsAreOneEdits'
  BY <1>3 DEF LinksAreLean, SlugsAreUnique, TopicsAreOneEdits, Exists
<1> QED
  BY <1>3, <1>5, <1>6, <1>7, <1>8

\* The old links of an article are deleted by its owner.
LEMMA UnlinkStep ==
    ASSUME EditorialInv, NEW r \in Calls, Unlink(r)
    PROVE  EditorialInv'
<1> USE DEF EditorialInv
<1>1. At(r, "unlink") /\ Proceed(r) /\ unlinked' = [unlinked EXCEPT ![r] = Deletes(r)]
  BY DEF Unlink, Runs
<1>2. order[r] \in Orders /\ Stands(order[r], "unlink", did[r])
  BY <1>1, Standing DEF At
<1>3. order[r].do = "edit" /\ Deletes(r) = LinksOf(order[r].post)
  BY <1>1, <1>2 DEF Stands, Deletes
<1>4. LinksOf(order[r].post) \subseteq PostIds \X TopicIds
  BY DEF LinksOf, EditorialTypes
<1>5. /\ unlinked' \in [Calls -> SUBSET (PostIds \X TopicIds)]
      /\ unlinked'[r] = LinksOf(order[r].post)
      /\ \A q \in Calls \ {r} : unlinked'[q] = unlinked[q]
  BY <1>1, <1>3, <1>4 DEF EditorialTypes
<1>6. "unlink" \notin Final
  BY DEF Final
<1>7. /\ EditorialTypes'
      /\ \A q \in Calls : InOrder(q)'
      /\ order' = order /\ posts' = posts /\ links' = links /\ asked' = asked
      /\ \A q \in Calls : \A x : Did(q, x)' <=> Did(q, x) \/ (q = r /\ x = "unlink")
  BY <1>1, <1>5, <1>6, ProceedingFrame
<1>8. \A q \in Calls : \A x \in {"write", "remove", "index"} : Did(q, x)' <=> Did(q, x)
  BY <1>7
<1>9. OneOwner'
  BY <1>7, <1>8, OwnersStay
<1>10. ASSUME NEW q \in Calls
       PROVE  UnlinksItsOwn(q)'
  <2>1. CASE q = r
    BY <1>5, <1>7, <2>1 DEF UnlinksItsOwn, LinksOf
  <2>2. CASE q # r
    <3>1. unlinked'[q] = unlinked[q] /\ (Did(q, "unlink")' <=> Did(q, "unlink"))
      BY <1>5, <1>7, <2>2
    <3> QED
      BY <1>7, <3>1, UnlinkedStay
  <2> QED
    BY <2>1, <2>2
<1>11. /\ \A q \in Calls : SlugsAreTaken(q)'
       /\ \A q1, q2 \in Calls : TakenOnce(q1, q2)'
  BY <1>7, <1>8, TakenStay
<1>12. LinksAreLean' /\ SlugsAreUnique' /\ TopicsAreOneEdits'
  BY <1>7 DEF LinksAreLean, SlugsAreUnique, TopicsAreOneEdits, Exists
<1> QED
  BY <1>7, <1>9, <1>10, <1>11, <1>12

-------------------------------------------------------------------------------
(* Statements that end a request.                                          *)

\* A request that has ended holds nothing, and is nobody's rival.
LEMMA EndingFrame ==
    ASSUME EditorialTypes, \A q \in Calls : InOrder(q),
           NEW r \in Calls, NEW a \in Answers, End(r, a)
    PROVE  /\ order' \in [Calls -> Orders \cup {NoOrder}]
           /\ todo' \in [Calls -> Seq(Names)]
           /\ did' \in [Calls -> SUBSET Names]
           /\ unlinked' \in [Calls -> SUBSET (PostIds \X TopicIds)]
           /\ answer' \in [Calls -> Answers]
           /\ \A q \in Calls : InOrder(q)'
           /\ \A x : ~Did(r, x)'
           /\ order'[r] = NoOrder /\ unlinked'[r] = {}
           /\ \A q \in Calls \ {r} :
                /\ \A x : Did(q, x)' <=> Did(q, x)
                /\ order'[q] = order[q] /\ unlinked'[q] = unlinked[q]
<1>1. /\ order' = [order EXCEPT ![r] = NoOrder]
      /\ todo' = [todo EXCEPT ![r] = <<>>]
      /\ did' = [did EXCEPT ![r] = {}]
      /\ unlinked' = [unlinked EXCEPT ![r] = {}]
      /\ answer' = [answer EXCEPT ![r] = a]
  BY DEF End
<1>2. /\ order' \in [Calls -> Orders \cup {NoOrder}]
      /\ todo' \in [Calls -> Seq(Names)]
      /\ did' \in [Calls -> SUBSET Names]
      /\ unlinked' \in [Calls -> SUBSET (PostIds \X TopicIds)]
      /\ answer' \in [Calls -> Answers]
  BY <1>1 DEF EditorialTypes, Answers
<1>3. order'[r] = NoOrder /\ todo'[r] = <<>> /\ did'[r] = {} /\ unlinked'[r] = {}
  BY <1>1 DEF EditorialTypes
<1>4. \A q \in Calls \ {r} :
        /\ order'[q] = order[q] /\ todo'[q] = todo[q]
        /\ did'[q] = did[q] /\ unlinked'[q] = unlinked[q]
  BY <1>1 DEF EditorialTypes
<1>5. InOrder(r)'
  BY <1>3 DEF InOrder, Active
<1>6. ASSUME NEW q \in Calls \ {r}
      PROVE  InOrder(q)'
  <2>1. InOrder(q)
    OBVIOUS
  <2> QED
    BY <1>4, <2>1, OrderStays
<1>7. \A x : ~Did(r, x)'
  BY <1>3 DEF Did
<1>8. \A q \in Calls \ {r} : \A x : Did(q, x)' <=> Did(q, x)
  BY <1>4 DEF Did
<1> QED
  BY <1>2, <1>3, <1>4, <1>5, <1>6, <1>7, <1>8

(***************************************************************************)
(* The end of a request disturbs nobody, if what it has written is its     *)
(* own: rows of articles that it owns, links of theirs, and in these rows  *)
(* values that were there or that its passing the indexes has taken.       *)
(***************************************************************************)
LEMMA EndStep ==
    ASSUME EditorialInv, NEW r \in Calls, NEW a \in Answers, End(r, a),
           posts' \in [PostIds -> PostRows \cup {NoRow}],
           topics' \in [TopicIds -> Slugs \cup {NoTopic}],
           links' \subseteq PostIds \X TopicIds,
           asked' \in [PostIds -> SUBSET TopicIds],
           \A p \in PostIds : posts'[p] = posts[p] \/ Owns(r, p),
           \A l \in links' : l \in links \/ Owns(r, l[1]),
           \A p \in PostIds : \A col \in Columns : posts'[p] # NoRow =>
               \/ posts'[p][col] = NoSlug
               \/ posts[p] # NoRow /\ posts'[p][col] = posts[p][col]
               \/ /\ Did(r, "index") /\ p = order[r].post /\ col \in Changes(order[r])
                  /\ posts'[p][col] = order[r].slugs[col],
           LinksAreLean', SlugsAreUnique', TopicsAreOneEdits'
    PROVE  EditorialInv'
<1> USE DEF EditorialInv
<1>1. /\ order' \in [Calls -> Orders \cup {NoOrder}]
      /\ todo' \in [Calls -> Seq(Names)]
      /\ did' \in [Calls -> SUBSET Names]
      /\ unlinked' \in [Calls -> SUBSET (PostIds \X TopicIds)]
      /\ answer' \in [Calls -> Answers]
      /\ \A q \in Calls : InOrder(q)'
      /\ \A x : ~Did(r, x)'
      /\ order'[r] = NoOrder /\ unlinked'[r] = {}
      /\ \A q \in Calls \ {r} :
           /\ \A x : Did(q, x)' <=> Did(q, x)
           /\ order'[q] = order[q] /\ unlinked'[q] = unlinked[q]
  BY EndingFrame
<1>2. EditorialTypes'
  BY <1>1 DEF EditorialTypes
<1>3. \A q \in Calls \ {r} : \A p \in PostIds : Owns(q, p) => posts'[p] = posts[p]
  BY DEF OneOwner
<1>4. OneOwner'
  <2>1. \A q \in Calls : \A p \in PostIds :
          /\ LocksPost(q, p)' => LocksPost(q, p) /\ q # r
          /\ Creates(q, p)' => Creates(q, p) /\ q # r
    BY <1>1 DEF LocksPost, Creates, NoOrder
  <2>2. \A q \in Calls : \A p \in PostIds : Owns(q, p)' => Owns(q, p) /\ posts'[p] = posts[p]
    BY <1>3, <2>1 DEF Owns
  <2>3. \A p \in PostIds : \A q1, q2 \in Calls : Owns(q1, p)' /\ Owns(q2, p)' => q1 = q2
    BY <2>2 DEF OneOwner
  <2>4. \A p \in PostIds : \A q \in Calls :
          /\ LocksPost(q, p)' => Exists(p)'
          /\ Creates(q, p)' => ~Exists(p)'
    BY <2>1, <2>2 DEF OneOwner, Owns, Exists
  <2> QED
    BY <2>3, <2>4 DEF OneOwner
<1>5. ASSUME NEW q \in Calls
      PROVE  UnlinksItsOwn(q)'
  <2>1. CASE q = r
    BY <1>1, <2>1 DEF UnlinksItsOwn
  <2>2. CASE q # r
    <3>1. /\ Did(q, "unlink")' <=> Did(q, "unlink")
          /\ order'[q] = order[q] /\ unlinked'[q] = unlinked[q]
      BY <1>1, <2>2
    <3>2. Did(q, "unlink") =>
            \A l \in links' : l[1] = order[q].post => l \in links
      BY <2>2, Holdings DEF OneOwner, Owns
    <3>3. UnlinksItsOwn(q)
      OBVIOUS
    <3> QED
      BY <3>1, <3>2, <3>3 DEF UnlinksItsOwn, LinksOf
  <2> QED
    BY <2>1, <2>2
<1>6. ASSUME NEW q \in Calls \ {r}, Did(q, "index")
      PROVE  /\ order[q].post \in PostIds
             /\ posts'[order[q].post] = posts[order[q].post]
             /\ Changes(order[q])' = Changes(order[q])
             /\ Did(r, "index") => order[q].post # order[r].post
  <2>1. order[q].post \in PostIds /\ Owns(q, order[q].post)
    BY <1>6, Holdings
  <2>2. posts'[order[q].post] = posts[order[q].post]
    BY <1>3, <2>1
  <2>3. Changes(order[q])' = Changes(order[q])
    BY <1>1, <2>2 DEF Changes, Exists
  <2>4. Did(r, "index") => Owns(r, order[r].post)
    BY Holdings
  <2> QED
    BY <2>1, <2>2, <2>3, <2>4 DEF OneOwner
<1>7. ASSUME NEW q \in Calls
      PROVE  SlugsAreTaken(q)'
  <2>1. CASE q = r \/ ~Did(q, "index")
    BY <1>1, <2>1 DEF SlugsAreTaken
  <2>2. CASE q # r /\ Did(q, "index")
    <3>1. order'[q] = order[q] /\ Changes(order[q])' = Changes(order[q])
      BY <1>1, <1>6, <2>2
    <3>2. ASSUME NEW col \in Changes(order[q]), NEW p \in PostIds \ {order[q].post},
                 order[q].slugs[col] # NoSlug, posts'[p] # NoRow
          PROVE  posts'[p][col] # order[q].slugs[col]
      <4>1. col \in Columns
        <5>1. order[q] \in Orders
          BY <2>2, Holdings
        <5>2. order[q].do \in {"edit", "create"}
          BY <2>2, Holdings
        <5> QED
          BY <5>1, <5>2, OrderKinds, SlugsOfAnOrder DEF Changes
      <4>2. CASE posts[p] # NoRow /\ posts'[p][col] = posts[p][col]
        BY <2>2, <3>2, <4>2 DEF SlugsAreTaken, Exists
      <4>3. CASE /\ Did(r, "index") /\ p = order[r].post /\ col \in Changes(order[r])
                 /\ posts'[p][col] = order[r].slugs[col]
        <5>1. TakenOnce(q, r)
          OBVIOUS
        <5> QED
          BY <2>2, <3>2, <4>3, <5>1 DEF TakenOnce
      <4> QED
        BY <3>2, <4>1, <4>2, <4>3
    <3> QED
      BY <3>1, <3>2 DEF SlugsAreTaken, Exists
  <2> QED
    BY <2>1, <2>2
<1>8. ASSUME NEW q1 \in Calls, NEW q2 \in Calls
      PROVE  TakenOnce(q1, q2)'
  <2>1. CASE q1 = r \/ q2 = r \/ ~Did(q1, "index") \/ ~Did(q2, "index")
    BY <1>1, <2>1 DEF TakenOnce
  <2>2. CASE q1 # r /\ q2 # r /\ Did(q1, "index") /\ Did(q2, "index")
    <3>1. TakenOnce(q1, q2)
      OBVIOUS
    <3>2. /\ order'[q1] = order[q1] /\ order'[q2] = order[q2]
          /\ Changes(order[q1])' = Changes(order[q1])
          /\ Changes(order[q2])' = Changes(order[q2])
      BY <1>1, <1>6, <2>2
    <3> QED
      BY <2>2, <3>1, <3>2 DEF TakenOnce
  <2> QED
    BY <2>1, <2>2
<1> QED
  BY <1>1, <1>2, <1>4, <1>5, <1>7, <1>8

\* A roll-back, and what changes a topic only.
LEMMA NothingWritten ==
    ASSUME EditorialInv, NEW r \in Calls, NEW a \in Answers, End(r, a),
           posts' = posts, links' = links, asked' = asked,
           topics' \in [TopicIds -> Slugs \cup {NoTopic}]
    PROVE  EditorialInv'
<1>1. LinksAreLean' /\ SlugsAreUnique' /\ TopicsAreOneEdits'
  BY DEF EditorialInv, LinksAreLean, SlugsAreUnique, TopicsAreOneEdits, Exists
<1>2. /\ posts' \in [PostIds -> PostRows \cup {NoRow}]
      /\ links' \subseteq PostIds \X TopicIds
      /\ asked' \in [PostIds -> SUBSET TopicIds]
  BY DEF EditorialInv, EditorialTypes
<1> QED
  BY <1>1, <1>2, EndStep

\* A roll-back writes nothing.
LEMMA RollBackStep ==
    ASSUME EditorialInv, NEW r \in Calls, NEW a \in Answers, RollBack(r, a)
    PROVE  EditorialInv'
BY NothingWritten DEF RollBack, tables, EditorialInv, EditorialTypes

\* A topic is added or renamed, or its slug is taken.
LEMMA SetTopicStep ==
    ASSUME EditorialInv, NEW r \in Calls, SetTopic(r)
    PROVE  EditorialInv'
<1>1. At(r, "check")
  BY DEF SetTopic, Runs
<1>2. order[r] \in Orders /\ order[r].do \in {"addTopic", "renameTopic"}
  BY <1>1, Standing DEF EditorialInv, At, Stands
<1>3. order[r].topic \in TopicIds /\ order[r].slug \in Slugs
  BY <1>2, OrderKinds
<1>4. CASE RollBack(r, "failed")
  BY <1>4, RollBackStep DEF Answers
<1>5. CASE /\ topics' = [topics EXCEPT ![order[r].topic] = order[r].slug]
           /\ Commits(r)
           /\ UNCHANGED <<posts, links, asked>>
  <2>1. topics' \in [TopicIds -> Slugs \cup {NoTopic}]
    BY <1>3, <1>5 DEF EditorialInv, EditorialTypes
  <2>2. PICK a \in Answers : End(r, a)
    BY <1>5 DEF Commits, Answers
  <2> QED
    BY <1>5, <2>1, <2>2, NothingWritten
<1> QED
  BY <1>4, <1>5 DEF SetTopic

\* The row that a request leaves behind.
LEMMA RowsAreRows ==
    ASSUME EditorialTypes, NEW o \in Orders, o.do \in {"edit", "create"},
           o.do = "edit" => Exists(o.post)
    PROVE  /\ NewRow(o) \in PostRows
           /\ \A col \in Columns :
                \/ NewRow(o)[col] = NoSlug
                \/ Exists(o.post) /\ NewRow(o)[col] = posts[o.post][col]
                \/ col \in Changes(o) /\ NewRow(o)[col] = o.slugs[col]
<1>1. /\ o.post \in PostIds /\ o.slugs \in SlugChanges
      /\ o.do = "create" => "slug" \in DOMAIN o.slugs
  BY OrderKinds
<1>2. Exists(o.post) => posts[o.post] \in PostRows
  BY <1>1 DEF EditorialTypes, Exists
<1>3. \A col \in DOMAIN o.slugs :
        /\ o.slugs[col] \in Slugs \cup {NoSlug}
        /\ col = "slug" => o.slugs[col] \in Slugs
  BY <1>1, SlugsOfAnOrder
<1>4. NewRow(o)["slug"] \in Slugs
  BY <1>1, <1>2, <1>3 DEF NewRow, PostRows, Columns
<1>5. NewRow(o)["slugEn"] \in Slugs \cup {NoSlug}
  BY <1>1, <1>2, <1>3 DEF NewRow, PostRows, Columns
<1>6. NewRow(o) \in PostRows
  BY <1>4, <1>5 DEF NewRow, PostRows, Columns
<1>7. ASSUME NEW col \in Columns
      PROVE  \/ NewRow(o)[col] = NoSlug
             \/ Exists(o.post) /\ NewRow(o)[col] = posts[o.post][col]
             \/ col \in Changes(o) /\ NewRow(o)[col] = o.slugs[col]
  BY DEF NewRow, Changes
<1> QED
  BY <1>6, <1>7

\* Who commits owns its article, has its slugs, and has deleted the old links.
LEMMA CommitStep ==
    ASSUME EditorialInv, NEW r \in Calls, Commit(r)
    PROVE  EditorialInv'
<1> DEFINE o == order[r]
           p == order[r].post
           wanted == IF o.topics = Keep THEN {} ELSE o.topics
<1> USE DEF EditorialInv
<1>1. /\ At(r, "reread")
      /\ posts' = [posts EXCEPT ![p] = NewRow(o)]
      /\ links' = (links \ unlinked[r]) \cup ({p} \X wanted)
      /\ asked' = IF o.topics = Keep THEN asked ELSE [asked EXCEPT ![p] = wanted]
      /\ topics' = topics
  BY DEF Commit, Runs
<1>2. PICK a \in Answers : End(r, a)
  BY DEF Commit, Commits, Answers
<1>3. o \in Orders /\ Stands(o, "reread", did[r])
  BY <1>1, Standing DEF At
<1>4. /\ o.do \in {"edit", "create"}
      /\ Did(r, "index")
      /\ o.do = "edit" => (Did(r, "unlink") <=> o.topics # Keep)
      /\ o.do = "create" => ~Did(r, "unlink")
  BY <1>3 DEF Stands, Written, Did
<1>5. /\ p \in PostIds /\ Owns(r, p)
      /\ o.do = "edit" => Exists(p)
      /\ o.do = "create" => ~Exists(p)
  BY <1>4, Holdings DEF OneOwner, Creates
<1>6. o.topics \in {Keep} \cup SUBSET TopicIds /\ wanted \subseteq TopicIds
  BY <1>3, <1>4, OrderKinds
<1>7. /\ NewRow(o) \in PostRows
      /\ \A col \in Columns :
           \/ NewRow(o)[col] = NoSlug
           \/ Exists(p) /\ NewRow(o)[col] = posts[p][col]
           \/ col \in Changes(o) /\ NewRow(o)[col] = o.slugs[col]
  BY <1>3, <1>4, <1>5, RowsAreRows
<1>8. /\ posts'[p] = NewRow(o) /\ posts'[p] # NoRow
      /\ \A x \in PostIds \ {p} : posts'[x] = posts[x]
  BY <1>1, <1>5, <1>7, EditorialAssumption DEF EditorialTypes
<1>9. /\ posts' \in [PostIds -> PostRows \cup {NoRow}]
      /\ topics' \in [TopicIds -> Slugs \cup {NoTopic}]
      /\ links' \subseteq PostIds \X TopicIds
      /\ asked' \in [PostIds -> SUBSET TopicIds]
  BY <1>1, <1>5, <1>6, <1>7 DEF EditorialTypes
<1>10. UnlinksItsOwn(r)
  OBVIOUS
<1>11. /\ \A x \in PostIds : posts'[x] = posts[x] \/ Owns(r, x)
       /\ \A l \in links' : l \in links \/ Owns(r, l[1])
  BY <1>1, <1>5, <1>8
<1>12. \A x \in PostIds : \A col \in Columns : posts'[x] # NoRow =>
           \/ posts'[x][col] = NoSlug
           \/ posts[x] # NoRow /\ posts'[x][col] = posts[x][col]
           \/ /\ Did(r, "index") /\ x = p /\ col \in Changes(o)
              /\ posts'[x][col] = o.slugs[col]
  BY <1>4, <1>7, <1>8 DEF Exists
<1>13. LinksAreLean'
  BY <1>1, <1>8, <1>9 DEF LinksAreLean, Exists
<1>14. SlugsAreUnique'
  <2>1. ASSUME NEW x \in PostIds \ {p}, NEW col \in Columns, posts[x] # NoRow,
               posts[x][col] = NewRow(o)[col], NewRow(o)[col] # NoSlug
        PROVE  FALSE
    <3>1. CASE Exists(p) /\ NewRow(o)[col] = posts[p][col]
      BY <1>5, <2>1, <3>1 DEF SlugsAreUnique, Exists
    <3>2. CASE col \in Changes(o) /\ NewRow(o)[col] = o.slugs[col]
      <4>1. SlugsAreTaken(r)
        OBVIOUS
      <4> QED
        BY <1>4, <2>1, <3>2, <4>1 DEF SlugsAreTaken, Exists
    <3> QED
      BY <1>7, <2>1, <3>1, <3>2
  <2> QED
    BY <1>5, <1>8, <2>1 DEF SlugsAreUnique, Exists
<1>15. TopicsAreOneEdits'
  <2>1. ASSUME NEW x \in PostIds \ {p}
        PROVE  {t \in TopicIds : <<x, t>> \in links'} = asked'[x]
    <3>1. \A t \in TopicIds : <<x, t>> \in links' <=> <<x, t>> \in links
      BY <1>1, <1>10 DEF UnlinksItsOwn
    <3>2. asked'[x] = asked[x]
      BY <1>1 DEF EditorialTypes
    <3> QED
      BY <3>1, <3>2 DEF TopicsAreOneEdits
  <2>2. CASE o.topics = Keep
    <3>1. unlinked[r] = {}
      BY <1>4, <1>10, <2>2 DEF UnlinksItsOwn
    <3>2. links' = links /\ asked' = asked
      BY <1>1, <2>2, <3>1
    <3> QED
      BY <3>2 DEF TopicsAreOneEdits
  <2>3. CASE o.topics # Keep
    <3>1. \A t \in TopicIds : <<p, t>> \in links => <<p, t>> \in unlinked[r]
      <4>1. CASE o.do = "edit"
        BY <1>4, <1>10, <2>3, <4>1 DEF UnlinksItsOwn, LinksOf
      <4>2. CASE o.do = "create"
        BY <1>5, <4>2 DEF LinksAreLean
      <4> QED
        BY <1>4, <4>1, <4>2
    <3>2. asked'[p] = o.topics /\ wanted = o.topics
      BY <1>1, <1>5, <2>3 DEF EditorialTypes
    <3>3. \A t \in TopicIds : <<p, t>> \in links' <=> t \in o.topics
      BY <1>1, <3>1, <3>2
    <3>4. {t \in TopicIds : <<p, t>> \in links'} = asked'[p]
      BY <1>6, <2>3, <3>2, <3>3
    <3> QED
      BY <2>1, <3>4 DEF TopicsAreOneEdits
  <2> QED
    BY <2>2, <2>3
<1> QED
  BY <1>2, <1>9, <1>11, <1>12, <1>13, <1>14, <1>15, EndStep

\* A row goes with its links.
LEMMA CascadeStep ==
    ASSUME EditorialInv, NEW r \in Calls, Cascade(r)
    PROVE  EditorialInv'
<1> DEFINE o == order[r]
<1> USE DEF EditorialInv
<1>1. /\ At(r, "cascade")
      /\ links' = links \ Deletes(r)
      /\ IF o.do = "removePost"
         THEN /\ posts' = [posts EXCEPT ![o.post] = NoRow]
              /\ asked' = [asked EXCEPT ![o.post] = {}]
              /\ topics' = topics
         ELSE /\ topics' = [topics EXCEPT ![o.topic] = NoTopic]
              /\ asked' = [x \in PostIds |-> asked[x] \ {o.topic}]
              /\ posts' = posts
  BY DEF Cascade, Runs
<1>2. PICK a \in Answers : End(r, a)
  BY DEF Cascade, Commits, Answers
<1>3. o \in Orders /\ Stands(o, "cascade", did[r])
  BY <1>1, Standing DEF At
<1>4. o.do \in {"removePost", "removeTopic"} /\ Did(r, "remove")
  BY <1>3 DEF Stands, Did
<1>5. CASE o.do = "removePost"
  <2>1. o.post \in PostIds /\ Owns(r, o.post)
    BY <1>3, <1>4, <1>5, OrderKinds DEF Owns, LocksPost
  <2>2. links' = links \ LinksOf(o.post)
    BY <1>1, <1>5 DEF Deletes
  <2>3. /\ posts'[o.post] = NoRow /\ \A x \in PostIds \ {o.post} : posts'[x] = posts[x]
        /\ asked'[o.post] = {} /\ \A x \in PostIds \ {o.post} : asked'[x] = asked[x]
    BY <1>1, <1>5, <2>1 DEF EditorialTypes
  <2>4. /\ posts' \in [PostIds -> PostRows \cup {NoRow}]
        /\ topics' \in [TopicIds -> Slugs \cup {NoTopic}]
        /\ links' \subseteq PostIds \X TopicIds
        /\ asked' \in [PostIds -> SUBSET TopicIds]
    BY <1>1, <1>5, <2>1, <2>2 DEF EditorialTypes
  <2>5. LinksAreLean'
    BY <2>2, <2>3, <2>4 DEF LinksAreLean, LinksOf, Exists
  <2>6. SlugsAreUnique'
    BY <2>3 DEF SlugsAreUnique, Exists
  <2>7. TopicsAreOneEdits'
    <3>1. ASSUME NEW x \in PostIds
          PROVE  {t \in TopicIds : <<x, t>> \in links'} = asked'[x]
      <4>1. CASE x = o.post
        BY <2>2, <2>3, <4>1 DEF LinksOf
      <4>2. CASE x # o.post
        BY <2>2, <2>3, <4>2 DEF LinksOf, TopicsAreOneEdits
      <4> QED
        BY <4>1, <4>2
    <3> QED
      BY <3>1 DEF TopicsAreOneEdits
  <2>8. /\ \A x \in PostIds : posts'[x] = posts[x] \/ Owns(r, x)
        /\ \A l \in links' : l \in links \/ Owns(r, l[1])
        /\ \A x \in PostIds : \A col \in Columns : posts'[x] # NoRow =>
             posts[x] # NoRow /\ posts'[x][col] = posts[x][col]
    BY <2>1, <2>2, <2>3
  <2> QED
    BY <1>2, <2>4, <2>5, <2>6, <2>7, <2>8, EndStep
<1>6. CASE o.do = "removeTopic"
  <2>1. o.topic \in TopicIds
    BY <1>3, <1>6, OrderKinds
  <2>2. links' = links \ LinksTo(o.topic) /\ posts' = posts
    BY <1>1, <1>6 DEF Deletes
  <2>3. asked' = [x \in PostIds |-> asked[x] \ {o.topic}]
    BY <1>1, <1>6
  <2>4. /\ posts' \in [PostIds -> PostRows \cup {NoRow}]
        /\ topics' \in [TopicIds -> Slugs \cup {NoTopic}]
        /\ links' \subseteq PostIds \X TopicIds
        /\ asked' \in [PostIds -> SUBSET TopicIds]
    BY <1>1, <1>6, <2>1, <2>2, <2>3 DEF EditorialTypes
  <2>5. LinksAreLean' /\ SlugsAreUnique'
    BY <2>2 DEF LinksAreLean, SlugsAreUnique, Exists
  <2>6. ASSUME NEW x \in PostIds
        PROVE  {t \in TopicIds : <<x, t>> \in links'} = asked'[x]
    <3>1. asked'[x] = asked[x] \ {o.topic}
      BY <2>3
    <3>2. \A t \in TopicIds : <<x, t>> \in links' <=> <<x, t>> \in links /\ t # o.topic
      BY <2>2 DEF LinksTo
    <3> QED
      BY <3>1, <3>2 DEF TopicsAreOneEdits
  <2>7. TopicsAreOneEdits'
    BY <2>6 DEF TopicsAreOneEdits
  <2>8. /\ \A x \in PostIds : posts'[x] = posts[x]
        /\ \A l \in links' : l \in links
    BY <2>2
  <2> QED
    BY <1>2, <2>4, <2>5, <2>7, <2>8, EndStep
<1> QED
  BY <1>4, <1>5, <1>6

-------------------------------------------------------------------------------
(* The invariant.                                                          *)

\* A new request holds nothing yet, and a new article is nobody else's.
LEMMA StartStep ==
    ASSUME EditorialInv, NEW r \in Calls, NEW o \in Orders, Start(r, o)
    PROVE  EditorialInv'
<1> USE DEF EditorialInv
<1>1. /\ ~Active(r)
      /\ order' = [order EXCEPT ![r] = o]
      /\ todo' = [todo EXCEPT ![r] = Statements(o)]
      /\ posts' = posts /\ topics' = topics /\ links' = links
      /\ did' = did /\ unlinked' = unlinked /\ answer' = answer /\ asked' = asked
      /\ o.do = "create" =>
           ~Exists(o.post) /\ \A q \in Calls : order[q].do = "create" => order[q].post # o.post
  BY DEF Start, tables
<1>2. order[r] = NoOrder /\ did[r] = {} /\ unlinked[r] = {}
  BY <1>1 DEF InOrder
<1>3. order'[r] = o /\ todo'[r] = Statements(o)
  BY <1>1 DEF EditorialTypes
<1>4. \A q \in Calls \ {r} : order'[q] = order[q] /\ todo'[q] = todo[q]
  BY <1>1 DEF EditorialTypes
<1>5. Len(Statements(o)) > 0 /\ Statements(o) \in Seq(Names)
  BY ListsAreLists
<1>6. EditorialTypes'
  BY <1>1, <1>5 DEF EditorialTypes
<1>7. InOrder(r)'
  <2>1. Statements(o) # <<>> /\ Statements(o) = SubSeq(Statements(o), 1, Len(Statements(o)))
    BY <1>5, WholeLists
  <2>2. {Statements(o)[j] : j \in 1 .. 1 - 1} = {}
    OBVIOUS
  <2>3. AtStatement(r, 1)'
    BY <1>1, <1>2, <1>3, <1>5, <2>1, <2>2 DEF AtStatement
  <2> QED
    BY <1>3, <2>1, <2>3 DEF InOrder, Active
<1>8. ASSUME NEW q \in Calls \ {r}
      PROVE  InOrder(q)'
  <2>1. InOrder(q) /\ did'[q] = did[q] /\ unlinked'[q] = unlinked[q]
    BY <1>1
  <2> QED
    BY <1>4, <2>1, OrderStays
<1>9. \A q \in Calls : \A x :
        /\ Did(q, x)' <=> Did(q, x)
        /\ ~Did(r, x)
  BY <1>1, <1>2 DEF Did
<1>10. OneOwner'
  <2>1. \A q \in Calls : \A p \in PostIds :
          /\ LocksPost(q, p)' <=> LocksPost(q, p)
          /\ Creates(q, p)' => Creates(q, p) \/ (q = r /\ o.do = "create" /\ p = o.post)
    BY <1>3, <1>4, <1>9 DEF LocksPost, Creates
  <2>2. o.do = "create" => \A q \in Calls : ~Owns(q, o.post)
    <3>1. o.do = "create" => o.post \in PostIds
      BY OrderKinds
    <3> QED
      BY <1>1, <3>1 DEF OneOwner, Owns, Creates
  <2>3. \A q \in Calls : \A p \in PostIds :
          Owns(q, p)' => Owns(q, p) \/ (q = r /\ o.do = "create" /\ p = o.post)
    BY <2>1 DEF Owns
  <2>4. \A p \in PostIds : \A q1, q2 \in Calls : Owns(q1, p)' /\ Owns(q2, p)' => q1 = q2
    BY <2>2, <2>3 DEF OneOwner
  <2>5. \A p \in PostIds : \A q \in Calls :
          /\ LocksPost(q, p)' => Exists(p)'
          /\ Creates(q, p)' => ~Exists(p)'
    BY <1>1, <2>1 DEF OneOwner, Exists
  <2> QED
    BY <2>4, <2>5 DEF OneOwner
<1>11. ASSUME NEW q \in Calls
       PROVE  UnlinksItsOwn(q)'
  BY <1>1, <1>2, <1>4, <1>9 DEF UnlinksItsOwn, LinksOf
<1>12. ASSUME NEW q \in Calls
       PROVE  SlugsAreTaken(q)'
  BY <1>1, <1>4, <1>9 DEF SlugsAreTaken, Changes, Exists
<1>13. ASSUME NEW q1 \in Calls, NEW q2 \in Calls
       PROVE  TakenOnce(q1, q2)'
  BY <1>1, <1>4, <1>9 DEF TakenOnce, Changes, Exists
<1>14. LinksAreLean' /\ SlugsAreUnique' /\ TopicsAreOneEdits'
  BY <1>1 DEF LinksAreLean, SlugsAreUnique, TopicsAreOneEdits, Exists
<1> QED
  BY <1>6, <1>7, <1>8, <1>10, <1>11, <1>12, <1>13, <1>14

\* The invariant holds at first ...
LEMMA EditorialStarts == EditorialInit => EditorialInv
<1> SUFFICES ASSUME EditorialInit PROVE EditorialInv
  OBVIOUS
<1> USE DEF EditorialInit
<1>1. EditorialTypes
  <2>1. asked \in [PostIds -> SUBSET TopicIds]
    OBVIOUS
  <2>2. links \subseteq PostIds \X TopicIds
    BY EditorialAssumption
  <2>3. <<>> \in Seq(Names)
    OBVIOUS
  <2> QED
    BY <2>1, <2>2, <2>3, EditorialAssumption DEF EditorialTypes, Answers
<1>2. \A q \in Calls : todo[q] = <<>> /\ order[q] = NoOrder /\ did[q] = {} /\ unlinked[q] = {}
  OBVIOUS
<1>3. \A q \in Calls : InOrder(q)
  BY <1>2 DEF InOrder, Active
<1>4. \A q \in Calls : \A x : ~Did(q, x)
  BY <1>2 DEF Did
<1>5. OneOwner
  BY <1>2, <1>4 DEF OneOwner, Owns, LocksPost, Creates, NoOrder
<1>6. LinksAreLean /\ SlugsAreUnique
  BY EditorialAssumption DEF LinksAreLean, SlugsAreUnique, Exists
<1>7. \A q \in Calls : UnlinksItsOwn(q) /\ SlugsAreTaken(q)
  BY <1>2, <1>4 DEF UnlinksItsOwn, SlugsAreTaken
<1>8. \A q1, q2 \in Calls : TakenOnce(q1, q2)
  BY <1>4 DEF TakenOnce
<1>9. TopicsAreOneEdits
  BY DEF TopicsAreOneEdits
<1> QED
  BY <1>1, <1>3, <1>5, <1>6, <1>7, <1>8, <1>9 DEF EditorialInv

\* A statement of a request keeps the invariant.
LEMMA StatementsKeepIt ==
    ASSUME EditorialInv, NEW r \in Calls, Step(r)
    PROVE  EditorialInv'
<1>1. {"not_found", "failed", "conflict"} \subseteq Answers
  BY DEF Answers
<1>2. CASE Find(r)
  <2>1. /\ At(r, "find")
        /\ (Proceed(r) /\ UNCHANGED unlinked) \/ RollBack(r, "not_found")
    BY <1>2 DEF Find, Runs, ThenOrNotFound
  <2> QED
    BY <1>1, <2>1, QuietStep, RollBackStep
<1>3. CASE Begin(r)
  BY <1>3, QuietStep DEF Begin, Runs
<1>4. CASE Write(r)
  <2>1. At(r, "write") /\ Blockers(r) = {}
    BY <1>4 DEF Write, Runs
  <2>2. \/ Exists(order[r].post) /\ Proceed(r) /\ UNCHANGED unlinked
        \/ RollBack(r, "not_found")
    BY <1>4 DEF Write, ThenOrNotFound
  <2>3. CASE RollBack(r, "not_found")
    BY <1>1, <2>3, RollBackStep
  <2>4. CASE Exists(order[r].post) /\ Proceed(r) /\ UNCHANGED unlinked
    BY <2>1, <2>4, LockStep
  <2> QED
    BY <2>2, <2>3, <2>4
<1>5. CASE Index(r)
  <2>1. At(r, "index") /\ Blockers(r) = {}
    BY <1>5 DEF Index, Runs
  <2>2. \/ Conflicts(r) = {} /\ Proceed(r) /\ UNCHANGED unlinked
        \/ RollBack(r, "conflict")
    BY <1>5 DEF Index
  <2> QED
    BY <1>1, <2>1, <2>2, IndexStep, RollBackStep
<1>6. CASE Unlink(r)
  BY <1>6, UnlinkStep
<1>7. CASE Link(r)
  <2>1. /\ At(r, "link")
        /\ (Proceed(r) /\ UNCHANGED unlinked) \/ RollBack(r, "failed")
    BY <1>7 DEF Link, Runs
  <2> QED
    BY <1>1, <2>1, QuietStep, RollBackStep
<1>8. CASE Commit(r)
  BY <1>8, CommitStep
<1>9. CASE DeleteRow(r)
  <2>1. At(r, "remove") /\ Blockers(r) = {}
    BY <1>9 DEF DeleteRow, Runs
  <2>2. \/ /\ order[r].do = "removePost" => Exists(order[r].post)
           /\ Proceed(r) /\ UNCHANGED unlinked
        \/ RollBack(r, "not_found")
    BY <1>9 DEF DeleteRow, ThenOrNotFound
  <2>3. order[r].do # "edit"
    BY <2>1, Standing DEF EditorialInv, At, Stands
  <2>4. CASE RollBack(r, "not_found")
    BY <1>1, <2>4, RollBackStep
  <2>5. CASE /\ order[r].do = "removePost" => Exists(order[r].post)
             /\ Proceed(r) /\ UNCHANGED unlinked
    BY <2>1, <2>3, <2>5, LockStep
  <2> QED
    BY <2>2, <2>4, <2>5
<1>10. CASE Cascade(r)
  BY <1>10, CascadeStep
<1>11. CASE RenameTopic(r)
  <2>1. /\ At(r, "rename")
        /\ (Proceed(r) /\ UNCHANGED unlinked) \/ RollBack(r, "not_found")
    BY <1>11 DEF RenameTopic, Runs, ThenOrNotFound
  <2> QED
    BY <1>1, <2>1, QuietStep, RollBackStep
<1>12. CASE SetTopic(r)
  BY <1>12, SetTopicStep
<1>13. CASE Deadlocked(r)
  BY <1>1, <1>13, RollBackStep DEF Deadlocked
<1> QED
  BY <1>2, <1>3, <1>4, <1>5, <1>6, <1>7, <1>8, <1>9, <1>10, <1>11, <1>12, <1>13 DEF Step

\* ... while nothing happens ...
LEMMA EditorialStaysTheSame ==
    ASSUME EditorialInv, UNCHANGED editorialVars
    PROVE  EditorialInv'
<1>1. /\ posts' = posts /\ topics' = topics /\ links' = links /\ order' = order
      /\ todo' = todo /\ did' = did /\ unlinked' = unlinked /\ answer' = answer
      /\ asked' = asked
  BY DEF editorialVars, tables
<1> USE DEF EditorialInv
<1>2. EditorialTypes' /\ LinksAreLean' /\ SlugsAreUnique' /\ TopicsAreOneEdits'
  BY <1>1 DEF EditorialTypes, LinksAreLean, SlugsAreUnique, TopicsAreOneEdits, Exists
<1>3. \A q \in Calls : \A x : Did(q, x)' <=> Did(q, x)
  BY <1>1 DEF Did
<1>4. ASSUME NEW q \in Calls
      PROVE  InOrder(q)'
  <2>1. /\ InOrder(q)
        /\ todo'[q] = todo[q] /\ did'[q] = did[q]
        /\ order'[q] = order[q] /\ unlinked'[q] = unlinked[q]
    BY <1>1
  <2> QED
    BY <2>1, OrderStays
<1>5. OneOwner'
  BY <1>1, <1>3, OwnersStay
<1>6. \A q \in Calls : UnlinksItsOwn(q)'
  BY <1>1, <1>3, UnlinkedStay
<1>7. /\ \A q \in Calls : SlugsAreTaken(q)'
      /\ \A q1, q2 \in Calls : TakenOnce(q1, q2)'
  BY <1>1, <1>3, TakenStay
<1> QED
  BY <1>2, <1>4, <1>5, <1>6, <1>7

\* ... and after every step.
LEMMA EditorialProceeds ==
    ASSUME EditorialInv, [EditorialNext]_editorialVars
    PROVE  EditorialInv'
<1>1. \A a \in {"failed"} : a \in Answers
  BY DEF Answers
<1>2. ASSUME NEW r \in Calls, Fails(r)
      PROVE  EditorialInv'
  BY <1>1, <1>2, RollBackStep DEF Fails
<1>3. CASE EditorialNext
  BY <1>2, <1>3, StatementsKeepIt, StartStep, EditorialStaysTheSame DEF EditorialNext, AllAnswered
<1> QED
  BY <1>3, EditorialStaysTheSame

(***************************************************************************)
(* Rows, requests and locks are as EditorialInv says, for any number of    *)
(* requests, articles, topics and slugs, and any orders.                   *)
(***************************************************************************)
THEOREM EditorialInvariant == EditorialSpec => []EditorialInv
BY EditorialStarts, EditorialProceeds, PTL DEF EditorialSpec

\* The types of Editorial.
THEOREM EditorialTypesHold == EditorialSpec => []EditorialTypes
<1>1. EditorialInv => EditorialTypes
  BY DEF EditorialInv
<1> QED
  BY <1>1, EditorialInvariant, PTL

(***************************************************************************)
(* An article has the topics of one edit: two edits of it never mix theirs *)
(* (posts.service.ts 186-210).                                             *)
(***************************************************************************)
THEOREM EditorialTopicsAreOneEdits == EditorialSpec => []TopicsAreOneEdits
<1>1. EditorialInv => TopicsAreOneEdits
  BY DEF EditorialInv
<1> QED
  BY <1>1, EditorialInvariant, PTL

(***************************************************************************)
(* Two articles that answer to one address do so one by a slug of its own  *)
(* and the other by falling back (posts.service.ts 139-162).               *)
(***************************************************************************)
LEMMA UniqueSlugsCollideByFallback == EditorialInv => OnlyFallbacksCollide
<1> SUFFICES ASSUME EditorialInv, NEW address \in Slugs,
                    NEW p \in Reached(address), NEW q \in Reached(address), p # q
             PROVE  {posts[p].slugEn, posts[q].slugEn} = {address, NoSlug}
  BY DEF OnlyFallbacksCollide
<1>1. p \in PostIds /\ q \in PostIds /\ Exists(p) /\ Exists(q)
  BY DEF Reached
<1>2. NoSlug # address
  BY EditorialAssumption
<1>3. ~(posts[p].slugEn = address /\ posts[q].slugEn = address)
  BY <1>1, <1>2 DEF EditorialInv, SlugsAreUnique, Columns
<1>4. ~(posts[p].slug = address /\ posts[q].slug = address)
  BY <1>1, <1>2 DEF EditorialInv, SlugsAreUnique, Columns
<1>5. /\ posts[p].slugEn = address \/ (posts[p].slugEn = NoSlug /\ posts[p].slug = address)
      /\ posts[q].slugEn = address \/ (posts[q].slugEn = NoSlug /\ posts[q].slug = address)
  BY DEF Reached
<1> QED
  BY <1>3, <1>4, <1>5

THEOREM EditorialSlugsStayApart == EditorialSpec => []OnlyFallbacksCollide
BY UniqueSlugsCollideByFallback, EditorialInvariant, PTL

-------------------------------------------------------------------------------
(* Circles of waits.                                                       *)

(***************************************************************************)
(* Whom a request waits for where no topic is being removed: at a row or   *)
(* at the slugs it is about, for somebody who has written.  One who is to  *)
(* change links owns its article and waits for renames only, as does one   *)
(* at the slugs of topics.                                                 *)
(***************************************************************************)
LEMMA WaitsForAWriter ==
    ASSUME EditorialInv, NEW r \in Calls, NEW q \in Blockers(r),
           order[r].do # "removeTopic", order[q].do # "removeTopic"
    PROVE  /\ At(r, "write") \/ At(r, "remove") \/ At(r, "rename") \/ At(r, "index")
              \/ At(r, "check") \/ At(r, "link")
           /\ Did(q, "write") \/ Did(q, "remove") \/ Did(q, "index") \/ Did(q, "link")
              \/ Did(q, "rename")
           /\ At(r, "check") \/ At(r, "link") => Did(q, "rename") /\ order[q].do = "renameTopic"
<1> USE DEF EditorialInv
<1>1. q \in Calls /\ q # r
  BY DEF Blockers
<1>2. \A s : At(r, s) => order[r] \in Orders /\ Stands(order[r], s, did[r])
  BY Standing DEF At
<1>3. At(r, "link") => order[r].post \in PostIds /\ Owns(r, order[r].post)
  <2>1. At(r, "link") => order[r].do = "create" \/ (order[r].do = "edit" /\ Did(r, "write"))
    BY <1>2 DEF Stands, Written, Did
  <2> QED
    BY <1>2, <2>1, OrderKinds DEF Owns, LocksPost, Creates
<1>4. At(r, "link") => ~SharesPost(q, order[r].post) /\ ~LocksPost(q, order[r].post)
  <2>1. SharesPost(q, order[r].post) => Owns(q, order[r].post)
    BY <1>1, Holdings DEF SharesPost
  <2>2. LocksPost(q, order[r].post) => Owns(q, order[r].post)
    BY DEF Owns
  <2> QED
    BY <1>1, <1>3, <2>1, <2>2 DEF OneOwner
<1>5. ~(Did(q, "remove") /\ order[q].do = "removeTopic")
  OBVIOUS
<1>6. CASE WaitsAtPost(r, q)
  <2>1. At(r, "write") \/ At(r, "remove") \/ At(r, "index")
    BY <1>4, <1>6 DEF WaitsAtPost, LocksKey
  <2>2. \/ LocksPost(q, order[r].post) \/ SharesPost(q, order[r].post)
        \/ \E col \in Changes(order[r]) : order[r].slugs[col] \in InDoubt(q, col)
    BY <1>4, <1>6 DEF WaitsAtPost, LocksKey
  <2>3. \A col : InDoubt(q, col) # {} => Did(q, "index") \/ Did(q, "write") \/ Did(q, "remove")
    BY DEF InDoubt, LocksPost
  <2>4. Did(q, "write") \/ Did(q, "remove") \/ Did(q, "index") \/ Did(q, "link")
    BY <2>2, <2>3 DEF LocksPost, SharesPost
  <2>5. ~At(r, "check") /\ ~At(r, "link")
    BY <2>1 DEF At
  <2> QED
    BY <2>1, <2>4, <2>5
<1>7. CASE WaitsAtTopic(r, q)
  <2>1. \A t : LocksTopic(q, t) => order[q].do = "renameTopic" /\ Did(q, "rename")
    BY <1>1, Holdings DEF LocksTopic
  <2>2. \A t : SharesTopic(q, t) => Did(q, "link")
    BY DEF SharesTopic
  <2>3. CASE At(r, "link") /\ \E t \in order[r].topics : LocksTopic(q, t)
    BY <2>1, <2>3
  <2>4. CASE /\ At(r, "remove") \/ At(r, "rename")
             /\ LocksTopic(q, order[r].topic) \/ SharesTopic(q, order[r].topic)
    BY <2>1, <2>2, <2>4 DEF At
  <2>5. CASE At(r, "check") /\ order[r].slug \in TopicsInDoubt(q)
    BY <2>1, <2>5 DEF TopicsInDoubt
  <2> QED
    BY <1>7, <2>3, <2>4, <2>5 DEF WaitsAtTopic
<1>8. ~(Deletes(r) \cap unlinked[q] # {})
  <2>1. SUFFICES ASSUME NEW l \in Deletes(r), l \in unlinked[q] PROVE FALSE
    OBVIOUS
  <2>2. (At(r, "unlink") \/ At(r, "cascade")) /\ l[1] = order[r].post
    BY <2>1 DEF Deletes, LinksOf
  <2>3. order[r].post \in PostIds /\ LocksPost(r, order[r].post)
    <3>1. /\ order[r] \in Orders
          /\ \/ order[r].do = "edit" /\ Did(r, "write")
             \/ order[r].do = "removePost" /\ Did(r, "remove")
      BY <1>2, <2>2 DEF Stands, Written, Did
    <3> QED
      BY <3>1, OrderKinds DEF LocksPost
  <2>4. UnlinksItsOwn(q)
    BY <1>1
  <2>5. Did(q, "unlink") /\ l[1] = order[q].post
    BY <2>1, <2>4 DEF UnlinksItsOwn
  <2>6. LocksPost(q, order[r].post)
    BY <1>1, <2>2, <2>5, Holdings
  <2> QED
    BY <1>1, <2>3, <2>6 DEF OneOwner, Owns
<1>9. ~(At(r, "link") /\ SharesPost(q, order[r].post))
  BY <1>4
<1> QED
  BY <1>6, <1>7, <1>8, <1>9 DEF Blockers

\* Who is to lock its first row holds nothing that others wait for, and who has
\* renamed is at the slugs of topics.
LEMMA FirstLocksHoldNothing ==
    ASSUME EditorialInv, NEW r \in Calls, At(r, "write") \/ At(r, "remove") \/ At(r, "rename")
    PROVE  /\ ~Did(r, "write") /\ ~Did(r, "remove") /\ ~Did(r, "index") /\ ~Did(r, "link")
           /\ ~Did(r, "rename")
<1>1. Stands(order[r], Head(todo[r]), did[r]) /\ Head(todo[r]) \in {"write", "remove", "rename"}
  BY Standing DEF EditorialInv, At
<1> QED
  BY <1>1 DEF Stands, Did

LEMMA RenamersAreAtTheCheck ==
    ASSUME EditorialInv, NEW r \in Calls, order[r].do = "renameTopic", Did(r, "rename")
    PROVE  At(r, "check")
<1>1. Active(r)
  BY DEF EditorialInv, InOrder, Did
<1>2. Stands(order[r], Head(todo[r]), did[r])
  BY <1>1, Standing DEF EditorialInv
<1> QED
  BY <1>1, <1>2 DEF Stands, Did, At

(***************************************************************************)
(* In a circle everybody waits for somebody in it, and is waited for.      *)
(***************************************************************************)
LEMMA CirclesClose ==
    ASSUME NEW S \in SUBSET Calls, Knot(S), NEW r \in S
    PROVE  /\ \E q \in S : q \in Blockers(r)
           /\ \E q \in S : r \in Blockers(q)
<1>1. PICK z \in S : z # r
  <2>1. SUFFICES ASSUME S = {r} PROVE FALSE
    OBVIOUS
  <2>2. Cardinality({r}) = 1
    BY FS_Singleton
  <2> QED
    BY <2>1, <2>2 DEF Knot
<1>2. \E q \in {r} : Blockers(q) \cap (S \ {r}) # {}
  <2>1. {r} \in (SUBSET S) \ {{}, S}
    BY <1>1
  <2> QED
    BY <2>1 DEF Knot
<1>3. \E q \in S \ {r} : Blockers(q) \cap (S \ (S \ {r})) # {}
  <2>1. S \ {r} \in (SUBSET S) \ {{}, S}
    BY <1>1
  <2> QED
    BY <2>1 DEF Knot
<1> QED
  BY <1>2, <1>3

(***************************************************************************)
(* Editors fail each other by deadlock only where a topic is being         *)
(* removed, or where all of them wait for each other's slugs, of articles  *)
(* or of topics: nobody holds anything before its first lock, and from one *)
(* who waits at the slugs of topics, waits lead to others who do, and to   *)
(* nobody else (posts.service.ts 186-219, topics.service.ts 30-57).        *)
(***************************************************************************)
LEMMA CirclesHaveACause == EditorialInv => KnotsHaveACause
<1> SUFFICES ASSUME EditorialInv, NEW S \in SUBSET Calls, Knot(S),
                    \A r \in S : order[r].do # "removeTopic"
             PROVE  (\A r \in S : At(r, "index")) \/ (\A r \in S : At(r, "check"))
  BY DEF KnotsHaveACause
<1> DEFINE Checking == {r \in S : At(r, "check")}
<1>1. ASSUME NEW r \in S, At(r, "check") \/ At(r, "link"), NEW q \in Blockers(r) \cap S
      PROVE  q \in Checking
  <2>1. Did(q, "rename") /\ order[q].do = "renameTopic"
    BY <1>1, WaitsForAWriter
  <2> QED
    BY <2>1, RenamersAreAtTheCheck
<1>2. CASE \E r \in S : At(r, "check") \/ At(r, "link")
  <2>1. Checking # {}
    <3>1. PICK r \in S : At(r, "check") \/ At(r, "link")
      BY <1>2
    <3>2. PICK q \in S : q \in Blockers(r)
      BY CirclesClose
    <3>3. q \in Checking
      BY <1>1, <3>1, <3>2
    <3> QED
      BY <3>3
  <2>2. \A r \in Checking : Blockers(r) \cap (S \ Checking) = {}
    BY <1>1
  <2>3. Checking \in SUBSET S
    OBVIOUS
  <2>4. Checking = S
    <3> HIDE DEF Checking
    <3> QED
      BY <2>1, <2>2, <2>3 DEF Knot
  <2> QED
    BY <2>4
<1>3. CASE \A r \in S : ~At(r, "check") /\ ~At(r, "link")
  <2>1. ASSUME NEW r \in S
        PROVE  At(r, "index")
    <3>1. PICK a \in S : a \in Blockers(r)
      BY CirclesClose
    <3>2. PICK b \in S : r \in Blockers(b)
      BY CirclesClose
    <3>3. At(r, "write") \/ At(r, "remove") \/ At(r, "rename") \/ At(r, "index")
      BY <1>3, <3>1, WaitsForAWriter
    <3>4. \/ Did(r, "write") \/ Did(r, "remove") \/ Did(r, "index") \/ Did(r, "link")
          \/ Did(r, "rename")
      BY <3>2, WaitsForAWriter
    <3> QED
      BY <3>3, <3>4, FirstLocksHoldNothing
  <2> QED
    BY <2>1
<1> QED
  BY <1>2, <1>3

THEOREM EditorialKnotsHaveACause == EditorialSpec => []KnotsHaveACause
BY CirclesHaveACause, EditorialInvariant, PTL
===============================================================================
