# Verification of vertex-api

TLA+ models of vertex-api (a NestJS backend on Postgres and DynamoDB, deployed
as a container or as a Lambda function), the TLC runs that check them on small
instances, and TLAPS proofs for every size. Paths and line numbers are those of
the repository; `auth.service.ts 157` is line 157 of `src/auth/auth.service.ts`.

The program keeps next to no state in its processes. Any number of them serve
requests side by side, and a request is a chain of `await`s: every statement is
a Postgres transaction of its own, every call to DynamoDB, the bucket, the email
provider or an OAuth provider is a round trip that may fail. What a handler
decides, it decides on rows that others may have written since it read them.
The models therefore share one shape: **one step for each `await`**, with the
code between two of them in the step, and all handlers interleaved between steps.
Where a module takes several awaits as one step, section 2 says why it may.

Contents: [1 Parts](#1-parts-of-the-system) ·
[2 Modules](#2-modules-and-how-they-correspond-to-the-code) ·
[3 Runs](#3-runs-bounds-and-what-they-show) ·
[4 Fairness, deadlock, symmetry](#4-fairness-deadlock-symmetry) ·
[5 Proofs](#5-proofs) · [6 Disagreements](#6-where-code-and-comments-disagree) ·
[7 Limits](#7-what-is-only-model-checked-and-what-is-not-modelled) ·
[8 Plan](#8-plan)

## 1. Parts of the system

| Part | State | Operations | Meets others through | What is hard |
|---|---|---|---|---|
| Rate-limit window (`common/throttler/throttle-window.ts`) | none: a pure function of window, time, limits | `advanceThrottleWindow` | called by both storages | the instants at which a window or a block ends |
| DynamoDB throttler storage (`dynamodb-throttler-storage.ts`) | one item per key: window, `version`, `expiresAt` | `increment` = read, decide, conditional write, up to `MAX_ATTEMPTS` times | the item, shared by all processes | lost writes, failing and unacknowledged calls, TTL deletion |
| Edge guard, client tracker, choice of storage (`common/edge`, `client-tracker.ts`, `throttler-storage.factory.ts`) | none of their own; a window per address in the table or in each process | let in, charge to an address, count, report | headers set by the CDN or by anybody; the windows | which address, which store; restarts; a CDN policy that changes |
| OAuth exchange codes (`auth/auth.service.ts`) | table `oauth_exchange_codes` | mint (insert, prune), exchange (claim, check, read user, sign) | the table; `users` by a cascading key | two exchanges of one code, role changes and deletion in between |
| Password login, tokens, guards (`auth.service.ts`, `auth/guards`, `auth.controller.ts`) | no session table: a token carries user, role and expiry | log in, read the profile, pass `JwtAuthGuard`, `AdminGuard`, `OptionalJwtAuthGuard` | `users.role`, `users.isBanned` | role, ban and profile come from three different times |
| Email codes (`auth/otp.service.ts`) | table `email_otps`, one row per address, with `attempts` | `requestCode`, `verifyCode` | the table; `users` | read, then delete or write back what was read; failing emails |
| Accounts (`auth/strategies`, `auth.service.ts`, `users.service.ts`) | table `users` with three unique columns; avatars in the bucket | sign in, link, register, edit profile, ban, remove | the table and the bucket | checks and writes are separate statements; stale rows are written back |
| OAuth popups (`auth.controller.ts`, guards, `oauth-state.util.ts`, `link-cookie.util.ts`, the popup's filter) | two cookies per browser | open to link, leave for the provider, callback, answer | the cookies, which all popups of a browser share | answers that arrive late, reloads, two popups at one provider |
| Articles (`posts/posts.service.ts`) | table `posts`; media in the bucket | create, update, remove, clean up | the table and the bucket | what to clean up is a difference of two reads |
| Slugs, topics, the pool (`posts.service.ts`, `topics.service.ts`, `postgres-options.ts`) | `posts.slug`, `posts.slug_en`, `topics`, `posts_to_topics`; five connections per process | create, edit, remove articles; create, rename, remove topics; look up by slug | row locks, foreign keys, unique indexes, connections | who waits for whom; mixed link lists; a slug that two articles answer to |
| Comments and removal of users (`comments.service.ts`, `users.service.ts`) | tables `comments`, `users`, `posts` | create, remove; remove a user with their comments | foreign keys | removal is a transaction of three statements; others write in between |
| Cold start (`lambda.ts`, `config/parameter-store.ts`, `bootstrap.ts`) | a cached promise, `process.env` | invoke, build, load pages, import, hooks | the promise and `process.env` | concurrent invocations, builds that reject, order of load and import |
| Listings, emails, uploads, projects, about, health | see section 7 | | | |

What makes each part correct:

* **Throttler**: a hit that is counted is counted on the state that is stored,
  in clock order, once, unless the item it was decided on has been deleted and
  begun again meanwhile; no more than the limit pass in a window, and one more
  budget for each request of which that is true; a bounded number in any stretch
  of that length; contention is no way round the limit; the limiter never blocks
  a request for lack of a store.
* **Admission**: a visitor is charged for what it sends, and for nothing else,
  whatever headers it makes up, whichever process answers.
* **Exchange codes**: one winner per code; a role in the token that the user
  still held when the code was claimed; no loss of a code that is still good.
* **Tokens**: a banned user is turned away at once; an administrator acts as one
  no longer than a token lasts; the profile shows the account as it is.
* **Email codes**: a code that was accepted or replaced is dead; one that was
  delivered works until something legitimate takes it away; guesses are capped.
* **Accounts**: an identity leads to the account that holds it; bans and roles
  are not undone by stale writes; a profile edit erases from the bucket only what
  some account has ceased to use; a 500 comes from a collision, never from a path
  the code has overlooked.
* **Popups**: a callback is accepted for its own attempt only and at most once
  answered; it links only what a user asked to link, recently.
* **Articles**: media that is referenced stays, media that is not goes; a
  published article has a date and keeps it.
* **Slugs and topics**: an article has the topics of one edit, never a mixture;
  no two articles own one address; editors deadlock for known reasons only, and
  no transaction waits for the pool that it holds a part of.
* **Comments**: nothing outlives what it belongs to; comments vanish for a
  reason; a request fails only where another has got in its way.
* **Cold start**: one build; on the whole configuration; the values that were in
  the environment first stay; every invocation ends.

`PROJECT.json` lists 40 hazards, each at the line where it bites, with the
properties that would catch it.

## 2. Modules and how they correspond to the code

Names are the source's where TLA+ allows it. A definition called `X_Y`, marked
*Mutant*, is a plausible bug in `X`; no specification uses it, it is there to
show which property would notice.

**`ThrottleWindow`** — `advanceThrottleWindow`, as operators: `WindowOver`
(`windowEndsAt <= now`, or a block that has run out), `CountHit` (a blocked key
does not count), `BlockOverLimit`. `null` is a window that ended at 0. It declares
`Ttl`, `Limit` and `BlockDuration`, and `ThrottleAssumption` about them.

**`ThrottleCounter`** — the abstract specification: one window, and requests
that are counted *atomically* (`Count`), at an instant between the last change
and now, or let through unmetered (fail open, 92–118 of the storage). A window
that is over may be forgotten (`Forget`), and then some of the requests under way
become `late`: they know a window that is no more. A late request may look again
(`LookAgain`), or put a window of its own making in the place of the current one
(`Overwrite`); `overwrites` counts those of the current window, and nothing else
erases a counted hit. `AdmittedWithinLimit` and `HitsStopAtBlock` are stated here.

**`ThrottlerStorage`** — `DynamoDbThrottlerStorage.increment` by steps: `Start`,
`Read` (consistent read), `Decide` (samples the clock *after* the read), `Write`
(conditional on the version), `Retry` or the give-up of `WriteConflict`,
`StoreFails` (any call rejects: fail open), `WriteUnacknowledged` (the write is
applied, its answer lost: the SDK sends it again and loses to itself, or the
error leaves the loop), and `Sweep`, DynamoDB's TTL deletion of an item `Grace`
past its window, at any time, also inside an attempt. Versions begin at 1 again
after it (163), so who holds an item that was deleted (`late`) mostly loses its
round, and where the new item has come to the version it knows overwrites it
(section 6); nothing is assumed of how long an attempt lasts. `Counter ==
INSTANCE ThrottleCounter WITH …` and `ImplementsCounter` say that all of this is
the atomic counter, with `late` and `overwrites` for its own.

**`Admission`**, **`MCAdmission`** — from the socket to the window: `EdgeOriginGuard`,
`ResolveClientTracker` (the CDN's viewer address less its port, or what the
request calls itself), `StoreOf` (the table, or the process), then a `Hit` on
`ThrottleWindow` as one step, which `ThrottlerStorage` justifies as long as no
attempt is overtaken by the deletion of the item it holds. `ThroughEdge`
and `Direct` are what a request can bring: everything but the secret is free to
make up, except that an environment without a secret, which has no CDN in front,
takes `X-Forwarded-For` as its proxy has written it. `Restart` empties a process's counters, `ChangePolicy` makes the CDN
drop the viewer's address; the guard then `Warns`, and `reported` ends what is
asked of the model, since all visitors then share addresses of the CDN.

**`OneTimeCode`** — the abstract life of a login code: issued, live, accepted,
redeemed, or void; it never comes back, and is accepted before its deadline.

**`OAuthExchange`** — `createOAuthExchangeCode` (`MintStart`, `Insert`,
`InsertFails`, `Prune`, `PruneFails`) and `exchangeOAuthCode` (`Present`,
`Claim` = `DELETE … RETURNING`, `Check`, `ReadUser`, `ExchangeFails`), against
`ChangeRole` and `DeleteUser` (which cascades). `ImplementsOneTimeCode` maps
rows and exchanges to the life of a code; `UnspentCodesSurvive` covers the prune,
its boundary, and its failing.

**`Sessions`**, **`MCSessions`** — extends `OAuthExchange` by what its tokens open.
An exchange signs a token (`Exchange`); so does `ReadLogin`/`VerifyLogin` (the
row is read, then argon2 takes its time, then role and identifier of that *read*
are signed). A visit arrives (`Arrive`) at the profile, at a route for
administrators or at one for anybody; `Guard` reads the row and turns away who is
banned; the handler goes by the claims of the token, the profile by the row.
`GuardFails` is the read that rejects. `SetBanned` and `RemoveUser` are the other
users of the table. Every token verifies until it has expired.

**`OtpLogin`**, **`MCOtpLogin`** — `requestCode` (read, cool-down, delete,
insert, send, clean up after a failed send) and `verifyCode` (read, expiry, cap,
compare, count, consume, find or create the account), for one address. A request,
its code and its row share one name: random codes are taken to be distinct.
Every applied statement may lose its answer (`Answered`). It does not implement
`OneTimeCode`, and the code does not claim it: `deleteEntry` (168–170) does not
look at how many rows it has deleted, so two verifications that overlap may both
be let in with one code; `SpentCodesStaySpent` speaks of those that begin later.

**`Articles`** — one article: `Create`, `ReadPost`, `Update` (the transaction:
its first statement locks the row, so it is one step), `Remove`, `DeleteMedia`
(the clean-up after the commit, which may fail or do a part). A media field is
its bucket key; `Covers` hold URLs, `Bodies` Markdown. The payload is a partial
function, as the DTO's optional fields are.

**`Editorial`**, **`MCEditorial`** — several articles and topics, and the locks.
A request is the list of its statements (`EditStatements` and the like, in the
order of the source); a transaction holds one connection of the pool from `begin`
to its end, and a statement outside any is a transaction by itself: `begin`, then
its parts (`Pooled`). `Blockers(r)` are the requests whose uncommitted work r's
next part has to wait for, by Postgres' rules for row locks, foreign keys and
unique indexes, which are the external part of the model; `Knot(S)` is a circle of
waits, and `Deadlocked` ends one of them. An `UPDATE`, of an article (`Write`) or
of a topic (`RenameTopic`), locks its row first and comes to the unique indexes
after that (`Index`, `SetTopic`), where it waits for any uncommitted statement
that has taken the value or written the row that has it (`InDoubt`,
`TopicsInDoubt`). The indexes of one row are passed in one step: a wait between
two of them is one more wait among requests that are all at that check. A rename
is taken to change a unique column. An article's slug that is taken is a 409 which
names the column, a topic's a 500. `Reached(address)` is `findPublishedBySlug`. A
transaction shows its work at `Commit` only.

**`Accounts`** — every statement that writes `users`: `Login` (the query for id
or email), `LoginByCode`, `Register`, `Insert`/`InsertFails` (unique columns),
`Admit` (JwtAuthGuard on the link route or the profile route), `CheckConflict`,
`ReadTarget`, `WriteIdentity`, `ReadProfile`, `WriteProfile`, `EraseAvatar`, and
the administrator's `SetBanned` and `Remove`. An avatar may be any picture of the
one bucket, whoever uploaded it, or a URL elsewhere (`update-profile.dto.ts` 7),
and `EraseAvatar` deletes what the former one names, whoever else names it.
History variables: what was last granted, which pictures some account has ceased
to use, which requests were contested.

**`OAuthPopup`** — one browser: `OpenToLink` (sets the link cookie), `Leave`
(the guard sets the attempt cookie and redirects), `Consent`, `Callback` (sent
with the cookies *of that moment*), `Receive` (what the answer sets or clears
takes effect *now*), `Abort`, `Tick`. A state, its PKCE verifier and its popup
share one name: signatures and hashes are taken to work.

**`ColdStart`** — one execution environment: `Invoke` (`bootstrapping ??=
build()`), `Resume` (the awaited promise has settled), `BuildStep` = a page of
parameters, import, creation, plugins, hooks, each of which throws when a
variable it insists on is missing, or fails; `PutParameter`, `Recycle`.

**`Comments`** — `ReadPost`/`InsertComment`, `ReadComment`/`DeleteComment`,
`ReadAuthored`/`PurgeComments`/`DeleteUser`/`DeleteUserRollsBack`, and from
articles `Publish`/`InsertPost`, `SwitchComments`, `RemovePost`. Foreign keys are
guards; `locked` are the rows an uncommitted removal has deleted.

The `MC…` modules define symmetry sets and the constants that a `.cfg` cannot
write. The `…Proofs` modules hold the theorems of section 5.

Composition (→ is extended by, ⇒ implements): `ThrottleWindow` → `ThrottleCounter`;
`ThrottleWindow` → `ThrottlerStorage` ⇒ `ThrottleCounter`; `ThrottleWindow` →
`Admission`, whose atomic `Hit` is what the refinement provides up to `Overwrite`; `OAuthExchange` ⇒
`OneTimeCode`; `OAuthExchange` → `Sessions`, whose steps are steps of the exchange
or leave it alone (`SessionsRunTheExchange`). The other parts meet only in the
tables, and where two write one table they are in one module: `users` in
`Accounts`, its removal with what refers to it in `Comments`, articles with
their topics in `Editorial`, and what sign-in with an emailed code does to
`users` in both `OtpLogin` and `Accounts`. `Articles` and `Editorial` look at one
transaction from two sides: the first at what it decides from an earlier read,
with the transaction as one step, the second at its statements, with nothing read
before that matters.

## 3. Runs, bounds, and what they show

Bounds are constants (`MaxClock`, `MaxTime`, `MaxChanges`, `MaxRequests`) that stand in
guards: of the clock, or of the arrival of requests. A request that has started
is never cut short by a bound.

| Run | Instance | Shows |
|---|---|---|
| `admission` | 2 visitors, 2 ports, 2 processes with a table or 1 without, with or without a secret; window, limit and block 2, time to 3 | the budget of any interval; refusals are earned |
| `storage` | 2 requests, again and again; window 2, limit 1, block 2, 2 attempts, grace 1, clock and changes to 3, sweep | writes build on stored state, in clock order, but those decided on a deleted item; the limit, and one more for each of those; lost rounds are hits or the deletion; every request answered; refinement of the counter |
| `sessions` | 2 callbacks, 2 exchanges, 1 login, 1 visit of which 4 happen, 1 user; codes live 1 tick, tokens 2, clock to 2 | refinement of the one-time code, no loss, current role; the banned turned away, administrators act in time, current profile |
| `otp` | 2 requests, 2 verifications, life and cool-down 1 tick, 1 guess, clock to 2 | spent codes stay spent; delivered codes work; serial guesses are capped |
| `otp_cap` | 1 request, 3 verifications, 2 guesses | *violated*: section 6 |
| `articles` | 2 edits, 1 removal, 1 cover, 1 text, 2 keys | referenced media is alive, orphans go, dates are there and stay |
| `editorial` | 3 requests out of 10 orders over 2 connections; 3 articles, topics and slugs | link lists never mixed, only fallbacks collide, deadlocks have one of three causes, every request ends |
| `accounts` | 4 requests, 2 at a time; 2 users, addresses, providers, identities, pictures | grants stick, 500s come from races, only dropped pictures are erased, sign-in ends with the holder |
| `accounts_profile` | the same with 1 provider | *violated*: section 6 |
| `popups` | 2 popups, 2 providers, 2 users; link cookie 1 tick, attempt 2, clock to 3 | refusals have causes; answered attempts refused; links are asked for |
| `coldstart` | 2 invocations, 2 builds, 3 paths of which two end in one name, 2 values, 3 ways to page | one build, on the store's content, first value stays, served when configured, every invocation ends |
| `comments` | 6 requests, 3 at a time; a reader and an editor, 2 articles, 2 comments | no orphans, comments vanish for a reason, 500s only on collisions |

Why the bounds are enough:

* *Throttler.* A lost update needs two writers; requests arrive any number of
  times, so two slots already give every order of reads and writes. Three
  changes see a fresh item, a conflict and a retry; two attempts see a retry
  and a give-up; a window of two ticks inside a clock of three sees an instant
  before, at and after its end, and with a grace of one the sweep. Three changes
  are an item, its deletion and the next item; as they bound only the start of
  requests, a write that overwrites it is the fourth. The proofs remove all of
  these bounds, except for liveness.
* *Admission.* One visitor is watched and one stands for all others. Three ticks
  hold one window of two and the first half of the next, wherever the first hit
  falls, so a stretch of two ticks straddles both; a limit of two lets the stretch see
  2 · 2 − 1 requests and would let it see a fourth if the boundary were wrong. Logs
  keep the last `2 * Limit` requests, and no property looks further back. Two processes are
  only needed where they share a table: counters inside processes are
  independent. What is asked stops at the first report of a missing address.
  The proofs remove all of these bounds but the last.
* *Sessions.* Two exchanges of one code and one each of two; a code of one tick
  in a clock of two is presented before, at and after its deadline, and a token
  of two ticks used before and at its expiry. Four requests are the callback that
  mints, the two exchanges that race for it (or a login), and the visit. The
  proofs remove the bounds.
* *Email codes.* Two requests: a resend during a verification, and two resends
  that collide. Two verifications: one overtakes the other; three for the cap.
* *Editorial.* Three requests over two connections make the third wait for the
  pool. Who waits for another's locks has a connection, so the circles are of two;
  the proof is for any number. The ten orders contain each kind of
  request, and for each rule of `Blockers` a pair that meets there: slugs of two
  articles swapped, and of two topics, a fallback that becomes an own slug, edits
  of one article with different lists, an edit that keeps the topic another removes.
* *Articles.* A field is left out, replaced, emptied or given the other's key;
  two keys let one be dropped and return. The proofs remove the bounds.
* *Accounts.* Two requests at a time make every pair of statements collide;
  four in all suffice to bring an identity to one account and its email to
  another (register, link, remove) before the sign-in that finds both.
* *Popups.* Two popups at one provider and at two; the ages 1 and 2 in a clock
  of 3 let each cookie lapse at every place of the flow. Proved for any number.
* *Cold start.* Pagination has none, one page, or three with an empty one (the
  store may answer an empty page with a token); two paths to one name show whose
  value stays. A parameter is edited at most once in the life of an environment:
  `steady`, which remembers that, is the bound.
* *Comments.* Three at a time: a removal, and two who write against it.

The type invariants (`TypeInvariant`, `SessionTypes`, and `TypeOK` of
`ThrottleCounter` within `CounterInvariant`) are proved where a module has
proofs, as a part of its `IInv` (`EditorialTypes` in `Editorial`); the runs spend
their time on other questions.

## 4. Fairness, deadlock, symmetry

Weak fairness is assumed of a handler's *own* next step: `Step(r)` of the storage
and of `Editorial`, `BuildStep`/`Resume` of the cold start. The code justifies it:
clients bound their calls, so that each `await` settles, with an answer or an
error, and the event loop resumes whoever awaited. In `Editorial` the step
includes `Deadlocked`, Postgres' own search for circles after `deadlock_timeout`,
and a statement that waits for a lock or for a connection is not enabled: that it
comes to be is what `EveryRequestEnds` shows. Its failing alternative, `Fails`, is
*not* fair, as a failure would end any wait. Nothing is assumed of arrivals, of
the clock, of edits, of the platform's recycling, nor that any call goes well: in
the storage and in the cold start the failing alternative is part of the same
step, and taking it forever satisfies fairness.

`CHECK_DEADLOCK FALSE` stands where requests are finite or bounded, so that all
may have been answered, which is the end of the run and not of the system. In
`admission`, `coldstart` and `editorial` deadlock is checked; the last
has a stuttering `AllAnswered` for its end. (A circle through the pool, which nobody
breaks, is no deadlock for TLC, as a connection might fail; `EveryRequestEnds`
finds it.)

Symmetry is used in `admission`, `sessions`, `otp`, `accounts`, `articles`,
`popups` and `comments`, which check no liveness, over model values that no
constant tells apart (`AdminEmail` keeps addresses out of it, `Admins` users).

## 5. Proofs

`tlapm` proves every theorem to its last leaf, from the named assumptions of its
module on the constants (`ThrottleAssumption`, `AdmissionAssumption`, `StorageAssumption`,
`ExchangeAssumption`, `SessionsAssumption`, `OtpAssumption`, `ArticlesAssumption`,
`EditorialAssumption`, `AccountsAssumption`, `OAuthPopupAssumption`,
`ColdStartAssumption`, `CommentsAssumption`): numbers are naturals, spans are
positive where the code makes them so, a block lasts a window at least
(`ThrottlerGuard` makes it one, and no route asks for another), the values that stand for "none" are not
among the values they stand beside, and the database a run begins with obeys its
own unique columns. TLC evaluates each of them. Every proof module defines an
inductive invariant (`IInv`, where there are two parts one for each), with one
lemma per action, and ends in a temporal step.

* **`ThrottlerStorageProofs`** — `StorageImplementsCounter`: for any number of
  requests and attempts and all parameters, optimistic counting is the atomic
  counter, whose requests overwrite only where they are late. `IInv` says what a
  snapshot is worth: unless its request is late it *is* the store's state as long as
  the version is the same, and otherwise there has been a change since, to which
  the request will lose its round (`SnapshotBelongs`). From it follow, each for
  requests that are not late, `WritesBuildOnStoredState` and `WritesInClockOrder`
  (the clock is sampled after the read, and a version that has not moved means
  that nothing was written since), and for all of them `LostRoundsAreChanges` (each
  lost round is a counted hit or the deletion). Each step then maps to a `Count`,
  an `Overwrite` (a write of one that is late; `LeftByHit` holds of whatever it
  writes), a `LookAgain` (it loses its round), a `Forget` (a sweep comes after the
  window is over), an arrival, a tick, or a stutter. The counter itself keeps
  `AdmittedWithinLimit` and `HitsStopAtBlock`, and the storage inherits both. The
  limit is not inductive: one must know that until the block as many requests were
  admitted as there are hits, and at most `Limit` more for each overwriting, which
  `CountExplainsBlock` says of a window and a count, so that it is carried through
  `AdvanceThrottleWindow` by one lemma and through an overwriting by another.
  Last the way to the window: `BudgetPerInterval` and `RefusalsAreEarned`, for any
  visitors, processes and environments. A request is charged to its sender
  (`ChargedToSender`), so only its own hits are in a visitor's window. `Fits` cuts
  the log of what was let through at the window's opening: the passes of this
  window, if they are all of its hits, begin there; the others are older, and all
  but the last `Limit - 1` of them by a whole window. A pass that continues a window
  finds fewer than `Limit` of its own, one that opens a window finds the old one
  over: either way the oldest of `2 * Limit` is a window old (`PassFits`).
* **`SessionsProofs`** — first the exchange by itself: `OneWinner`,
  `TokenCarriesCurrentRole`, `UnspentCodesSurvive`, and `ExchangeIsOneTime`, the
  refinement. `IInv` says that
  stored rows have living owners (the cascade), that who has got past the claim
  holds a code whose row is gone for good, and that the history of roles contains
  the present one. For no loss one adds `LastsUntilPresented` (the `now` of a
  prune is never past the clock, and so takes nothing that still counts); for the
  refinement, `DeadlinesAreNear`, and one lemma per kind of step that says whose
  life changes (`LifeStays`: nobody else's). Every behaviour of the composition is
  one of the exchange, so all of this carries over; then `BannedAreTurnedAway`, `AdminsActInTime`,
  `ProfileIsCurrent`. `SInv` adds that what a token or a pending login has read of
  a role was true when it read it (`ReignIsKept`), and that the history of a
  visit that waits for its guard is complete (`VisitsAreWatched`).
* **`OtpLoginProofs`** — `SpentCodesStaySpent`, `DeliveredCodeKeepsWorking`,
  `SerialGuessesAreCapped`, for any number of requests and verifications, any cap
  and any cool-down. That a spent code stays spent rests on `UnstoredIsUnknown` (a
  row is read only after it was inserted, and identifiers are not used twice) and
  `ReadIsUnspent`. That a delivered code keeps working (`StoredCodeStays`) needs a
  cause for every deletion by a verification (`DropsAreDue`: the code has expired,
  or has been compared as often as the cap) and for every count
  (`CountsAreEarned`: none without a comparison). The cap, as long as no two
  verifications hold a row at once and no count fails, is `SerialCounting`: a wrong
  guess is in the attempts, or about to be.
* **`ArticlesProofs`** — first one article: `ReferencedMediaIsAlive`, `PublishedIsDated`,
  `LaterEditsKeepDate`, for any overlap. The heart is `ReadIsAccountedFor`: what
  an edit has read is referenced or dropped *by now*, so the difference it
  deletes contains nothing that was in use all along. `SerialEditsLeaveNoOrphans`
  is its counterpart (`Tidy`): unless edits have overlapped or a clean-up has
  failed, what was read is what *is* (`ReadIsCurrent`), and what is alive and
  referenced nowhere is in the hands of the one request that will delete it
  (`OrphansAreInHand`).
  Then the locks of `Editorial`: `TopicsAreOneEdits`, `OnlyFallbacksCollide`,
  `KnotsHaveACause`, for any articles, topics, orders and connections. An article
  has one owner, who took its row first, and unlinks all of its links and no
  others (`UnlinksItsOwn`), so the list that stands is one edit's. Whoever is past
  the unique indexes has its values to itself, against what is committed
  (`SlugsAreTaken`) and against each other (`TakenOnce`), so a commit keeps
  `SlugsAreUnique`. For the deadlocks: whoever is at its first lock holds
  nothing, so nobody waits for it, and all in a circle are past theirs
  (`FirstLocksHoldNothing`). If none of them removes a topic, they are at the
  index, at the link, or at the check of topics. From one at the check or at the
  link waits lead only to renamers, who are at the check (`RenamersAreAtTheCheck`),
  so that a circle with such a one is at the check as a whole; any other is at the
  index as a whole.
* **`AccountsProofs`** — `GrantsStick`, `OnlyContestedRequestsFail`,
  `OnlyDroppedPicturesAreErased`, `SignInEndsWithTheHolder`. `IsFresh` says what still
  holds of what a request found, provided nobody has got in its way;
  `ReadIsAccountedFor` and `ErasesDropped` do for avatars what the previous module
  does for media: what an edit has read is its user's avatar or was dropped since,
  and what it is about to erase was dropped.
* **`OAuthPopupProofs`** — `RefusalsHaveACause`, `AnsweredAttemptsAreRefused`,
  `LinksAreAskedFor`, for any number of popups, providers and ages. A cookie
  names a popup that has left and was not answered; a popup's attempt is in its
  cookie unless it was answered or has a rival; a link cookie has an asker.
* **`ColdStartProofs`** — `OneBuild`, `ImportSeesTheStore`, `FirstValueStays`,
  `ServedWhenConfigured`, for any number of invocations, builds, pages and paths.
  A build that somebody awaits is the one that is cached (`BuildIsCached`,
  `WaitersAwaitABuild`); a variable came with the function or from a path that
  leads to it, unless that was edited since (`ValuesHaveASource`), what a build has
  still to read brings the variables it lacks (`PagesCoverTheStore`), and a stage
  that has not thrown has found its own (`DemandsAreMet`).
* **`CommentsProofs`** — `NothingIsOrphaned`, `OnlyHinderedRequestsFail`,
  `CommentsVanishForAReason`, for any number of requests, users and articles. The inductive part is what a removal that is under way has
  locked: rows of its own target, in nobody else's hands, so that a roll-back
  gives back what it took and a comment that is gone has had a reason.

## 6. Where code and comments disagree

* **`otp_cap`** (`otp.service.ts` 115). `attempts` is written as the value read
  plus one. Verifications that overlap write the same successor and count as one,
  so a code is compared with more wrong guesses than the cap of 21–24 allows.
  `SerialGuessesAreCapped` states what does hold.
* **`accounts_profile`** (`google.strategy.ts` 200). A sign-in reads the row and
  writes name and avatar back from what it read; a profile edit that commits in
  between is undone. 193–194 say that "a login must not clobber that".

Smaller divergences that the models follow as the code has them, and that no run
singles out:

* *Throttler.* A block that outlasts its window ends with the window
  (`throttle-window.ts` 62–64, against 39–40). A new item always has version 1
  (`dynamodb-throttler-storage.ts` 163) and the condition compares the version
  alone (166–173), so that "write if nothing changed underneath" (44–45), and that
  nothing depends on the deletion for correctness (25–26), fail
  where the TTL deletion and as many writes as the version that was read fall
  between the read and the conditional write of one attempt. With a limit of 1:
  one request reads an item of version 1 whose window is over and decides; the
  item is deleted; a second creates an item, of version 1 again, and is admitted;
  the first then writes over it: the second's hit is erased, and both were
  admitted in one window. So `admitted <= Limit` does not hold of the storage, and
  TLC refutes it; `AdmittedWithinLimit` says by how much it may fail, and
  `WritesBuildOnStoredState` and `WritesInClockOrder` except the requests that are
  `late`. The deletion comes an hour after the window at the earliest, which makes
  this as rare as a process that is frozen between two calls for that long, or an
  item that is read just before a deletion that came late. And a lost round is not
  always "their hit counted" (85–86): it may be the deletion.
* *Sessions.* A token of a user who is gone still passes the guards, by design
  (`jwt-auth.guard.spec.ts`), and ends in a 500 where it comments
  (`comments.service.ts` 73). `OptionalJwtAuthGuard`, which is there to let
  anybody through, ends in a 500 where the read of the row fails.
* *Email codes.* Overlapping verifications may both be let in with one code.
* *Articles.* Two overlapping edits that both publish a draft both stamp the date
  (`posts.service.ts` 183; `LaterEditsKeepDate` speaks of edits that begin once
  there is a date). An article without an English slug is reached under its
  Portuguese one, which may be another article's English one; the query (139–162)
  has no order between the two (`OnlyFallbacksCollide` says that no other pair can
  meet). A topic's slug that is taken ends in a 500, an article's in a 409. Two
  renames that swap the names of two topics, or two edits that swap slugs, each
  hold a row and wait for the other's: one of them ends in a 500
  (`KnotsHaveACause`). The clean-up of media looks at its own article only, so a
  key that another article or an avatar names as well is lost to both.
* *Accounts.* The query for id *or* email has no order between the two
  (`google.strategy.ts` 183–188). `isUniqueViolation` looks at the error where
  Drizzle puts the code on `error.cause` (`github.strategy.ts` 39, against
  `posts.service.ts` 36–40). Any URL may be an avatar (`update-profile.dto.ts` 7),
  and replacing one erases what it names in the bucket (`users.service.ts`
  142–149): where two accounts name one picture, or an account names an article's,
  the first to drop it takes it from the other. `OnlyDroppedPicturesAreErased` says
  of the bucket what does hold.
* *Comments.* Comments that are switched off between the read of an article (66)
  and the insert do not stop it. The identifiers in the paths of comments and of
  users are not parsed as UUIDs (`comments.controller.ts` 52 and 68,
  `users.controller.ts` 72), so that a malformed one is a 500;
  `OnlyHinderedRequestsFail` speaks of well-formed ones.
* *Popups.* A popup that comes back after the link cookie has lapsed signs in
  where it was opened to link, and one opened to sign in under a link cookie that
  is still set links.
* *About.* Two first requests insert two rows (`about.service.ts` 19) of what
  `schema.ts` 131 calls a singleton; not modelled, see below.

## 7. What is only model-checked, and what is not modelled

Only model-checked: liveness (`EveryRequestAnswered`, `EveryInvocationEnds`,
`EveryRequestEnds`), which the prover does not cover. Every safety property that a
run shows is proved.

Assumptions of the models:

* One clock. Processes read the same time; skew between them and the database
  is left out. A time that a handler samples before a statement may be older
  than the statement.
* Random codes, states and identifiers are distinct; signatures, PKCE and
  password hashes do what they are for.
* A transaction whose first statement locks the row it is about is one step; the
  removal of a user, whose statements lock different rows, is not, and its locks
  are in the model; neither are the transactions of `Editorial`.
* What makes one statement wait for another in `Editorial` is Postgres, read from
  its behaviour at READ COMMITTED, not from `src`: row locks, the weaker locks of
  foreign keys, and entries of unique indexes that are not committed.
* Failures of the database are part of the storage, the exchange, the sessions,
  the email codes, the articles and `Editorial`; in `Accounts` and `Comments`
  statements fail for the reasons their columns and keys give. In `Comments` the
  victim of a circle of locks is the removal of a user, never `RemovePost`.
* A variable of the cold start is there or is not; the empty string, which the
  code treats as missing, is not a value of its own.
* One address of an email code, one browser, one execution environment, one
  article of `Articles`, one key of `ThrottlerStorage`: instances of each do not
  share state. Where they do (keys of one visitor, articles with one slug),
  `Admission` and `Editorial` have several.

Not modelled, because nothing in them can go wrong by order or failure: listings
(queries that write nothing), emails (layout and one call, whose failure is in
`OtpLogin`), upload signing (a function of the request), projects (one statement
per operation), health and wiring. The about page can go wrong, and simply does
(section 6): two concurrent calls suffice, nothing in the code is meant to
prevent it, and so there is no promise to check. The seed, the migrations and
the infrastructure are not the program. Left out of modelled parts: names
(written by the rules of the avatar), texts, `slug_es` (which works like
`slug_en`), the strings `slugify` makes, formatting, response headers, what
plugins do to a response, the library's idle timeouts of connections.

## 8. Plan

Done, in the order of importance: the throttler, down to its atomic counter, and
with the way to it; the two kinds of login code; sessions on top of one of them;
articles with their media; articles with their slugs, topics and locks; accounts;
popups; cold start; comments and removals. Proofs of every safety property that
a run shows.

Next:

1. `OAuthExchange` and `OtpLogin` as two implementations of one specification of
   login codes, where `OtpLogin` keeps what it can of `OneTimeCode` as long as
   verifications do not overlap.
2. What liveness rests on, as far as it is safety: that a request which has not
   been answered has an enabled step, or waits for one that has.
3. `late` and `overwrites` go, if the storage comes to give a new item a version
   of its own: `WritesBuildOnStoredState`, `WritesInClockOrder` and the limit then
   have to hold of every request.
