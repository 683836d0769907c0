-------------------------------- MODULE OtpLogin --------------------------------
(***************************************************************************)
(* Passwordless login of one address (src/auth/otp.service.ts): any number *)
(* of requestCode and verifyCode handlers, in any number of processes,     *)
(* share the address's row of email_otps and its row of users.             *)
(*                                                                         *)
(* Every request draws its own code and inserts its own row, so code, row  *)
(* and request bear one name.  Each statement is its own Postgres          *)
(* transaction: handlers interleave between any two of them, and between   *)
(* the answer of a query and what the handler decides on it.               *)
(***************************************************************************)
EXTENDS Integers, FiniteSets

CONSTANTS Requests,     \* POST /auth/otp/request, each with a code of its own
          Verifies,     \* POST /auth/otp/verify
          OtpTtl,       \* OTP_TTL_MS
          Cooldown,     \* OTP_RESEND_COOLDOWN_MS
          MaxAttempts,  \* OTP_MAX_ATTEMPTS
          NoRow, Wrong, \* no row; a guess that matches no code
          MaxClock      \* bound: the clock stops here

ASSUME OtpAssumption ==
    /\ OtpTtl \in Nat
    /\ Cooldown \in Nat
    /\ MaxAttempts \in Nat \ {0}
    /\ MaxClock \in Nat
    /\ NoRow \notin Requests
    /\ Wrong \notin Requests \cup {NoRow}

VARIABLES clock,      \* Date.now(), and now() of the database
          row,        \* the row of the address, at most one (email is unique)
          storedAt,   \* created_at of each row; expires_at is OtpTtl later
          attempts,   \* the attempts column of each row
          account,    \* the users row of the address
          rpc,        \* where each request is
          existing,   \* the row each request has read
          vpc,        \* where each verification is
          guess,      \* the code in its body
          entry,      \* the row it has read ...
          seen        \* ... and the attempts it held then

\* History, read by no action.
VARIABLES revoked,    \* codes a request has taken away, its own or another's
          accepted,   \* codes a verification has accepted and deleted
          compared,   \* wrong guesses compared with each code
          undercount, \* two verifications held one row at once, or the update
                      \* that counts a wrong guess failed
          spentBefore \* codes spent before each verification began

tableVars == <<row, storedAt, attempts>>
requestVars == <<rpc, existing>>
verifyVars == <<vpc, guess, entry, seen>>
history == <<revoked, accepted, compared, undercount, spentBefore>>
vars == <<clock, account, tableVars, requestVars, verifyVars, history>>

RequestStates == {"idle", "reading", "checking", "replacing", "inserting",
                  "sending", "cleaning", "sent", "cooldown", "failed"}
VerifyStates == {"idle", "reading", "checking", "counting", "expiring", "capping",
                 "consuming", "finding", "creating",
                 "granted", "banned", "invalid", "expired", "capped", "failed"}
Accounts == {"none", "active", "banned"}

TypeInvariant ==
    /\ clock \in Nat
    /\ row \in Requests \cup {NoRow}
    /\ storedAt \in [Requests -> Nat]
    /\ attempts \in [Requests -> Nat]
    /\ account \in Accounts
    /\ rpc \in [Requests -> RequestStates]
    /\ existing \in [Requests -> Requests \cup {NoRow}]
    /\ vpc \in [Verifies -> VerifyStates]
    /\ guess \in [Verifies -> Requests \cup {Wrong}]
    /\ entry \in [Verifies -> Requests \cup {NoRow}]
    /\ seen \in [Verifies -> Nat]
    /\ revoked \subseteq Requests
    /\ accepted \subseteq Requests
    /\ compared \in [Requests -> Nat]
    /\ undercount \in BOOLEAN
    /\ spentBefore \in [Verifies -> SUBSET Requests]

Init ==
    /\ clock = 0
    /\ row = NoRow
    /\ storedAt = [r \in Requests |-> 0]
    /\ attempts = [r \in Requests |-> 0]
    /\ account \in Accounts
    /\ rpc = [r \in Requests |-> "idle"]
    /\ existing = [r \in Requests |-> NoRow]
    /\ vpc = [v \in Verifies |-> "idle"]
    /\ guess = [v \in Verifies |-> Wrong]
    /\ entry = [v \in Verifies |-> NoRow]
    /\ seen = [v \in Verifies |-> 0]
    /\ revoked = {}
    /\ accepted = {}
    /\ compared = [r \in Requests |-> 0]
    /\ undercount = FALSE
    /\ spentBefore = [v \in Verifies |-> {}]

Tick ==
    /\ clock < MaxClock
    /\ clock' = clock + 1
    /\ UNCHANGED <<account, tableVars, requestVars, verifyVars, history>>

ExpiresAt(r) == storedAt[r] + OtpTtl

Goto(r, state) == rpc' = [rpc EXCEPT ![r] = state]
VGoto(v, state) == vpc' = [vpc EXCEPT ![v] = state]

\* A statement that has been applied; its answer may still be lost, and the
\* error then leaves the handler.
Answered(r, state) == \E s \in {state, "failed"} : Goto(r, s)
VAnswered(v, state) == \E s \in {state, "failed"} : VGoto(v, s)

-------------------------------------------------------------------------------
(* requestCode                                                             *)

Ask(r) ==
    /\ rpc[r] = "idle"
    /\ Goto(r, "reading")
    /\ UNCHANGED <<clock, account, tableVars, existing, verifyVars, history>>

ReadExisting(r) ==
    /\ rpc[r] = "reading"
    /\ existing' = [existing EXCEPT ![r] = row]
    /\ Goto(r, "checking")
    /\ UNCHANGED <<clock, account, tableVars, verifyVars, history>>

\* The code read is young and still good: the visitor has to wait.
InCooldown(r) ==
    /\ existing[r] # NoRow
    /\ storedAt[existing[r]] + Cooldown > clock
    /\ ExpiresAt(existing[r]) > clock

CheckCooldown(r) ==
    /\ rpc[r] = "checking"
    /\ Goto(r, IF InCooldown(r) THEN "cooldown" ELSE "replacing")
    /\ UNCHANGED <<clock, account, tableVars, existing, verifyVars, history>>

\* DELETE ... WHERE email = :email, whichever row that is by now.
DeleteByEmail ==
    /\ row' = NoRow
    /\ revoked' = revoked \cup ({row} \ {NoRow})

Replace(r) ==
    /\ rpc[r] = "replacing"
    /\ DeleteByEmail
    /\ Answered(r, "inserting")
    /\ UNCHANGED <<clock, account, storedAt, attempts, existing, verifyVars,
                   accepted, compared, undercount, spentBefore>>

Store(r) ==
    /\ rpc[r] = "inserting"
    /\ row = NoRow
    /\ row' = r
    /\ storedAt' = [storedAt EXCEPT ![r] = clock]
    /\ attempts' = [attempts EXCEPT ![r] = 0]
    /\ Answered(r, "sending")
    /\ UNCHANGED <<clock, account, existing, verifyVars, history>>

\* Another request has inserted first: the unique email refuses this row.
StoreConflict(r) ==
    /\ rpc[r] = "inserting"
    /\ row # NoRow
    /\ Goto(r, "failed")
    /\ UNCHANGED <<clock, account, tableVars, existing, verifyVars, history>>

Send(r) ==
    /\ rpc[r] = "sending"
    /\ Goto(r, "sent")
    /\ UNCHANGED <<clock, account, tableVars, existing, verifyVars, history>>

SendFails(r) ==
    /\ rpc[r] = "sending"
    /\ Goto(r, "cleaning")
    /\ UNCHANGED <<clock, account, tableVars, existing, verifyVars, history>>

CleanUp(r) ==
    /\ rpc[r] = "cleaning"
    /\ DeleteByEmail
    /\ Goto(r, "failed")
    /\ UNCHANGED <<clock, account, storedAt, attempts, existing, verifyVars,
                   accepted, compared, undercount, spentBefore>>

\* Any statement of a request may fail unapplied; the error leaves the handler.
RequestFails(r) ==
    /\ rpc[r] \in {"reading", "replacing", "inserting", "cleaning"}
    /\ Goto(r, "failed")
    /\ UNCHANGED <<clock, account, tableVars, existing, verifyVars, history>>

RequestStep(r) ==
    \/ ReadExisting(r) \/ CheckCooldown(r) \/ Replace(r) \/ Store(r)
    \/ StoreConflict(r) \/ Send(r) \/ SendFails(r) \/ CleanUp(r)
    \/ RequestFails(r)

-------------------------------------------------------------------------------
(* verifyCode                                                              *)

\* The visitor types a code they were sent, or mistypes.  The email may have
\* arrived although its sender has not returned yet, or reported an error.
Type(v, g) ==
    /\ vpc[v] = "idle"
    /\ g \in {Wrong} \cup {r \in Requests :
                        rpc[r] \in {"sending", "sent", "cleaning", "failed"}}
    /\ guess' = [guess EXCEPT ![v] = g]
    /\ spentBefore' = [spentBefore EXCEPT ![v] = revoked \cup accepted]
    /\ VGoto(v, "reading")
    /\ UNCHANGED <<clock, account, tableVars, requestVars, entry, seen,
                   revoked, accepted, compared, undercount>>

\* Verifications that hold row r and may still act on what they read of it.
Holders(r) == {v \in Verifies : entry[v] = r /\ vpc[v] \in {"checking", "counting"}}

ReadEntry(v) ==
    /\ vpc[v] = "reading"
    /\ entry' = [entry EXCEPT ![v] = row]
    /\ IF row = NoRow
       THEN /\ VGoto(v, "invalid")
            /\ UNCHANGED <<seen, undercount>>
       ELSE /\ VGoto(v, "checking")
            /\ seen' = [seen EXCEPT ![v] = attempts[row]]
            /\ undercount' = (undercount \/ Holders(row) # {})
    /\ UNCHANGED <<clock, account, tableVars, requestVars, guess,
                   revoked, accepted, compared, spentBefore>>

Expired(v) == ExpiresAt(entry[v]) < clock
\* Mutant: one guess too many is compared.
Exhausted_OffByOne(v) == seen[v] > MaxAttempts

Exhausted(v) == seen[v] >= MaxAttempts

\* The checks, in the order of the code, on the row as it was read.
CheckEntry(v) ==
    /\ vpc[v] = "checking"
    /\ VGoto(v, IF Expired(v) THEN "expiring"
                ELSE IF Exhausted(v) THEN "capping"
                ELSE IF guess[v] # entry[v] THEN "counting"
                ELSE "consuming")
    /\ compared' = IF ~Expired(v) /\ ~Exhausted(v) /\ guess[v] # entry[v]
                   THEN [compared EXCEPT ![entry[v]] = @ + 1]
                   ELSE compared
    /\ UNCHANGED <<clock, account, tableVars, requestVars, guess, entry, seen,
                   revoked, accepted, undercount, spentBefore>>

\* Mutant: attempts is decremented.
CountAttempt_Down(v) ==
    /\ vpc[v] = "counting"
    /\ attempts' = IF row = entry[v]
                   THEN [attempts EXCEPT ![row] = seen[v] - 1]
                   ELSE attempts
    /\ VGoto(v, "invalid")
    /\ UNCHANGED <<clock, account, row, storedAt, requestVars, guess, entry, seen,
                   history>>

\* UPDATE ... SET attempts = :seen + 1 WHERE id = :entry
CountAttempt(v) ==
    /\ vpc[v] = "counting"
    /\ attempts' = IF row = entry[v]
                   THEN [attempts EXCEPT ![row] = seen[v] + 1]
                   ELSE attempts
    /\ VAnswered(v, "invalid")
    /\ UNCHANGED <<clock, account, row, storedAt, requestVars, guess, entry, seen,
                   history>>

\* Mutant: the row is deleted by email, like a request does.
DeleteEntry_ByEmail(v) == row' = NoRow

\* deleteEntry: DELETE ... WHERE id = :entry, which may be gone already.
DeleteEntry(v) == row' = IF row = entry[v] THEN NoRow ELSE row

DropEntry(v) ==
    /\ \/ vpc[v] = "expiring" /\ VAnswered(v, "expired")
       \/ vpc[v] = "capping" /\ VAnswered(v, "capped")
    /\ DeleteEntry(v)
    /\ UNCHANGED <<clock, account, storedAt, attempts, requestVars, guess, entry,
                   seen, history>>

\* Mutant: an accepted code is left in the table.
Consume_KeepsRow(v) ==
    /\ vpc[v] = "consuming"
    /\ accepted' = accepted \cup {entry[v]}
    /\ VGoto(v, "finding")
    /\ UNCHANGED <<clock, account, row, storedAt, attempts, requestVars, guess, entry,
                   seen, revoked, compared, undercount, spentBefore>>

Consume(v) ==
    /\ vpc[v] = "consuming"
    /\ DeleteEntry(v)
    /\ accepted' = accepted \cup {entry[v]}
    /\ VAnswered(v, "finding")
    /\ UNCHANGED <<clock, account, storedAt, attempts, requestVars, guess, entry,
                   seen, revoked, compared, undercount, spentBefore>>

FindUser(v) ==
    /\ vpc[v] = "finding"
    /\ VGoto(v, CASE account = "none" -> "creating"
                  [] account = "banned" -> "banned"
                  [] account = "active" -> "granted")
    /\ UNCHANGED <<clock, account, tableVars, requestVars, guess, entry, seen,
                   history>>

\* The first login inserts the user, unless the address has one by now.
CreateUser(v) ==
    /\ vpc[v] = "creating"
    /\ IF account = "none"
       THEN account' = "active" /\ VAnswered(v, "granted")
       ELSE VGoto(v, "failed") /\ UNCHANGED account
    /\ UNCHANGED <<clock, tableVars, requestVars, guess, entry, seen, history>>

VerifyFails(v) ==
    /\ vpc[v] \in {"reading", "counting", "expiring", "capping", "consuming",
                   "finding", "creating"}
    /\ VGoto(v, "failed")
    /\ undercount' = (undercount \/ vpc[v] = "counting")
    /\ UNCHANGED <<clock, account, tableVars, requestVars, guess, entry, seen,
                   revoked, accepted, compared, spentBefore>>

VerifyStep(v) ==
    \/ ReadEntry(v) \/ CheckEntry(v) \/ CountAttempt(v) \/ DropEntry(v)
    \/ Consume(v) \/ FindUser(v) \/ CreateUser(v) \/ VerifyFails(v)

\* The other routes create, ban, unban and delete the account.
AccountChanges ==
    /\ account' \in Accounts \ {account}
    /\ UNCHANGED <<clock, tableVars, requestVars, verifyVars, history>>

Next ==
    \/ Tick
    \/ AccountChanges
    \/ \E r \in Requests : Ask(r) \/ RequestStep(r)
    \/ \E v \in Verifies :
          VerifyStep(v) \/ \E g \in Requests \cup {Wrong} : Type(v, g)

Spec == Init /\ [][Next]_vars

-------------------------------------------------------------------------------
(***************************************************************************)
(* A code is dead for every verification that begins after it was          *)
(* accepted, replaced by a resend or cleaned up (otp.service.ts 59-63,     *)
(* 123): whatever such a verification reads, it does not accept the code.  *)
(***************************************************************************)
SpentCodesStaySpent ==
    \A v \in Verifies :
        vpc[v] \in {"consuming", "finding", "creating", "granted", "banned"}
            => guess[v] \notin spentBefore[v]

(***************************************************************************)
(* A code the visitor holds keeps working until a request takes it away,   *)
(* somebody is let in with it, its time is up or it has been guessed at    *)
(* too often; in particular a late clean-up of an older row leaves it      *)
(* alone (deleteEntry goes by id, otp.service.ts 97, 105, 123, 168-170).   *)
(***************************************************************************)
DeliveredCodeKeepsWorking ==
    \A r \in Requests :
        /\ rpc[r] = "sent"
        /\ r \notin revoked \cup accepted
        /\ clock <= ExpiresAt(r)
        /\ compared[r] < MaxAttempts
        => row = r

(***************************************************************************)
(* As long as no two verifications hold the row at once, and no update of  *)
(* its attempts fails, every wrong guess is counted, and no code is ever   *)
(* compared with more wrong guesses than the cap (otp.service.ts 104-116). *)
(***************************************************************************)
SerialGuessesAreCapped ==
    ~undercount => \A r \in Requests : compared[r] <= MaxAttempts

(***************************************************************************)
(* "The real defenses are the 10-minute TTL, the 5-attempt cap below"      *)
(* (otp.service.ts 21-24): no code is compared with more wrong guesses     *)
(* than the cap, however the verifications interleave.                     *)
(***************************************************************************)
GuessesAreCapped == \A r \in Requests : compared[r] <= MaxAttempts
===============================================================================
