----------------------------- MODULE OtpLoginProofs -----------------------------
(***************************************************************************)
(* Proofs about OtpLogin for any number of requests and verifications, any *)
(* lifetime and any cap: what is spent stays spent, what was delivered     *)
(* keeps working, and verifications that do not overlap keep the cap.      *)
(***************************************************************************)
EXTENDS OtpLogin, TLAPS

(***************************************************************************)
(* A request that has not stored its row yet: its code is in nobody's      *)
(* hands.  Every other request has stored it, or has failed.               *)
(***************************************************************************)
Unstored == {"idle", "reading", "checking", "replacing", "inserting", "cooldown"}

UnstoredIsUnknown ==
    \A r \in Requests : rpc[r] \in Unstored =>
        /\ row # r
        /\ r \notin revoked \cup accepted
        /\ compared[r] = 0
        /\ \A v \in Verifies : entry[v] # r

\* The code in the table has not been spent, and no spent code comes back.
RowIsUnspent == row \notin revoked \cup accepted

\* A verification that holds a row has read one; the row was not spent when it
\* began.  Who has been let in has typed the code of that row.
Holding == {"checking", "counting", "expiring", "capping"}
LetIn == {"consuming", "finding", "creating", "granted", "banned"}

ReadIsUnspent ==
    \A v \in Verifies :
        /\ spentBefore[v] \subseteq revoked \cup accepted
        /\ vpc[v] \in Holding \cup LetIn => entry[v] \in Requests \ spentBefore[v]
        /\ vpc[v] \in LetIn => guess[v] = entry[v]

\* No attempt is counted that was not made.
CountsAreEarned ==
    /\ \A r \in Requests : attempts[r] <= compared[r]
    /\ \A v \in Verifies :
          /\ vpc[v] = "checking" => seen[v] <= compared[entry[v]]
          /\ vpc[v] = "counting" => seen[v] < compared[entry[v]]

\* A verification about to drop a row has good reason to.
DropsAreDue ==
    \A v \in Verifies :
        /\ vpc[v] = "expiring" => ExpiresAt(entry[v]) < clock
        /\ vpc[v] = "capping" => compared[entry[v]] >= MaxAttempts

\* DeliveredCodeKeepsWorking, from the moment the row is stored.
StoredCodeStays ==
    \A r \in Requests :
        /\ rpc[r] \in {"sending", "sent"}
        /\ r \notin revoked \cup accepted
        /\ clock <= ExpiresAt(r)
        /\ compared[r] < MaxAttempts
        => row = r

(***************************************************************************)
(* As long as no two verifications hold a row at once and no count fails,  *)
(* a wrong guess is in the attempts, or about to be.                       *)
(***************************************************************************)
OneHolder ==
    \A v, w \in Verifies :
        /\ vpc[v] \in {"checking", "counting"} /\ vpc[w] \in {"checking", "counting"}
        /\ entry[v] = entry[w]
        => v = w

GuessesAreCounted ==
    /\ \A v \in Verifies :
          /\ vpc[v] = "checking" => compared[entry[v]] <= seen[v]
          /\ vpc[v] = "counting" => compared[entry[v]] <= seen[v] + 1
    /\ row # NoRow =>
          \/ compared[row] <= attempts[row]
          \/ \E v \in Verifies : vpc[v] = "counting" /\ entry[v] = row

SerialCounting ==
    ~undercount => OneHolder /\ GuessesAreCounted /\ GuessesAreCapped

IInv ==
    /\ TypeInvariant
    /\ UnstoredIsUnknown
    /\ RowIsUnspent
    /\ ReadIsUnspent
    /\ CountsAreEarned
    /\ DropsAreDue
    /\ StoredCodeStays
    /\ SerialCounting

LEMMA InitIInv == ASSUME Init PROVE IInv
<1>1. TypeInvariant
  BY OtpAssumption DEF Init, TypeInvariant, RequestStates, VerifyStates
<1>2. UnstoredIsUnknown /\ RowIsUnspent
  BY OtpAssumption DEF Init, UnstoredIsUnknown, RowIsUnspent
<1>3. ReadIsUnspent /\ CountsAreEarned /\ DropsAreDue
  BY DEF Init, ReadIsUnspent, Holding, LetIn, CountsAreEarned, DropsAreDue
<1>4. StoredCodeStays
  BY DEF Init, StoredCodeStays
<1>5. SerialCounting
  BY OtpAssumption DEF Init, SerialCounting, OneHolder, GuessesAreCounted, GuessesAreCapped
<1>6. QED BY <1>1, <1>2, <1>3, <1>4, <1>5 DEF IInv

-------------------------------------------------------------------------------
(* Steps that move one handler along and touch no row.                     *)

\* A request goes on, without having stored or deleted anything.
LEMMA RequestMoves ==
    ASSUME IInv, NEW r \in Requests, NEW s \in RequestStates,
           rpc' = [rpc EXCEPT ![r] = s],
           s \in Unstored => rpc[r] \in Unstored,
           s \in {"sending", "sent"} => rpc[r] = "sending",
           existing' \in [Requests -> Requests \cup {NoRow}],
           UNCHANGED <<clock, account, tableVars, verifyVars, history>>
    PROVE  IInv'
<1> USE DEF tableVars, verifyVars, history
<1>1. TypeInvariant'
  BY DEF IInv, TypeInvariant
<1>2. UnstoredIsUnknown' /\ RowIsUnspent'
  BY DEF IInv, TypeInvariant, UnstoredIsUnknown, RowIsUnspent
<1>3. ReadIsUnspent' /\ CountsAreEarned' /\ DropsAreDue'
  BY DEF IInv, ReadIsUnspent, CountsAreEarned, DropsAreDue, ExpiresAt
<1>4. StoredCodeStays'
  BY DEF IInv, TypeInvariant, StoredCodeStays, ExpiresAt
<1>5. SerialCounting'
  BY DEF IInv, SerialCounting, OneHolder, GuessesAreCounted, GuessesAreCapped
<1>6. QED BY <1>1, <1>2, <1>3, <1>4, <1>5 DEF IInv

LEMMA RequestStepsKeepIInv ==
    ASSUME IInv, NEW r \in Requests,
           \/ Ask(r) \/ ReadExisting(r) \/ CheckCooldown(r) \/ StoreConflict(r)
           \/ Send(r) \/ SendFails(r) \/ RequestFails(r)
    PROVE  IInv'
<1>1. PICK s \in RequestStates :
         /\ rpc' = [rpc EXCEPT ![r] = s]
         /\ s \in Unstored => rpc[r] \in Unstored
         /\ s \in {"sending", "sent"} => rpc[r] = "sending"
  BY DEF Ask, ReadExisting, CheckCooldown, StoreConflict, Send, SendFails,
     RequestFails, Goto, RequestStates, Unstored
<1>2. existing' \in [Requests -> Requests \cup {NoRow}]
  BY DEF Ask, ReadExisting, CheckCooldown, StoreConflict, Send, SendFails,
     RequestFails, IInv, TypeInvariant
<1>3. UNCHANGED <<clock, account, tableVars, verifyVars, history>>
  BY DEF Ask, ReadExisting, CheckCooldown, StoreConflict, Send, SendFails, RequestFails
<1>4. QED BY <1>1, <1>2, <1>3, RequestMoves

\* A verification ends, or goes on to the account; one that gives up while it
\* counts is on record.
LEMMA VerifyMoves ==
    ASSUME IInv, NEW v \in Verifies,
           NEW s \in {"creating", "granted", "banned", "failed"},
           vpc' = [vpc EXCEPT ![v] = s],
           s \in LetIn => vpc[v] \in LetIn,
           account' \in Accounts,
           undercount' = (undercount \/ vpc[v] = "counting"),
           UNCHANGED <<clock, tableVars, requestVars, guess, entry, seen,
                       revoked, accepted, compared, spentBefore>>
    PROVE  IInv'
<1> USE DEF tableVars, requestVars
<1>1. TypeInvariant'
  BY DEF IInv, TypeInvariant, VerifyStates
<1>2. UnstoredIsUnknown' /\ RowIsUnspent' /\ StoredCodeStays'
  BY DEF IInv, UnstoredIsUnknown, RowIsUnspent, StoredCodeStays, ExpiresAt
<1>3. ReadIsUnspent'
  BY DEF IInv, TypeInvariant, ReadIsUnspent, Holding, LetIn
<1>4. CountsAreEarned' /\ DropsAreDue'
  BY DEF IInv, TypeInvariant, CountsAreEarned, DropsAreDue, ExpiresAt
<1>5. SerialCounting'
  <2> SUFFICES ASSUME ~undercount' PROVE (OneHolder /\ GuessesAreCounted /\ GuessesAreCapped)'
    BY DEF SerialCounting
  <2>1. OneHolder /\ GuessesAreCounted /\ GuessesAreCapped /\ vpc[v] # "counting"
    BY DEF IInv, SerialCounting
  <2>2. \A w \in Verifies : /\ vpc'[w] = "checking" => vpc[w] = "checking"
                            /\ vpc'[w] = "counting" <=> vpc[w] = "counting"
    BY <2>1 DEF IInv, TypeInvariant
  <2>3. OneHolder' /\ GuessesAreCapped'
    BY <2>1, <2>2 DEF OneHolder, GuessesAreCapped
  <2>4. GuessesAreCounted'
    BY <2>1, <2>2 DEF GuessesAreCounted
  <2>5. QED BY <2>3, <2>4
<1>6. QED BY <1>1, <1>2, <1>3, <1>4, <1>5 DEF IInv

LEMMA AccountStepsKeepIInv ==
    ASSUME IInv, NEW v \in Verifies, FindUser(v) \/ CreateUser(v) \/ VerifyFails(v)
    PROVE  IInv'
<1>1. PICK s \in {"creating", "granted", "banned", "failed"} :
         /\ vpc' = [vpc EXCEPT ![v] = s]
         /\ s \in LetIn => vpc[v] \in LetIn
  <2>1. CASE FindUser(v)
    BY <2>1 DEF FindUser, VGoto, LetIn, IInv, TypeInvariant, Accounts
  <2>2. CASE CreateUser(v)
    BY <2>2 DEF CreateUser, VGoto, VAnswered, LetIn
  <2>3. CASE VerifyFails(v)
    BY <2>3 DEF VerifyFails, VGoto, LetIn
  <2>4. QED BY <2>1, <2>2, <2>3
<1>2. account' \in Accounts
  BY DEF FindUser, CreateUser, VerifyFails, IInv, TypeInvariant, Accounts
<1>3. undercount' = (undercount \/ vpc[v] = "counting")
  BY DEF FindUser, CreateUser, VerifyFails, history, IInv, TypeInvariant
<1>4. UNCHANGED <<clock, tableVars, requestVars, guess, entry, seen,
                  revoked, accepted, compared, spentBefore>>
  BY DEF FindUser, CreateUser, VerifyFails, history
<1>5. QED BY <1>1, <1>2, <1>3, <1>4, VerifyMoves

LEMMA AccountChangesKeepsIInv == ASSUME IInv, AccountChanges PROVE IInv'
<1> USE DEF AccountChanges, tableVars, requestVars, verifyVars, history
<1>1. TypeInvariant'
  BY DEF IInv, TypeInvariant
<1>2. UnstoredIsUnknown' /\ RowIsUnspent' /\ StoredCodeStays'
  BY DEF IInv, UnstoredIsUnknown, RowIsUnspent, StoredCodeStays, ExpiresAt
<1>3. ReadIsUnspent' /\ CountsAreEarned' /\ DropsAreDue'
  BY DEF IInv, ReadIsUnspent, CountsAreEarned, DropsAreDue, ExpiresAt
<1>4. SerialCounting'
  BY DEF IInv, SerialCounting, OneHolder, GuessesAreCounted, GuessesAreCapped
<1>5. QED BY <1>1, <1>2, <1>3, <1>4 DEF IInv

\* Time only takes codes out of their lifetime.
LEMMA TickKeepsIInv == ASSUME IInv, Tick PROVE IInv'
<1> USE DEF Tick, tableVars, requestVars, verifyVars, history
<1>1. TypeInvariant'
  BY DEF IInv, TypeInvariant
<1>2. UnstoredIsUnknown' /\ RowIsUnspent'
  BY DEF IInv, UnstoredIsUnknown, RowIsUnspent
<1>3. \A r \in Requests : ExpiresAt(r) \in Int /\ ExpiresAt(r)' = ExpiresAt(r)
  BY OtpAssumption DEF IInv, TypeInvariant, ExpiresAt
<1>4. ReadIsUnspent' /\ CountsAreEarned'
  BY DEF IInv, ReadIsUnspent, CountsAreEarned
<1>5. DropsAreDue'
  <2>1. ASSUME NEW v \in Verifies, vpc[v] = "expiring"
        PROVE  (ExpiresAt(entry[v]) < clock)'
    <3>1. entry[v] \in Requests /\ ExpiresAt(entry[v]) < clock
      BY <2>1 DEF IInv, ReadIsUnspent, Holding, DropsAreDue
    <3>2. QED BY <3>1, <1>3 DEF IInv, TypeInvariant, ExpiresAt
  <2>2. QED BY <2>1 DEF IInv, DropsAreDue
<1>6. StoredCodeStays'
  BY <1>3 DEF IInv, TypeInvariant, StoredCodeStays
<1>7. SerialCounting'
  BY DEF IInv, SerialCounting, OneHolder, GuessesAreCounted, GuessesAreCapped
<1>8. QED BY <1>1, <1>2, <1>4, <1>5, <1>6, <1>7 DEF IInv

-------------------------------------------------------------------------------
(* Requests that delete or store.                                          *)

\* What a request deletes it has revoked.
LEMMA DeletionKeepsIInv ==
    ASSUME IInv, NEW r \in Requests, Replace(r) \/ CleanUp(r) PROVE IInv'
<1>1. PICK s \in {"inserting", "failed"} :
         /\ rpc' = [rpc EXCEPT ![r] = s]
         /\ s = "inserting" => rpc[r] = "replacing"
  BY DEF Replace, CleanUp, Goto, Answered
<1>2. /\ row' = NoRow /\ revoked' = revoked \cup ({row} \ {NoRow})
      /\ UNCHANGED <<clock, account, storedAt, attempts, existing, verifyVars,
                     accepted, compared, undercount, spentBefore>>
  BY DEF Replace, CleanUp, DeleteByEmail
<1> USE <1>1, <1>2 DEF verifyVars
<1>3. TypeInvariant'
  BY DEF IInv, TypeInvariant, RequestStates
<1>4. UnstoredIsUnknown' /\ RowIsUnspent'
  BY OtpAssumption DEF IInv, TypeInvariant, UnstoredIsUnknown, RowIsUnspent, Unstored
<1>5. ReadIsUnspent' /\ CountsAreEarned' /\ DropsAreDue'
  BY DEF IInv, TypeInvariant, ReadIsUnspent, CountsAreEarned, DropsAreDue, ExpiresAt
<1>6. StoredCodeStays'
  BY OtpAssumption DEF IInv, TypeInvariant, StoredCodeStays, ExpiresAt
<1>7. SerialCounting'
  BY DEF IInv, SerialCounting, OneHolder, GuessesAreCounted, GuessesAreCapped
<1>8. QED BY <1>3, <1>4, <1>5, <1>6, <1>7 DEF IInv

\* A code nobody has seen yet takes the place of none.
LEMMA StoreKeepsIInv == ASSUME IInv, NEW r \in Requests, Store(r) PROVE IInv'
<1>1. PICK s \in {"sending", "failed"} : rpc' = [rpc EXCEPT ![r] = s]
  BY DEF Store, Goto, Answered
<1>2. /\ rpc[r] = "inserting" /\ row = NoRow /\ row' = r
      /\ storedAt' = [storedAt EXCEPT ![r] = clock]
      /\ attempts' = [attempts EXCEPT ![r] = 0]
      /\ UNCHANGED <<clock, account, existing, verifyVars, history>>
  BY DEF Store
<1>3. /\ r \notin revoked \cup accepted /\ compared[r] = 0
      /\ \A v \in Verifies : entry[v] # r
  BY <1>2 DEF IInv, UnstoredIsUnknown, Unstored
<1> USE <1>1, <1>2, <1>3 DEF verifyVars, history
<1>4. TypeInvariant'
  BY DEF IInv, TypeInvariant, RequestStates
<1>5. UnstoredIsUnknown' /\ RowIsUnspent'
  BY DEF IInv, TypeInvariant, UnstoredIsUnknown, RowIsUnspent, Unstored
<1>6. ReadIsUnspent'
  BY DEF IInv, ReadIsUnspent
<1>7. CountsAreEarned'
  BY DEF IInv, TypeInvariant, CountsAreEarned
<1>8. DropsAreDue'
  <2>1. \A v \in Verifies : vpc[v] = "expiring" => ExpiresAt(entry[v])' = ExpiresAt(entry[v])
    BY DEF IInv, TypeInvariant, ReadIsUnspent, Holding, ExpiresAt
  <2>2. QED BY <2>1 DEF IInv, DropsAreDue, ExpiresAt
<1>9. StoredCodeStays'
  <2>1. \A d \in Requests \ {r} : rpc'[d] = rpc[d] /\ ExpiresAt(d)' = ExpiresAt(d)
    BY DEF IInv, TypeInvariant, ExpiresAt
  <2>2. QED BY <2>1, OtpAssumption DEF IInv, StoredCodeStays
<1>10. SerialCounting'
  BY DEF IInv, TypeInvariant, SerialCounting, OneHolder, GuessesAreCounted, GuessesAreCapped
<1>11. QED BY <1>4, <1>5, <1>6, <1>7, <1>8, <1>9, <1>10 DEF IInv

-------------------------------------------------------------------------------
(* Verifications.                                                          *)

LEMMA TypeKeepsIInv ==
    ASSUME IInv, NEW v \in Verifies, NEW g \in Requests \cup {Wrong}, Type(v, g)
    PROVE  IInv'
<1>1. /\ vpc[v] = "idle" /\ vpc' = [vpc EXCEPT ![v] = "reading"]
      /\ guess' = [guess EXCEPT ![v] = g]
      /\ spentBefore' = [spentBefore EXCEPT ![v] = revoked \cup accepted]
      /\ UNCHANGED <<clock, account, row, storedAt, attempts, rpc, existing, entry, seen,
                     revoked, accepted, compared, undercount>>
  BY DEF Type, VGoto, tableVars, requestVars
<1> USE <1>1
<1>2. TypeInvariant'
  BY DEF IInv, TypeInvariant, VerifyStates
<1>3. UnstoredIsUnknown' /\ RowIsUnspent' /\ StoredCodeStays'
  BY DEF IInv, UnstoredIsUnknown, RowIsUnspent, StoredCodeStays, ExpiresAt
<1>4. ReadIsUnspent'
  BY DEF IInv, TypeInvariant, ReadIsUnspent, Holding, LetIn
<1>5. CountsAreEarned' /\ DropsAreDue'
  BY DEF IInv, TypeInvariant, CountsAreEarned, DropsAreDue, ExpiresAt
<1>6. SerialCounting'
  <2>1. \A w \in Verifies : /\ vpc'[w] = "checking" <=> vpc[w] = "checking"
                            /\ vpc'[w] = "counting" <=> vpc[w] = "counting"
    BY DEF IInv, TypeInvariant
  <2>2. QED BY <2>1 DEF IInv, SerialCounting, OneHolder, GuessesAreCounted, GuessesAreCapped
<1>7. QED BY <1>2, <1>3, <1>4, <1>5, <1>6 DEF IInv

\* What is read is unspent, and its attempts are all that has been counted,
\* unless somebody else holds the row.
LEMMA ReadEntryKeepsIInv == ASSUME IInv, NEW v \in Verifies, ReadEntry(v) PROVE IInv'
<1>1. /\ vpc[v] = "reading" /\ entry' = [entry EXCEPT ![v] = row]
      /\ UNCHANGED <<clock, account, row, storedAt, attempts, rpc, existing, guess,
                     revoked, accepted, compared, spentBefore>>
  BY DEF ReadEntry, tableVars, requestVars
<1>2. \/ /\ row = NoRow
         /\ vpc' = [vpc EXCEPT ![v] = "invalid"] /\ seen' = seen
         /\ undercount' = undercount
      \/ /\ row \in Requests /\ row # NoRow
         /\ vpc' = [vpc EXCEPT ![v] = "checking"]
         /\ seen' = [seen EXCEPT ![v] = attempts[row]]
         /\ undercount' = (undercount \/ Holders(row) # {})
  BY DEF ReadEntry, VGoto, IInv, TypeInvariant
<1> USE <1>1
<1>3. TypeInvariant'
  BY <1>2 DEF IInv, TypeInvariant, VerifyStates
<1>4. UnstoredIsUnknown' /\ RowIsUnspent' /\ StoredCodeStays'
  BY DEF IInv, TypeInvariant, UnstoredIsUnknown, RowIsUnspent, StoredCodeStays, ExpiresAt
<1>5. ReadIsUnspent'
  BY <1>2 DEF IInv, TypeInvariant, ReadIsUnspent, RowIsUnspent, Holding, LetIn
<1>6. CountsAreEarned'
  BY <1>2 DEF IInv, TypeInvariant, CountsAreEarned
<1>7. DropsAreDue'
  BY <1>2 DEF IInv, TypeInvariant, DropsAreDue, ExpiresAt
<1>8. SerialCounting'
  <2> SUFFICES ASSUME ~undercount' PROVE (OneHolder /\ GuessesAreCounted /\ GuessesAreCapped)'
    BY DEF SerialCounting
  <2>1. OneHolder /\ GuessesAreCounted /\ GuessesAreCapped
    BY <1>2 DEF IInv, SerialCounting
  <2>2. \A w \in Verifies \ {v} : /\ vpc'[w] = vpc[w] /\ entry'[w] = entry[w]
                                  /\ seen'[w] = seen[w]
    BY <1>2 DEF IInv, TypeInvariant
  <2>3. CASE row = NoRow
    <3>1. vpc'[v] = "invalid"
      BY <2>3, <1>2 DEF IInv, TypeInvariant
    <3>2. QED BY <2>1, <2>2, <2>3, <3>1 DEF OneHolder, GuessesAreCounted, GuessesAreCapped
  <2>4. CASE row # NoRow
    <3>1. /\ row \in Requests /\ Holders(row) = {}
          /\ vpc'[v] = "checking" /\ entry'[v] = row /\ seen'[v] = attempts[row]
      BY <2>4, <1>2 DEF IInv, TypeInvariant
    <3>2. \A w \in Verifies : vpc[w] \in {"checking", "counting"} => entry[w] # row
      BY <3>1 DEF Holders
    <3>3. OneHolder' /\ GuessesAreCapped'
      BY <2>1, <2>2, <3>1, <3>2 DEF OneHolder, GuessesAreCapped
    <3>4. compared[row] <= attempts[row]
      BY <2>1, <2>4, <3>2 DEF GuessesAreCounted
    <3>5. GuessesAreCounted'
      BY <2>1, <2>2, <3>1, <3>4 DEF GuessesAreCounted
    <3>6. QED BY <3>3, <3>5
  <2>5. QED BY <2>3, <2>4
<1>9. QED BY <1>3, <1>4, <1>5, <1>6, <1>7, <1>8 DEF IInv

\* A wrong guess is compared once more, and is then about to be counted.
LEMMA CheckEntryKeepsIInv == ASSUME IInv, NEW v \in Verifies, CheckEntry(v) PROVE IInv'
<1> DEFINE e == entry[v]
<1>1. /\ vpc[v] = "checking" /\ e \in Requests \ spentBefore[v]
      /\ UNCHANGED <<clock, account, row, storedAt, attempts, rpc, existing, guess,
                     entry, seen, revoked, accepted, undercount, spentBefore>>
  BY DEF CheckEntry, tableVars, requestVars, IInv, ReadIsUnspent, Holding
<1>2. \/ /\ Expired(v)
         /\ vpc' = [vpc EXCEPT ![v] = "expiring"] /\ compared' = compared
      \/ /\ Exhausted(v)
         /\ vpc' = [vpc EXCEPT ![v] = "capping"] /\ compared' = compared
      \/ /\ ~Exhausted(v)
         /\ vpc' = [vpc EXCEPT ![v] = "counting"]
         /\ compared' = [compared EXCEPT ![e] = @ + 1]
      \/ /\ guess[v] = e
         /\ vpc' = [vpc EXCEPT ![v] = "consuming"] /\ compared' = compared
  BY DEF CheckEntry, VGoto
<1> USE <1>1
<1>3. TypeInvariant'
  BY <1>2 DEF IInv, TypeInvariant, VerifyStates
<1>4. \A d \in Requests : /\ compared[d] \in Nat /\ compared'[d] \in Nat
                          /\ compared[d] <= compared'[d]
                          /\ d # e => compared'[d] = compared[d]
  BY <1>2 DEF IInv, TypeInvariant
<1>5. \A w \in Verifies \ {v} : vpc'[w] = vpc[w]
  BY <1>2 DEF IInv, TypeInvariant
<1>6. UnstoredIsUnknown' /\ RowIsUnspent'
  BY <1>4 DEF IInv, UnstoredIsUnknown, RowIsUnspent
<1>7. ReadIsUnspent'
  BY <1>2 DEF IInv, TypeInvariant, ReadIsUnspent, Holding, LetIn
<1>8. seen[v] <= compared[e] /\ seen[v] \in Nat
  BY DEF IInv, TypeInvariant, CountsAreEarned
<1>9. CountsAreEarned'
  <2>1. \A d \in Requests : attempts[d] <= compared'[d]
    BY <1>4 DEF IInv, TypeInvariant, CountsAreEarned
  <2>2. ASSUME NEW w \in Verifies \ {v}
        PROVE  /\ vpc'[w] = "checking" => seen[w] <= compared'[entry[w]]
               /\ vpc'[w] = "counting" => seen[w] < compared'[entry[w]]
    <3>1. vpc[w] \in {"checking", "counting"} => entry[w] \in Requests
      BY DEF IInv, ReadIsUnspent, Holding
    <3>2. seen[w] \in Nat
      BY DEF IInv, TypeInvariant
    <3>3. QED BY <3>1, <3>2, <1>4, <1>5 DEF IInv, CountsAreEarned
  <2>3. vpc'[v] # "checking" /\ (vpc'[v] = "counting" => seen[v] < compared'[e])
    BY <1>2, <1>8 DEF IInv, TypeInvariant
  <2>4. QED BY <2>1, <2>2, <2>3 DEF CountsAreEarned
<1>10. DropsAreDue'
  <2>1. ASSUME NEW w \in Verifies \ {v}
        PROVE  /\ vpc'[w] = "expiring" => ExpiresAt(entry[w]) < clock
               /\ vpc'[w] = "capping" => compared'[entry[w]] >= MaxAttempts
    <3>1. vpc[w] = "capping" => entry[w] \in Requests
      BY DEF IInv, ReadIsUnspent, Holding
    <3>2. QED BY <3>1, <1>4, <1>5, OtpAssumption DEF IInv, DropsAreDue
  <2>2. vpc'[v] = "expiring" => ExpiresAt(e) < clock
    BY <1>2 DEF Expired, IInv, TypeInvariant
  <2>3. vpc'[v] = "capping" => compared'[e] >= MaxAttempts
    <3>1. vpc'[v] = "capping" => Exhausted(v) /\ compared' = compared
      BY <1>2 DEF IInv, TypeInvariant
    <3>2. QED BY <3>1, <1>4, <1>8, OtpAssumption DEF Exhausted
  <2>4. QED BY <2>1, <2>2, <2>3 DEF DropsAreDue, ExpiresAt
<1>11. StoredCodeStays'
  BY <1>4, OtpAssumption DEF IInv, StoredCodeStays, ExpiresAt
<1>12. SerialCounting'
  <2> SUFFICES ASSUME ~undercount PROVE (OneHolder /\ GuessesAreCounted /\ GuessesAreCapped)'
    BY DEF SerialCounting
  <2>1. OneHolder /\ GuessesAreCounted /\ GuessesAreCapped
    BY DEF IInv, SerialCounting
  <2>2. OneHolder'
    BY <2>1, <1>5 DEF OneHolder
  <2>3. compared[e] <= seen[v]
    BY <2>1 DEF GuessesAreCounted
  <2>4. GuessesAreCapped'
    <3>1. compared'[e] <= MaxAttempts
      BY <1>2, <1>4, <1>8, <2>1, <2>3, OtpAssumption DEF GuessesAreCapped, Exhausted,
         IInv, TypeInvariant
    <3>2. QED BY <3>1, <2>1, <1>4 DEF GuessesAreCapped
  <2>5. ASSUME NEW w \in Verifies \ {v}
        PROVE  /\ vpc'[w] = "checking" => compared'[entry[w]] <= seen[w]
               /\ vpc'[w] = "counting" => compared'[entry[w]] <= seen[w] + 1
    <3>1. vpc[w] \in {"checking", "counting"} => entry[w] \in Requests \ {e}
      BY <2>1 DEF OneHolder, IInv, ReadIsUnspent, Holding
    <3>2. QED BY <3>1, <2>1, <1>4, <1>5 DEF GuessesAreCounted
  <2>6. vpc'[v] # "checking" /\ (vpc'[v] = "counting" => compared'[e] <= seen[v] + 1)
    BY <1>2, <1>8, <2>3 DEF IInv, TypeInvariant
  <2>7. row # NoRow => \/ compared'[row] <= attempts[row]
                       \/ \E w \in Verifies : vpc'[w] = "counting" /\ entry[w] = row
    <3>1. compared' = compared \/ vpc'[v] = "counting"
      BY <1>2 DEF IInv, TypeInvariant
    <3>2. CASE row = e /\ vpc'[v] = "counting"
      BY <3>2
    <3>3. CASE row # NoRow /\ ~(row = e /\ vpc'[v] = "counting")
      <4>1. compared'[row] = compared[row]
        BY <3>1, <3>3, <1>4 DEF IInv, TypeInvariant
      <4>2. QED BY <3>3, <4>1, <2>1, <1>5 DEF GuessesAreCounted
    <3>4. QED BY <3>2, <3>3
  <2>8. GuessesAreCounted'
    BY <2>5, <2>6, <2>7 DEF GuessesAreCounted
  <2>9. QED BY <2>2, <2>4, <2>8
<1>13. QED BY <1>3, <1>6, <1>7, <1>9, <1>10, <1>11, <1>12 DEF IInv

LEMMA CountAttemptKeepsIInv ==
    ASSUME IInv, NEW v \in Verifies, CountAttempt(v) PROVE IInv'
<1>1. PICK s \in {"invalid", "failed"} : vpc' = [vpc EXCEPT ![v] = s]
  BY DEF CountAttempt, VGoto, VAnswered
<1>2. /\ vpc[v] = "counting"
      /\ attempts' = IF row = entry[v] THEN [attempts EXCEPT ![row] = seen[v] + 1]
                                       ELSE attempts
      /\ UNCHANGED <<clock, account, row, storedAt, rpc, existing, guess, entry, seen,
                     revoked, accepted, compared, undercount, spentBefore>>
  BY DEF CountAttempt, requestVars, history
<1> USE <1>1, <1>2
<1>3. TypeInvariant'
  <2>1. seen[v] + 1 \in Nat /\ attempts \in [Requests -> Nat]
    BY DEF IInv, TypeInvariant
  <2>2. attempts' \in [Requests -> Nat]
    BY <2>1
  <2>3. QED BY <2>2 DEF IInv, TypeInvariant, VerifyStates
<1>4. UnstoredIsUnknown' /\ RowIsUnspent' /\ StoredCodeStays'
  BY DEF IInv, UnstoredIsUnknown, RowIsUnspent, StoredCodeStays, ExpiresAt
<1>5. ReadIsUnspent'
  BY DEF IInv, TypeInvariant, ReadIsUnspent, Holding, LetIn
<1>6. CountsAreEarned'
  BY DEF IInv, TypeInvariant, CountsAreEarned
<1>7. DropsAreDue'
  BY DEF IInv, TypeInvariant, DropsAreDue, ExpiresAt
<1>8. SerialCounting'
  BY DEF IInv, TypeInvariant, SerialCounting, OneHolder, GuessesAreCounted, GuessesAreCapped
<1>9. QED BY <1>3, <1>4, <1>5, <1>6, <1>7, <1>8 DEF IInv

\* A row is dropped that has expired or been guessed at too often.
LEMMA DropEntryKeepsIInv == ASSUME IInv, NEW v \in Verifies, DropEntry(v) PROVE IInv'
<1>1. PICK s \in {"expired", "capped", "failed"} : vpc' = [vpc EXCEPT ![v] = s]
  BY DEF DropEntry, VGoto, VAnswered
<1>2. /\ vpc[v] \in {"expiring", "capping"}
      /\ row' = IF row = entry[v] THEN NoRow ELSE row
      /\ UNCHANGED <<clock, account, storedAt, attempts, rpc, existing, guess, entry,
                     seen, revoked, accepted, compared, undercount, spentBefore>>
  BY DEF DropEntry, DeleteEntry, requestVars, history
<1> USE <1>1, <1>2
<1>3. TypeInvariant'
  BY DEF IInv, TypeInvariant, VerifyStates
<1>4. UnstoredIsUnknown' /\ RowIsUnspent'
  BY OtpAssumption DEF IInv, TypeInvariant, UnstoredIsUnknown, RowIsUnspent
<1>5. ReadIsUnspent'
  BY DEF IInv, TypeInvariant, ReadIsUnspent, Holding, LetIn
<1>6. CountsAreEarned' /\ DropsAreDue'
  BY DEF IInv, TypeInvariant, CountsAreEarned, DropsAreDue, ExpiresAt
<1>7. StoredCodeStays'
  <2>1. ~(clock <= ExpiresAt(entry[v]) /\ compared[entry[v]] < MaxAttempts)
    <3>1. entry[v] \in Requests
      BY DEF IInv, ReadIsUnspent, Holding
    <3>2. QED BY <3>1, OtpAssumption DEF IInv, TypeInvariant, DropsAreDue, ExpiresAt
  <2>2. QED BY <2>1 DEF IInv, StoredCodeStays, ExpiresAt
<1>8. SerialCounting'
  BY DEF IInv, TypeInvariant, SerialCounting, OneHolder, GuessesAreCounted, GuessesAreCapped
<1>9. QED BY <1>3, <1>4, <1>5, <1>6, <1>7, <1>8 DEF IInv

\* What is accepted leaves the table, if it is still there.
LEMMA ConsumeKeepsIInv == ASSUME IInv, NEW v \in Verifies, Consume(v) PROVE IInv'
<1>1. PICK s \in {"finding", "failed"} : vpc' = [vpc EXCEPT ![v] = s]
  BY DEF Consume, VGoto, VAnswered
<1>2. /\ vpc[v] = "consuming" /\ entry[v] \in Requests
      /\ row' = IF row = entry[v] THEN NoRow ELSE row
      /\ accepted' = accepted \cup {entry[v]}
      /\ UNCHANGED <<clock, account, storedAt, attempts, rpc, existing, guess, entry,
                     seen, revoked, compared, undercount, spentBefore>>
  BY DEF Consume, DeleteEntry, requestVars, IInv, ReadIsUnspent, LetIn
<1> USE <1>1, <1>2
<1>3. TypeInvariant'
  BY DEF IInv, TypeInvariant, VerifyStates
<1>4. UnstoredIsUnknown' /\ RowIsUnspent'
  BY OtpAssumption DEF IInv, TypeInvariant, UnstoredIsUnknown, RowIsUnspent
<1>5. ReadIsUnspent'
  BY DEF IInv, TypeInvariant, ReadIsUnspent, Holding, LetIn
<1>6. CountsAreEarned' /\ DropsAreDue'
  BY DEF IInv, TypeInvariant, CountsAreEarned, DropsAreDue, ExpiresAt
<1>7. StoredCodeStays'
  BY DEF IInv, StoredCodeStays, ExpiresAt
<1>8. SerialCounting'
  BY DEF IInv, TypeInvariant, SerialCounting, OneHolder, GuessesAreCounted, GuessesAreCapped
<1>9. QED BY <1>3, <1>4, <1>5, <1>6, <1>7, <1>8 DEF IInv

-------------------------------------------------------------------------------
LEMMA StutterKeepsIInv == ASSUME IInv, UNCHANGED vars PROVE IInv'
<1> USE DEF vars, tableVars, requestVars, verifyVars, history
<1>1. TypeInvariant'
  BY DEF IInv, TypeInvariant
<1>2. UnstoredIsUnknown' /\ RowIsUnspent' /\ StoredCodeStays'
  BY DEF IInv, UnstoredIsUnknown, RowIsUnspent, StoredCodeStays, ExpiresAt
<1>3. ReadIsUnspent' /\ CountsAreEarned' /\ DropsAreDue'
  BY DEF IInv, ReadIsUnspent, CountsAreEarned, DropsAreDue, ExpiresAt
<1>4. SerialCounting'
  BY DEF IInv, SerialCounting, OneHolder, GuessesAreCounted, GuessesAreCapped
<1>5. QED BY <1>1, <1>2, <1>3, <1>4 DEF IInv

LEMMA NextIInv == ASSUME IInv, [Next]_vars PROVE IInv'
<1>1. CASE Tick
  BY <1>1, TickKeepsIInv
<1>2. CASE AccountChanges
  BY <1>2, AccountChangesKeepsIInv
<1>3. ASSUME NEW r \in Requests, Ask(r) \/ RequestStep(r) PROVE IInv'
  BY <1>3, RequestStepsKeepIInv, DeletionKeepsIInv, StoreKeepsIInv DEF RequestStep
<1>4. ASSUME NEW v \in Verifies, VerifyStep(v) PROVE IInv'
  BY <1>4, ReadEntryKeepsIInv, CheckEntryKeepsIInv, CountAttemptKeepsIInv,
     DropEntryKeepsIInv, ConsumeKeepsIInv, AccountStepsKeepIInv DEF VerifyStep
<1>5. ASSUME NEW v \in Verifies, NEW g \in Requests \cup {Wrong}, Type(v, g) PROVE IInv'
  BY <1>5, TypeKeepsIInv
<1>6. CASE UNCHANGED vars
  BY <1>6, StutterKeepsIInv
<1>7. QED BY <1>1, <1>2, <1>3, <1>4, <1>5, <1>6 DEF Next

\* The inductive invariant holds in every reachable state.
THEOREM OtpInvariant == Spec => []IInv
BY InitIInv, NextIInv, PTL DEF Spec

(***************************************************************************)
(* The table, the handlers and the history keep their types.               *)
(***************************************************************************)
THEOREM OtpTypes == Spec => []TypeInvariant
<1>1. IInv => TypeInvariant
  BY DEF IInv
<1>2. QED BY <1>1, OtpInvariant, PTL

(***************************************************************************)
(* A verification that begins after a code was accepted, replaced or       *)
(* cleaned up does not accept it, whichever row it finds in the table.     *)
(***************************************************************************)
THEOREM OtpSpentCodesStaySpent == Spec => []SpentCodesStaySpent
<1>1. IInv => SpentCodesStaySpent
  BY DEF IInv, ReadIsUnspent, LetIn, SpentCodesStaySpent
<1>2. QED BY <1>1, OtpInvariant, PTL

(***************************************************************************)
(* A delivered code keeps working until it is revoked, accepted, expired   *)
(* or guessed at too often; no late clean-up of another row harms it.      *)
(***************************************************************************)
THEOREM OtpDeliveredCodeKeepsWorking == Spec => []DeliveredCodeKeepsWorking
<1>1. IInv => DeliveredCodeKeepsWorking
  BY DEF IInv, StoredCodeStays, DeliveredCodeKeepsWorking
<1>2. QED BY <1>1, OtpInvariant, PTL

(***************************************************************************)
(* Verifications of which no two hold the row at once, and whose updates   *)
(* do not fail, compare no code with more wrong guesses than the cap.      *)
(***************************************************************************)
THEOREM OtpSerialGuessesAreCapped == Spec => []SerialGuessesAreCapped
<1>1. IInv => SerialGuessesAreCapped
  BY DEF IInv, SerialCounting, GuessesAreCapped, SerialGuessesAreCapped
<1>2. QED BY <1>1, OtpInvariant, PTL
===============================================================================
