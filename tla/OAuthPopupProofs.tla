---------------------------- MODULE OAuthPopupProofs ----------------------------
(***************************************************************************)
(* Proofs about OAuthPopup for any number of popups, providers and users,  *)
(* and whatever the ages of the two cookies.                               *)
(***************************************************************************)
EXTENDS OAuthPopup, TLAPS

\* The popup has started its attempt.
Left(b) == pc[b] \notin {"shut", "opened"}

Rival(b) == \E c \in Popups \ {b} : provider[c] = provider[b] /\ Left(c)

CookieNamesItsPopup ==
    \A p \in Providers, b \in Popups :
        attemptCookie[p].popup = b => provider[b] = p /\ Left(b) /\ ~answered[b]

KeepsItsAttempt(b) ==
    Left(b) =>
        \/ attemptCookie[provider[b]] = [popup |-> b, until |-> leftAt[b] + AttemptAge]
        \/ answered[b]
        \/ Rival(b)

AttemptIsKept == \A b \in Popups : KeepsItsAttempt(b)

\* Only what the provider has refused is answered as declined.
AnswersFit ==
    \A b \in Popups :
        /\ ~Left(b) => ~answered[b] /\ answer[b] = "none"
        /\ pc[b] = "answering" => (answer[b] = "declined" <=> url[b] # "code")

\* The popup has been told, and has lost the link cookie with that.
Settled(c) == pc[c] = "done" /\ answer[c] \in {"linked", "mismatch", "conflict"}

LinkHasAnAsker ==
    linkCookie.user # NoUser =>
        \E c \in Popups :
            /\ asker[c] = linkCookie.user
            /\ linkCookie.until = openedAt[c] + LinkAge
            /\ pc[c] # "shut"
            /\ ~Settled(c)

IInv ==
    /\ TypeInvariant
    /\ CookieNamesItsPopup
    /\ AttemptIsKept
    /\ AnswersFit
    /\ LinkHasAnAsker
    /\ RefusalsHaveACause

-------------------------------------------------------------------------------
LEMMA InitSatisfiesIInv == ASSUME Init PROVE IInv
<1>1. TypeInvariant
  BY OAuthPopupAssumption DEF Init, TypeInvariant, NoAttempt, NoLink, Times
<1>2. CookieNamesItsPopup
  BY OAuthPopupAssumption DEF Init, CookieNamesItsPopup, NoAttempt
<1>3. AttemptIsKept /\ AnswersFit
  BY DEF Init, AttemptIsKept, KeepsItsAttempt, AnswersFit, Left
<1>4. LinkHasAnAsker
  BY DEF Init, LinkHasAnAsker, NoLink
<1>5. RefusalsHaveACause
  BY DEF Init, RefusalsHaveACause
<1>6. QED BY <1>1, <1>2, <1>3, <1>4, <1>5 DEF IInv

\* Only the link cookie and the popup's own history change.
LEMMA OpenToLinkKeepsIInv ==
    ASSUME IInv, NEW b \in Popups, OpenToLink(b) PROVE IInv'
<1>1. /\ pc[b] = "shut" /\ pc' = [pc EXCEPT ![b] = "opened"]
      /\ clock' = clock /\ attemptCookie' = attemptCookie /\ provider' = provider
      /\ url' = url /\ answer' = answer /\ linked' = linked /\ redeemed' = redeemed
      /\ leftAt' = leftAt /\ answered' = answered
      /\ openedAt' = [openedAt EXCEPT ![b] = clock]
  BY DEF OpenToLink, Goto
<1>2. PICK u \in Users : /\ linkCookie' = [user |-> u, until |-> clock + LinkAge]
                         /\ asker' = [asker EXCEPT ![b] = u]
  BY DEF OpenToLink, LinkCookieFor
<1>3. TypeInvariant'
  BY <1>1, <1>2, OAuthPopupAssumption DEF IInv, TypeInvariant, Times
<1>4. \A c \in Popups : Left(c)' <=> Left(c)
  BY <1>1 DEF IInv, TypeInvariant, Left
<1>5. CookieNamesItsPopup'
  BY <1>1, <1>4 DEF IInv, CookieNamesItsPopup
<1>6. AttemptIsKept'
  BY <1>1, <1>4 DEF IInv, AttemptIsKept, KeepsItsAttempt, Rival
<1>7. AnswersFit'
  BY <1>1, <1>4 DEF IInv, TypeInvariant, AnswersFit
<1>8. LinkHasAnAsker'
  BY <1>1, <1>2 DEF IInv, TypeInvariant, LinkHasAnAsker, Settled
<1>9. RefusalsHaveACause'
  BY <1>1, <1>4 DEF IInv, RefusalsHaveACause, Left
<1>10. QED BY <1>3, <1>5, <1>6, <1>7, <1>8, <1>9 DEF IInv

\* A new attempt takes the cookie of its provider, whose other popups it rivals.
LEMMA LeaveKeepsIInv ==
    ASSUME IInv, NEW b \in Popups, Leave(b) PROVE IInv'
<1>1. /\ ~Left(b) /\ pc' = [pc EXCEPT ![b] = "consenting"]
      /\ clock' = clock /\ linkCookie' = linkCookie /\ provider' = provider
      /\ url' = url /\ answer' = answer /\ linked' = linked /\ redeemed' = redeemed
      /\ asker' = asker /\ openedAt' = openedAt /\ answered' = answered
      /\ leftAt' = [leftAt EXCEPT ![b] = clock]
      /\ attemptCookie' = [attemptCookie EXCEPT ![provider[b]] =
                              [popup |-> b, until |-> clock + AttemptAge]]
  BY DEF Leave, Goto, Left, CookieNames, IInv, TypeInvariant
<1>2. TypeInvariant'
  BY <1>1, OAuthPopupAssumption DEF IInv, TypeInvariant, Times
<1>3. /\ Left(b)'
      /\ \A c \in Popups \ {b} : Left(c)' <=> Left(c)
      /\ ~answered[b] /\ answer[b] = "none"
  BY <1>1 DEF IInv, TypeInvariant, Left, AnswersFit
<1>4. CookieNamesItsPopup'
  BY <1>1, <1>3, OAuthPopupAssumption DEF IInv, TypeInvariant, CookieNamesItsPopup
<1>5. ASSUME NEW c \in Popups PROVE KeepsItsAttempt(c)'
  <2>1. CASE c = b
    BY <2>1, <1>1 DEF IInv, TypeInvariant, KeepsItsAttempt
  <2>2. CASE c # b /\ provider[c] = provider[b]
    BY <2>2, <1>1, <1>3 DEF KeepsItsAttempt, Rival
  <2>3. CASE c # b /\ provider[c] # provider[b]
    BY <2>3, <1>1, <1>3 DEF IInv, TypeInvariant, AttemptIsKept, KeepsItsAttempt, Rival
  <2>4. QED BY <2>1, <2>2, <2>3
<1>6. AnswersFit'
  BY <1>1, <1>3 DEF IInv, TypeInvariant, AnswersFit
<1>7. LinkHasAnAsker'
  BY <1>1 DEF IInv, TypeInvariant, LinkHasAnAsker, Settled
<1>8. RefusalsHaveACause'
  BY <1>1, <1>3 DEF IInv, TypeInvariant, RefusalsHaveACause, Left
<1>9. QED BY <1>2, <1>4, <1>5, <1>6, <1>7, <1>8 DEF IInv, AttemptIsKept

\* A step in which every popup that has left, and only those, remains so, and
\* no cookie changes.
LEMMA ConsentKeepsIInv ==
    ASSUME IInv, NEW b \in Popups, Consent(b) PROVE IInv'
<1>1. /\ pc[b] = "consenting" /\ pc' = [pc EXCEPT ![b] = "returning"]
      /\ clock' = clock /\ attemptCookie' = attemptCookie /\ linkCookie' = linkCookie
      /\ provider' = provider /\ answer' = answer /\ linked' = linked
      /\ redeemed' = redeemed /\ asker' = asker /\ openedAt' = openedAt
      /\ leftAt' = leftAt /\ answered' = answered
  BY DEF Consent, Goto, cookies, history
<1>2. PICK verdict \in {"code", "error"} : url' = [url EXCEPT ![b] = verdict]
  BY DEF Consent
<1>3. TypeInvariant'
  BY <1>1, <1>2 DEF IInv, TypeInvariant
<1>4. \A c \in Popups : Left(c)' <=> Left(c)
  BY <1>1 DEF IInv, TypeInvariant, Left
<1>5. CookieNamesItsPopup' /\ AttemptIsKept'
  BY <1>1, <1>4 DEF IInv, CookieNamesItsPopup, AttemptIsKept, KeepsItsAttempt, Rival
<1>6. AnswersFit'
  BY <1>1, <1>2, <1>4 DEF IInv, TypeInvariant, AnswersFit
<1>7. LinkHasAnAsker'
  BY <1>1 DEF IInv, TypeInvariant, LinkHasAnAsker, Settled
<1>8. RefusalsHaveACause'
  BY <1>1, <1>4 DEF IInv, RefusalsHaveACause, Left
<1>9. QED BY <1>3, <1>5, <1>6, <1>7, <1>8 DEF IInv

\* A state that does not match has expired, or has gone with the cookie.
LEMMA MismatchHasACause ==
    ASSUME IInv, NEW b \in Popups, Left(b), ~StateMatches(b)
    PROVE  clock >= leftAt[b] + AttemptAge \/ answered[b] \/ Rival(b)
<1>1. KeepsItsAttempt(b)
  BY DEF IInv, AttemptIsKept
<1>2. /\ clock \in Nat /\ leftAt[b] \in Nat /\ AttemptAge \in Nat
  BY OAuthPopupAssumption DEF IInv, TypeInvariant, Times
<1>3. QED BY <1>1, <1>2 DEF KeepsItsAttempt, StateMatches

LEMMA CallbackKeepsIInv ==
    ASSUME IInv, NEW b \in Popups, Callback(b) PROVE IInv'
<1>1. /\ pc[b] \in {"returning", "done"} /\ pc' = [pc EXCEPT ![b] = "answering"]
      /\ clock' = clock /\ attemptCookie' = attemptCookie /\ linkCookie' = linkCookie
      /\ provider' = provider /\ url' = url /\ asker' = asker
      /\ openedAt' = openedAt /\ leftAt' = leftAt /\ answered' = answered
  BY DEF Callback, Goto, cookies, history
<1>2. PICK outcome \in Accepted \cup {"declined", "mismatch"} :
         /\ answer' = [answer EXCEPT ![b] = outcome]
         /\ outcome = "declined" <=> url[b] # "code"
         /\ outcome = "mismatch" => ~StateMatches(b)
  BY DEF Callback, Outcomes, Accepted
<1>3. TypeInvariant'
  <2>1. linked' \in [Popups -> Users \cup {NoUser}] /\ redeemed' \subseteq Popups
    BY DEF Callback, IInv, TypeInvariant, LinkUser
  <2>2. QED BY <1>1, <1>2, <2>1 DEF IInv, TypeInvariant
<1>4. (\A c \in Popups : Left(c)' <=> Left(c)) /\ Left(b)
  BY <1>1 DEF IInv, TypeInvariant, Left
<1>5. CookieNamesItsPopup' /\ AttemptIsKept'
  BY <1>1, <1>4 DEF IInv, CookieNamesItsPopup, AttemptIsKept, KeepsItsAttempt, Rival
<1>6. AnswersFit'
  BY <1>1, <1>2, <1>4 DEF IInv, TypeInvariant, AnswersFit
<1>7. LinkHasAnAsker'
  <2>1. \A c \in Popups : Settled(c)' => Settled(c)
    BY <1>1, <1>2 DEF IInv, TypeInvariant, Settled
  <2>2. \A c \in Popups : pc'[c] = "shut" => pc[c] = "shut"
    BY <1>1 DEF IInv, TypeInvariant
  <2>3. QED BY <1>1, <2>1, <2>2 DEF IInv, LinkHasAnAsker
<1>8. RefusalsHaveACause'
  <2>1. ASSUME NEW c \in Popups, answer'[c] = "mismatch"
        PROVE  clock >= leftAt[c] + AttemptAge \/ answered[c] \/ Rival(c)
    <3>1. CASE c = b
      BY <3>1, <2>1, <1>2, <1>4, MismatchHasACause DEF IInv, TypeInvariant
    <3>2. CASE c # b
      BY <3>2, <2>1, <1>2 DEF IInv, TypeInvariant, RefusalsHaveACause, Rival, Left
    <3>3. QED BY <3>1, <3>2
  <2>2. QED BY <2>1, <1>1, <1>4 DEF RefusalsHaveACause, Rival, Left
<1>9. QED BY <1>3, <1>5, <1>6, <1>7, <1>8 DEF IInv

\* An answer to a code takes the attempt cookie away, whatever it says; one
\* that settles a link takes the link cookie away.
LEMMA ReceiveKeepsIInv ==
    ASSUME IInv, NEW b \in Popups, Receive(b) PROVE IInv'
<1>1. /\ pc[b] = "answering" /\ pc' = [pc EXCEPT ![b] = "done"]
      /\ clock' = clock /\ provider' = provider /\ url' = url /\ answer' = answer
      /\ linked' = linked /\ redeemed' = redeemed /\ asker' = asker
      /\ openedAt' = openedAt /\ leftAt' = leftAt
      /\ answered' = [answered EXCEPT ![b] = answered[b] \/ url[b] = "code"]
      /\ linkCookie' = IF ClearsLink(b) THEN NoLink ELSE linkCookie
  BY DEF Receive, Goto
<1>2. attemptCookie' = [p \in Providers |->
         IF ClearsAttempt(b) /\ p = provider[b] THEN NoAttempt ELSE attemptCookie[p]]
  BY DEF Receive, CookieNames
<1>3. ClearsAttempt(b) <=> url[b] = "code"
  BY <1>1 DEF IInv, AnswersFit, ClearsAttempt
<1>4. TypeInvariant'
  <2>1. answered' \in [Popups -> BOOLEAN]
    BY <1>1 DEF IInv, TypeInvariant
  <2>2. attemptCookie' \in [Providers -> [popup : Popups \cup {NoPopup}, until : Nat]]
    BY <1>2 DEF IInv, TypeInvariant, NoAttempt
  <2>3. linkCookie' \in [user : Users \cup {NoUser}, until : Nat]
    BY <1>1 DEF IInv, TypeInvariant, NoLink
  <2>4. QED BY <1>1, <2>1, <2>2, <2>3 DEF IInv, TypeInvariant
<1>5. /\ \A c \in Popups : Left(c)' <=> Left(c)
      /\ Left(b)
  BY <1>1 DEF IInv, TypeInvariant, Left
<1>6. CookieNamesItsPopup'
  <2>1. ASSUME NEW p \in Providers, NEW c \in Popups, attemptCookie'[p].popup = c
        PROVE  provider[c] = p /\ Left(c) /\ ~answered'[c]
    <3>1. attemptCookie[p].popup = c /\ ~(ClearsAttempt(b) /\ p = provider[b])
      BY <2>1, <1>2, OAuthPopupAssumption DEF NoAttempt
    <3>2. provider[c] = p /\ Left(c) /\ ~answered[c]
      BY <3>1 DEF IInv, CookieNamesItsPopup
    <3>3. c = b => url[b] # "code"
      BY <3>1, <3>2, <1>3
    <3>4. ~answered'[c]
      BY <3>2, <3>3, <1>1 DEF IInv, TypeInvariant
    <3>5. QED BY <3>2, <3>4
  <2>2. QED BY <2>1, <1>1, <1>5 DEF CookieNamesItsPopup
<1>7. ASSUME NEW c \in Popups PROVE KeepsItsAttempt(c)'
  <2>1. CASE c = b
    <3>1. CASE url[b] = "code"
      BY <3>1, <2>1, <1>1 DEF IInv, TypeInvariant, KeepsItsAttempt
    <3>2. CASE url[b] # "code"
      <4>1. attemptCookie'[provider[b]] = attemptCookie[provider[b]]
        BY <3>2, <1>2, <1>3 DEF IInv, TypeInvariant
      <4>2. answered'[b] = answered[b] /\ (Rival(b)' <=> Rival(b))
        BY <3>2, <1>1, <1>5 DEF IInv, TypeInvariant, Rival
      <4>3. KeepsItsAttempt(b)
        BY DEF IInv, AttemptIsKept
      <4>4. QED BY <2>1, <4>1, <4>2, <4>3, <1>1, <1>5 DEF KeepsItsAttempt
    <3>3. QED BY <3>1, <3>2
  <2>2. CASE c # b /\ provider[c] = provider[b]
    BY <2>2, <1>1, <1>5 DEF KeepsItsAttempt, Rival
  <2>3. CASE c # b /\ provider[c] # provider[b]
    BY <2>3, <1>1, <1>2, <1>5 DEF IInv, TypeInvariant, AttemptIsKept, KeepsItsAttempt, Rival
  <2>4. QED BY <2>1, <2>2, <2>3
<1>8. AnswersFit'
  BY <1>1, <1>5 DEF IInv, TypeInvariant, AnswersFit
<1>9. LinkHasAnAsker'
  <2>1. CASE ClearsLink(b)
    BY <2>1, <1>1 DEF LinkHasAnAsker, NoLink
  <2>2. CASE ~ClearsLink(b)
    BY <2>2, <1>1 DEF IInv, TypeInvariant, LinkHasAnAsker, Settled, ClearsLink
  <2>3. QED BY <2>1, <2>2
<1>10. RefusalsHaveACause'
  BY <1>1, <1>5 DEF IInv, TypeInvariant, RefusalsHaveACause, Left
<1>11. QED BY <1>4, <1>6, <1>7, <1>8, <1>9, <1>10 DEF IInv, AttemptIsKept

LEMMA AbortKeepsIInv ==
    ASSUME IInv, NEW b \in Popups, Abort(b) PROVE IInv'
<1>1. /\ pc[b] = "answering" /\ pc' = [pc EXCEPT ![b] = "returning"]
      /\ clock' = clock /\ attemptCookie' = attemptCookie /\ linkCookie' = linkCookie
      /\ provider' = provider /\ url' = url /\ answer' = answer /\ linked' = linked
      /\ redeemed' = redeemed /\ asker' = asker /\ openedAt' = openedAt
      /\ leftAt' = leftAt /\ answered' = answered
  BY DEF Abort, Goto, cookies, history
<1>2. TypeInvariant'
  BY <1>1 DEF IInv, TypeInvariant
<1>3. \A c \in Popups : Left(c)' <=> Left(c)
  BY <1>1 DEF IInv, TypeInvariant, Left
<1>4. CookieNamesItsPopup' /\ AttemptIsKept'
  BY <1>1, <1>3 DEF IInv, CookieNamesItsPopup, AttemptIsKept, KeepsItsAttempt, Rival
<1>5. AnswersFit'
  BY <1>1, <1>3 DEF IInv, TypeInvariant, AnswersFit
<1>6. LinkHasAnAsker'
  BY <1>1 DEF IInv, TypeInvariant, LinkHasAnAsker, Settled
<1>7. RefusalsHaveACause'
  BY <1>1, <1>3 DEF IInv, RefusalsHaveACause, Left
<1>8. QED BY <1>2, <1>4, <1>5, <1>6, <1>7 DEF IInv

\* Time only adds causes.
LEMMA TickKeepsIInv == ASSUME IInv, Tick PROVE IInv'
<1>1. /\ clock' = clock + 1 /\ clock < MaxClock /\ clock \in Nat
      /\ UNCHANGED <<attemptCookie, linkCookie, pc, provider, url, answer, linked,
                     redeemed, asker, openedAt, leftAt, answered>>
  BY DEF Tick, cookies, popups, history, IInv, TypeInvariant, Times
<1>2. TypeInvariant'
  BY <1>1, OAuthPopupAssumption DEF IInv, TypeInvariant, Times
<1>3. \A c \in Popups : leftAt[c] \in Nat
  BY DEF IInv, TypeInvariant, Times
<1>4. RefusalsHaveACause'
  BY <1>1, <1>3, OAuthPopupAssumption DEF IInv, RefusalsHaveACause
<1>5. CookieNamesItsPopup' /\ AttemptIsKept' /\ AnswersFit' /\ LinkHasAnAsker'
  BY <1>1 DEF IInv, CookieNamesItsPopup, AttemptIsKept, KeepsItsAttempt, Rival, Left,
              AnswersFit, LinkHasAnAsker, Settled
<1>6. QED BY <1>2, <1>4, <1>5 DEF IInv

LEMMA StepKeepsIInv == ASSUME IInv, [Next]_vars PROVE IInv'
<1>1. CASE \E b \in Popups : OpenToLink(b) BY <1>1, OpenToLinkKeepsIInv
<1>2. CASE \E b \in Popups : Leave(b) BY <1>2, LeaveKeepsIInv
<1>3. CASE \E b \in Popups : Consent(b) BY <1>3, ConsentKeepsIInv
<1>4. CASE \E b \in Popups : Callback(b) BY <1>4, CallbackKeepsIInv
<1>5. CASE \E b \in Popups : Receive(b) BY <1>5, ReceiveKeepsIInv
<1>6. CASE \E b \in Popups : Abort(b) BY <1>6, AbortKeepsIInv
<1>7. CASE Tick BY <1>7, TickKeepsIInv
<1>8. CASE UNCHANGED vars
  BY <1>8 DEF vars, cookies, popups, history, IInv, TypeInvariant, RefusalsHaveACause,
              CookieNamesItsPopup, AttemptIsKept, KeepsItsAttempt, Rival, Left,
              AnswersFit, LinkHasAnAsker, Settled
<1>9. QED BY <1>1, <1>2, <1>3, <1>4, <1>5, <1>6, <1>7, <1>8 DEF Next

LEMMA InvariantHolds == Spec => []IInv
BY InitSatisfiesIInv, StepKeepsIInv, PTL DEF Spec

-------------------------------------------------------------------------------
(***************************************************************************)
(* Cookies, popups and history keep their types.                           *)
(***************************************************************************)
THEOREM PopupTypes == Spec => []TypeInvariant
<1>1. IInv => TypeInvariant
  BY DEF IInv
<1>2. QED BY <1>1, InvariantHolds, PTL

(***************************************************************************)
(* An attempt that is refused has expired, has been answered before, or    *)
(* has a rival at its own provider.                                        *)
(***************************************************************************)
THEOREM PopupRefusalsHaveACause == Spec => []RefusalsHaveACause
<1>1. IInv => RefusalsHaveACause
  BY DEF IInv
<1>2. QED BY <1>1, InvariantHolds, PTL

\* Only Callback(b) sends the callback of b.
LEMMA OnlyCallbackSends ==
    ASSUME IInv, [Next]_vars, NEW b \in Popups, Sends(b) PROVE Callback(b)
<1>1. pc \in [Popups -> {"shut", "opened", "consenting", "returning", "answering", "done"}]
  BY DEF IInv, TypeInvariant
<1>2. CASE UNCHANGED vars \/ Tick
  BY <1>2 DEF vars, popups, Tick, Sends
<1>3. ASSUME NEW c \in Popups,
             OpenToLink(c) \/ Leave(c) \/ Consent(c) \/ Receive(c) \/ Abort(c)
      PROVE  FALSE
  BY <1>1, <1>3 DEF OpenToLink, Leave, Consent, Receive, Abort, Goto, Sends
<1>4. ASSUME NEW c \in Popups, Callback(c) PROVE c = b
  BY <1>1, <1>4 DEF Callback, Goto, Sends
<1>5. QED BY <1>2, <1>3, <1>4 DEF Next

(***************************************************************************)
(* A callback that is sent after an answer to it has arrived finds nothing *)
(* to match against.                                                       *)
(***************************************************************************)
THEOREM PopupAnsweredAttemptsAreRefused == Spec => AnsweredAttemptsAreRefused
<1>1. ASSUME IInv, [Next]_vars, NEW b \in Popups, Sends(b), answered[b]
      PROVE  answer'[b] \notin Accepted
  <2>1. Callback(b)
    BY <1>1, OnlyCallbackSends
  <2>2. ~StateMatches(b)
    BY <1>1 DEF IInv, TypeInvariant, CookieNamesItsPopup, StateMatches
  <2>3. answer'[b] \in {"declined", "mismatch"}
    BY <1>1, <2>1, <2>2 DEF Callback, IInv, TypeInvariant
  <2>4. QED BY <2>3 DEF Accepted
<1>2. ASSUME IInv, [Next]_vars
      PROVE  [\A b \in Popups : Sends(b) /\ answered[b] => answer'[b] \notin Accepted]_vars
  BY <1>1, <1>2
<1>3. QED BY <1>2, InvariantHolds, PTL DEF Spec, AnsweredAttemptsAreRefused

(***************************************************************************)
(* A callback links only for a user who has asked for it within LinkAge,   *)
(* in a popup that has not been settled since.                             *)
(***************************************************************************)
THEOREM PopupLinksAreAskedFor == Spec => LinksAreAskedFor
<1>1. ASSUME IInv, [Next]_vars, NEW b \in Popups, Sends(b), answer'[b] = "linked"
      PROVE  \E c \in Popups :
                /\ asker[c] = linked'[b]
                /\ clock < openedAt[c] + LinkAge
                /\ ~(pc[c] = "done" /\ answer[c] \in {"linked", "mismatch", "conflict"})
  <2>1. Callback(b)
    BY <1>1, OnlyCallbackSends
  <2>2. PICK outcome \in Outcomes(b) :
           /\ answer' = [answer EXCEPT ![b] = outcome]
           /\ linked' = IF outcome = "linked" THEN [linked EXCEPT ![b] = LinkUser] ELSE linked
    BY <1>1, <2>1 DEF Callback, IInv, TypeInvariant
  <2>3. outcome = "linked"
    BY <1>1, <2>2 DEF IInv, TypeInvariant
  <2>4. LinkUser # NoUser
    BY <2>2, <2>3 DEF Outcomes
  <2>5. /\ linked'[b] = linkCookie.user /\ linkCookie.user # NoUser
        /\ clock < linkCookie.until
    BY <1>1, <2>2, <2>3, <2>4 DEF LinkUser, IInv, TypeInvariant
  <2>6. QED BY <1>1, <2>5 DEF IInv, LinkHasAnAsker, Settled
<1>2. ASSUME IInv, [Next]_vars
      PROVE  [\A b \in Popups : Sends(b) /\ answer'[b] = "linked" =>
                 \E c \in Popups :
                    /\ asker[c] = linked'[b]
                    /\ clock < openedAt[c] + LinkAge
                    /\ ~(pc[c] = "done"
                          /\ answer[c] \in {"linked", "mismatch", "conflict"})]_vars
  BY <1>1, <1>2
<1>3. QED BY <1>2, InvariantHolds, PTL DEF Spec, LinksAreAskedFor
===============================================================================
