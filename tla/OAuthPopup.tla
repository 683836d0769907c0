------------------------------- MODULE OAuthPopup -------------------------------
(***************************************************************************)
(* Signing in and linking through popups of one browser (auth.controller,  *)
(* the OAuth guards, oauth-state.util, link-cookie.util and the popup's    *)
(* exception filter under src/auth).                                       *)
(*                                                                         *)
(* The server keeps nothing between the redirect to the provider and the   *)
(* callback: the attempt and whether it links are in two cookies, which    *)
(* all popups of the browser share.  A request carries the cookies of the  *)
(* moment it is sent; what its answer sets or clears takes effect when the *)
(* answer arrives, and other popups go on in between.                      *)
(*                                                                         *)
(* A state and its PKCE verifier live and die in one cookie: both are      *)
(* named after the popup that started the attempt.                         *)
(***************************************************************************)
EXTENDS Naturals

CONSTANTS Popups, Providers, Users,
          LinkAge,    \* LINK_COOKIE_MAX_AGE_SECONDS
          AttemptAge, \* OAUTH_ATTEMPT_MAX_AGE_SECONDS
          MaxClock,   \* bound on time
          NoUser, NoPopup

ASSUME OAuthPopupAssumption ==
    /\ LinkAge \in Nat \ {0} /\ AttemptAge \in Nat \ {0} /\ MaxClock \in Nat
    /\ NoUser \notin Users /\ NoPopup \notin Popups

VARIABLES clock,
          attemptCookie, \* oauth_state_<provider>
          linkCookie,    \* link_user_id
          pc, provider,  \* of each popup
          url,           \* what the provider sends it back with
          answer,        \* the answer to its latest callback
          linked,        \* the user its callbacks have linked
          redeemed       \* popups whose authorization code is spent

\* History, read by no action.
VARIABLES asker,    \* the user who opened the popup to link
          openedAt, leftAt,
          answered  \* whether an answer to a callback with a code has arrived

cookies == <<attemptCookie, linkCookie>>
popups == <<pc, provider, url, answer, linked, redeemed>>
history == <<asker, openedAt, leftAt, answered>>
vars == <<clock, cookies, popups, history>>

Times == 0 .. MaxClock

\* The outcomes of a callback whose state has been found to match.
Accepted == {"signedIn", "linked", "conflict", "error"}

TypeInvariant ==
    /\ clock \in Times
    /\ attemptCookie \in [Providers -> [popup : Popups \cup {NoPopup}, until : Nat]]
    /\ linkCookie \in [user : Users \cup {NoUser}, until : Nat]
    /\ pc \in [Popups -> {"shut", "opened", "consenting", "returning", "answering", "done"}]
    /\ provider \in [Popups -> Providers]
    /\ url \in [Popups -> {"none", "code", "error"}]
    /\ answer \in [Popups -> Accepted \cup {"none", "declined", "mismatch"}]
    /\ linked \in [Popups -> Users \cup {NoUser}]
    /\ redeemed \subseteq Popups
    /\ asker \in [Popups -> Users \cup {NoUser}]
    /\ openedAt \in [Popups -> Times]
    /\ leftAt \in [Popups -> Times]
    /\ answered \in [Popups -> BOOLEAN]

NoAttempt == [popup |-> NoPopup, until |-> 0]
NoLink == [user |-> NoUser, until |-> 0]

Init ==
    /\ clock = 0
    /\ attemptCookie = [p \in Providers |-> NoAttempt]
    /\ linkCookie = NoLink
    /\ pc = [b \in Popups |-> "shut"]
    /\ provider \in [Popups -> Providers]
    /\ url = [b \in Popups |-> "none"]
    /\ answer = [b \in Popups |-> "none"]
    /\ linked = [b \in Popups |-> NoUser]
    /\ redeemed = {}
    /\ asker = [b \in Popups |-> NoUser]
    /\ openedAt = [b \in Popups |-> 0]
    /\ leftAt = [b \in Popups |-> 0]
    /\ answered = [b \in Popups |-> FALSE]

Goto(b, state) == pc' = [pc EXCEPT ![b] = state]

-------------------------------------------------------------------------------
(* On the way out.                                                         *)

LinkCookieFor(u) == [user |-> u, until |-> clock + LinkAge]

\* GET /auth/<provider>/link, for the user of the session.
OpenToLink(b) ==
    /\ pc[b] = "shut"
    /\ Goto(b, "opened")
    /\ \E u \in Users :
          /\ linkCookie' = LinkCookieFor(u)
          /\ asker' = [asker EXCEPT ![b] = u]
    /\ openedAt' = [openedAt EXCEPT ![b] = clock]
    /\ UNCHANGED <<clock, attemptCookie, provider, url, answer, linked, redeemed,
                   leftAt, answered>>

\* Mutant: one cookie for all providers.
CookieNames_Shared(p) == Providers

\* cookieName: the cookies an attempt with p is kept in.
CookieNames(p) == {p}

\* GET /auth/<provider>: a new attempt, remembered on the redirect.
Leave(b) ==
    /\ pc[b] \in {"shut", "opened"}
    /\ Goto(b, "consenting")
    /\ attemptCookie' = [p \in Providers |->
          IF p \in CookieNames(provider[b])
          THEN [popup |-> b, until |-> clock + AttemptAge] ELSE attemptCookie[p]]
    /\ leftAt' = [leftAt EXCEPT ![b] = clock]
    /\ UNCHANGED <<clock, linkCookie, provider, url, answer, linked, redeemed,
                   asker, openedAt, answered>>

\* The visitor consents, or declines; the provider redirects.
Consent(b) ==
    /\ pc[b] = "consenting"
    /\ Goto(b, "returning")
    /\ \E verdict \in {"code", "error"} : url' = [url EXCEPT ![b] = verdict]
    /\ UNCHANGED <<clock, cookies, provider, answer, linked, redeemed, history>>

-------------------------------------------------------------------------------
(* The callback, on the server.                                            *)

\* takeOAuthAttempt and statesMatch, on the cookie the request carries.
StateMatches(b) ==
    LET cookie == attemptCookie[provider[b]] IN
    cookie.popup = b /\ clock < cookie.until

\* getVerifiedLinkUserId
LinkUser == IF clock < linkCookie.until THEN linkCookie.user ELSE NoUser

\* validate, and what follows it: a link, or a login that ends in a code.  An
\* identity may be another account's (conflict), a statement or the provider
\* may fail (error); a code the provider has redeemed is refused.
Outcomes(b) ==
    IF b \in redeemed THEN {"error"}
    ELSE {"conflict", "error", IF LinkUser = NoUser THEN "signedIn" ELSE "linked"}

\* The request is sent, or sent again when the visitor reloads the popup.
Callback(b) ==
    /\ pc[b] \in {"returning", "done"}
    /\ Goto(b, "answering")
    /\ \/ /\ url[b] = "error"
          /\ answer' = [answer EXCEPT ![b] = "declined"]
          /\ UNCHANGED <<linked, redeemed>>
       \/ /\ url[b] = "code"
          /\ ~StateMatches(b)
          /\ answer' = [answer EXCEPT ![b] = "mismatch"]
          /\ UNCHANGED <<linked, redeemed>>
       \/ /\ url[b] = "code"
          /\ StateMatches(b)
          /\ \E outcome \in Outcomes(b) :
                /\ answer' = [answer EXCEPT ![b] = outcome]
                /\ linked' = IF outcome = "linked"
                             THEN [linked EXCEPT ![b] = LinkUser] ELSE linked
                /\ \/ redeemed' = redeemed \cup {b}
                   \/ outcome = "error" /\ UNCHANGED redeemed
    /\ UNCHANGED <<clock, cookies, provider, url, history>>

-------------------------------------------------------------------------------
(* The answer, in the browser.                                             *)

\* Mutant: the attempt is cleared once it has succeeded.
ClearsAttempt_OnSuccess(b) == answer[b] \in {"signedIn", "linked"}

\* takeOAuthAttempt clears whatever it finds; a refusal by the provider is
\* answered without it.
ClearsAttempt(b) == answer[b] # "declined"

\* Mutant: only the exception filter clears the link cookie.
ClearsLink_FilterOnly(b) == answer[b] \in {"mismatch", "conflict"}

\* The controller does when it has linked, the filter for the exceptions it
\* catches; passport's failures and unexpected errors pass both by.
ClearsLink(b) == answer[b] \in {"linked", "mismatch", "conflict"}

Receive(b) ==
    /\ pc[b] = "answering"
    /\ Goto(b, "done")
    /\ attemptCookie' = [p \in Providers |->
          IF ClearsAttempt(b) /\ p \in CookieNames(provider[b])
          THEN NoAttempt ELSE attemptCookie[p]]
    /\ linkCookie' = IF ClearsLink(b) THEN NoLink ELSE linkCookie
    /\ answered' = [answered EXCEPT ![b] = answered[b] \/ url[b] = "code"]
    /\ UNCHANGED <<clock, provider, url, answer, linked, redeemed,
                   asker, openedAt, leftAt>>

\* The popup is reloaded before the answer is there, or the answer is lost.
Abort(b) ==
    /\ pc[b] = "answering"
    /\ Goto(b, "returning")
    /\ UNCHANGED <<clock, cookies, provider, url, answer, linked, redeemed, history>>

Tick ==
    /\ clock < MaxClock
    /\ clock' = clock + 1
    /\ UNCHANGED <<cookies, popups, history>>

Next ==
    \/ \E b \in Popups :
          OpenToLink(b) \/ Leave(b) \/ Consent(b) \/ Callback(b) \/ Receive(b) \/ Abort(b)
    \/ Tick

Spec == Init /\ [][Next]_vars

-------------------------------------------------------------------------------
(***************************************************************************)
(* An attempt is refused for one of the reasons that                       *)
(* oauth-state.exceptions.ts 4-9 gives: it has expired, a callback of it   *)
(* was answered before, or another popup is at the same provider.  Popups  *)
(* at other providers do not disturb it.                                   *)
(***************************************************************************)
RefusalsHaveACause ==
    \A b \in Popups : answer[b] = "mismatch" =>
        \/ clock >= leftAt[b] + AttemptAge
        \/ answered[b]
        \/ \E c \in Popups \ {b} : provider[c] = provider[b] /\ pc[c] \notin {"shut", "opened"}

\* Popup b sends its callback in this step.
Sends(b) == pc[b] # "answering" /\ pc'[b] = "answering"

(***************************************************************************)
(* "An attempt is good for exactly one callback, so the same callback URL  *)
(* arriving a second time finds nothing to match against"                  *)
(* (oauth-state.util.ts 133-135): once an answer has arrived, and whatever *)
(* the answer was.                                                         *)
(***************************************************************************)
AnsweredAttemptsAreRefused ==
    [][\A b \in Popups : Sends(b) /\ answered[b] => answer'[b] \notin Accepted]_vars

(***************************************************************************)
(* A callback links a provider only for a user who has opened a popup to   *)
(* link at most LinkAge ago, and whose popup has not been told since that  *)
(* it is linked, refused or in conflict (auth.controller.ts 134-141,       *)
(* 156-159; the filter, 32).                                               *)
(***************************************************************************)
LinksAreAskedFor ==
    [][\A b \in Popups : Sends(b) /\ answer'[b] = "linked" =>
          \E c \in Popups :
              /\ asker[c] = linked'[b]
              /\ clock < openedAt[c] + LinkAge
              /\ ~(pc[c] = "done" /\ answer[c] \in {"linked", "mismatch", "conflict"})]_vars
===============================================================================
