----------------------------- MODULE ClientSession -----------------------------
(***************************************************************************)
(* The session of one browser tab: the access token in sessionStorage and  *)
(* the functions that use and replace it (authService.ts), with the parts  *)
(* of App.tsx and of the context editor that sign in, sign out and ask who *)
(* is signed in. Requests of the tab interleave at their awaits. The       *)
(* server is reduced to the set of tokens it accepts.                      *)
(***************************************************************************)
EXTENDS Integers, FiniteSets

CONSTANTS Requests,    \* concurrent calls of authenticatedFetch
          MaxIssued,   \* bound of the model: tokens the server issues
          MaxMistyped  \* bound of the model: requests with a mistyped password at a time

ASSUME IssuedAssumption == {MaxIssued, MaxMistyped} \subseteq Nat

Tokens == 1..MaxIssued
NoToken == 0
NoQuestion == -1

VARIABLES
    valid,    \* tokens the server accepts
    issued,   \* tokens issued so far
    token,    \* sessionStorage
    authed,   \* authState.user.authenticated
    renewal,  \* the token under renewal (renewalInFlight), or NoToken
    request,  \* where each request is, and the token it carries
    mistyped, \* requests that send a wrong current password
    login,    \* handleSignIn: idle, posted, or asking /auth/me with a token
    stateAsked, \* the editor's question to /auth/me (a bound: one at a time): the
                \* token it carries, or NoQuestion
    logout,   \* handleSignOut: idle, sent with a token, or arrived at the server
    timer,    \* the sign-out that follows a change of the password
    stranded  \* history: the tab dropped its token and still shows a user

tabState == <<token, authed>>
questions == <<login, stateAsked>>
clientVars == <<valid, issued, tabState, renewal, request, mistyped, questions, logout,
                timer, stranded>>

AtRest == [at |-> "idle", token |-> NoToken]

ClientTypeOK ==
    /\ valid \subseteq 1..issued /\ issued \in 0..MaxIssued
    /\ token \in 0..issued
    /\ {authed, timer, stranded} \subseteq BOOLEAN
    /\ renewal \in 0..issued
    /\ request \in [Requests -> [at : {"idle", "early", "sent", "refused", "resent"},
                                 token : 0..issued]]
    /\ mistyped \subseteq Requests
    /\ login \in [at : {"idle", "posted", "checking"}, token : 0..issued]
    /\ stateAsked \in {NoQuestion} \cup 0..issued
    /\ logout \in [at : {"idle", "sent", "arrived"}, token : 0..issued]

ClientInit ==
    /\ valid = {} /\ issued = 0
    /\ token = NoToken /\ authed = FALSE
    /\ renewal = NoToken
    /\ request = [r \in Requests |-> AtRest]
    /\ mistyped = {} /\ login = AtRest /\ stateAsked = NoQuestion /\ logout = AtRest
    /\ timer = FALSE /\ stranded = FALSE

-----------------------------------------------------------------------------
At(r, place) == request[r].at = place

Goto(r, place, t) == request' = [request EXCEPT ![r] = [at |-> place, token |-> t]]

Finish(r) == Goto(r, "idle", NoToken) /\ mistyped' = mistyped \ {r}

Issue(t) == t = issued + 1 /\ t \in Tokens /\ issued' = t /\ valid' = valid \cup {t}

(* A fault: the request waits for a renewal that nobody asked for. *)
JoinRenewalFault == UNCHANGED renewal

(* renewProcessingSession joins the renewal in flight or starts one. *)
JoinRenewal == renewal' = IF renewal # NoToken THEN renewal ELSE token

(* authenticatedFetch: a token about to expire is renewed first. *)
Begin(r) ==
    /\ authed /\ At(r, "idle")
    /\ \/ token # NoToken /\ Goto(r, "early", NoToken) /\ JoinRenewal
       \/ Goto(r, "sent", token) /\ UNCHANGED renewal
    /\ \/ UNCHANGED mistyped
       \/ Cardinality(mistyped) < MaxMistyped /\ mistyped' = mistyped \cup {r}
    /\ UNCHANGED <<valid, issued, tabState, questions, logout, timer, stranded>>

(* The caller gets the answer, or an error when the connection is lost. *)
Succeeds(r) ==
    /\ At(r, "sent") \/ At(r, "resent")
    /\ Finish(r)
    /\ UNCHANGED <<valid, issued, tabState, renewal, questions, logout, timer, stranded>>

(* The server answers 401: to a token it does not accept, and to a change  *)
(* of the password that gives a wrong current one.                         *)
Is401(r) == request[r].token \notin valid \/ r \in mistyped

(* The answer is 401: the request waits for a renewal, unless another one  *)
(* replaced the token meanwhile; then it is sent again at once.            *)
Refused(r) ==
    /\ At(r, "sent") /\ Is401(r)
    /\ \/ /\ request[r].token = token /\ token # NoToken
          /\ Goto(r, "refused", token) /\ JoinRenewal /\ UNCHANGED mistyped
       \/ /\ NoToken \notin {request[r].token, token} /\ token # request[r].token
          /\ Goto(r, "resent", token) /\ UNCHANGED <<renewal, mistyped>>
       \/ /\ NoToken \in {request[r].token, token}
          /\ Finish(r) /\ UNCHANGED renewal
    /\ UNCHANGED <<valid, issued, tabState, questions, logout, timer, stranded>>

(* The session is over for this tab if it still holds the refused token:   *)
(* clearAccessToken and the event that App answers with onExpired.         *)
Expire(t) ==
    IF token = t THEN token' = NoToken /\ authed' = FALSE ELSE UNCHANGED tabState

(* The second answer is 401 as well. *)
RefusedAgain(r) ==
    /\ At(r, "resent") /\ Is401(r)
    /\ Expire(request[r].token)
    /\ Finish(r)
    /\ UNCHANGED <<valid, issued, renewal, questions, logout, timer, stranded>>

(* The renewal ends with the token held then. The requests that waited go  *)
(* on; one refused with this very token ends the session.                  *)
AfterRenewal(held) ==
    LET over == \E r \in Requests : At(r, "refused") /\ request[r].token = held IN
    /\ token' = IF over THEN NoToken ELSE held
    /\ authed' = (authed /\ ~over)
    /\ request' = [r \in Requests |->
         CASE At(r, "early") -> [at |-> "sent", token |-> token']
           [] At(r, "refused") ->
                IF held \in {request[r].token, NoToken}
                THEN AtRest
                ELSE [at |-> "resent", token |-> held]
           [] OTHER -> request[r]]
    /\ mistyped' = {r \in mistyped : request'[r] # AtRest}
    /\ renewal' = NoToken

(* Its answer is stored if the token is still the one it was asked for.    *)
Renewed ==
    /\ renewal \in valid
    /\ \E t \in Tokens :
         Issue(t) /\ AfterRenewal(IF token = renewal THEN t ELSE token)
    /\ UNCHANGED <<questions, logout, timer, stranded>>

(* The renewal is refused, or the connection is lost. *)
NotRenewed ==
    /\ renewal # NoToken
    /\ AfterRenewal(token)
    /\ UNCHANGED <<valid, issued, questions, logout, timer, stranded>>

(* The effect of App that renews before expiry: every minute and on focus. *)
RenewalCheck ==
    /\ authed /\ token # NoToken /\ renewal = NoToken
    /\ renewal' = token
    /\ UNCHANGED <<valid, issued, tabState, request, mistyped, questions, logout, timer,
                   stranded>>

-----------------------------------------------------------------------------
flows == <<renewal, request, mistyped>>

(* handleSignIn and login: the token is stored, then /auth/me is asked.    *)
SignIn ==
    /\ ~authed /\ login = AtRest /\ login' = [at |-> "posted", token |-> NoToken]
    /\ UNCHANGED <<valid, issued, tabState, flows, stateAsked, logout, timer, stranded>>

SignedIn ==
    /\ login.at = "posted"
    /\ \E t \in Tokens : /\ Issue(t) /\ token' = t
                        /\ login' = [at |-> "checking", token |-> t]
    /\ UNCHANGED <<authed, flows, stateAsked, logout, timer, stranded>>

SignInFails ==
    /\ login # AtRest /\ login' = AtRest
    /\ UNCHANGED <<valid, issued, tabState, flows, stateAsked, logout, timer, stranded>>

(* What fetchAuthState sends: a token that is no longer accepted is        *)
(* answered as none is.                                                    *)
Asking == IF token \in valid THEN token ELSE NoToken

(* Its answer to a sign-in or to the page: 200 if the token was accepted   *)
(* then, whatever the tab holds by now; a 401 drops what it holds.         *)
StateFetched ==
    /\ login.at = "checking" /\ login' = AtRest
    /\ \/ /\ login.token # NoToken
          /\ authed' = TRUE /\ stranded' = (token = NoToken) /\ UNCHANGED token
       \/ /\ login.token \notin valid
          /\ token' = NoToken /\ authed' = FALSE /\ UNCHANGED stranded
    /\ UNCHANGED <<valid, issued, flows, stateAsked, logout, timer>>

(* The context editor asks fetchAuthState when it opens and when it saves. *)
AskState ==
    /\ authed /\ stateAsked = NoQuestion /\ stateAsked' = Asking
    /\ UNCHANGED <<valid, issued, tabState, flows, login, logout, timer, stranded>>

(* A 401 drops the token, whichever it is by then, and App is not told.    *)
StateTold ==
    /\ stateAsked # NoQuestion /\ stateAsked' = NoQuestion
    /\ \/ UNCHANGED <<token, stranded>>
       \/ stateAsked \notin valid /\ token' = NoToken /\ stranded' = (stranded \/ authed)
    /\ UNCHANGED <<valid, issued, authed, flows, login, logout, timer>>

(* The page is loaded again: the token stays in the storage of the tab.    *)
ReloadTab ==
    /\ authed' = FALSE /\ login' = [at |-> "checking", token |-> Asking]
    /\ stateAsked' = NoQuestion /\ logout' = AtRest
    /\ renewal' = NoToken /\ mistyped' = {}
    /\ request' = [r \in Requests |-> AtRest]
    /\ timer' = FALSE /\ stranded' = FALSE
    /\ UNCHANGED <<valid, issued, token>>

(* handleSignOut: the server ends the sessions of the account if it        *)
(* accepts the token, ...                                                  *)
SignOut ==
    /\ logout = AtRest /\ logout' = [at |-> "sent", token |-> token]
    /\ \/ authed /\ UNCHANGED timer
       \/ timer /\ timer' = FALSE
    /\ UNCHANGED <<valid, issued, tabState, flows, questions, stranded>>

LogoutArrives ==
    /\ logout.at = "sent" /\ logout' = [at |-> "arrived", token |-> NoToken]
    /\ valid' = IF logout.token \in valid THEN {} ELSE valid
    /\ UNCHANGED <<issued, tabState, flows, questions, timer, stranded>>

(* ... and the tab drops the token; after a network error only the token.  *)
SignedOut ==
    /\ logout # AtRest /\ logout' = AtRest
    /\ token' = NoToken
    /\ \/ logout.at = "arrived" /\ authed' = FALSE /\ UNCHANGED stranded
       \/ UNCHANGED authed /\ stranded' = (stranded \/ authed)
    /\ UNCHANGED <<valid, issued, flows, questions, timer>>

(* submitPasswordChange: the server ends the sessions, the tab signs out   *)
(* 700 ms later.                                                           *)
PasswordChanged ==
    /\ authed /\ token \in valid /\ ~timer
    /\ valid' = {} /\ timer' = TRUE
    /\ UNCHANGED <<issued, tabState, flows, questions, logout, stranded>>

(* A token expires, or the account is revoked from elsewhere. *)
Revoked(t) ==
    /\ t \in valid /\ valid' = valid \ {t}
    /\ UNCHANGED <<issued, tabState, flows, questions, logout, timer, stranded>>

RequestStep(r) == Succeeds(r) \/ Refused(r) \/ RefusedAgain(r)

ClientNext ==
    \/ \E r \in Requests : Begin(r) \/ RequestStep(r)
    \/ \E t \in valid : Revoked(t)
    \/ Renewed \/ NotRenewed \/ RenewalCheck
    \/ SignIn \/ SignedIn \/ SignInFails \/ StateFetched \/ AskState \/ StateTold
    \/ SignOut \/ LogoutArrives \/ SignedOut \/ PasswordChanged
    \/ ReloadTab

ClientSpec == ClientInit /\ [][ClientNext]_clientVars
-----------------------------------------------------------------------------
(* A tab that shows a signed-in user holds a token, whatever requests,     *)
(* renewals and refusals of the tab ended in between, but after one of     *)
(* three things of which App is not told: a logout that fails in the       *)
(* network drops the token, so does a 401 to a question of the context     *)
(* editor, and a sign-in may be answered after either (fetchAuthState,     *)
(* logout). Such a tab gets no token before it has shown the login.        *)
SignedInHasToken ==
    /\ authed => (token = NoToken <=> stranded)
    /\ login # AtRest => ~authed

(* The tab is sent to the login only by its user, by a reload, or by the   *)
(* refusal of the token it holds: a late 401 for an earlier token does not *)
(* end the session that a later login began (authenticatedFetch). The      *)
(* exception is a mistyped current password, whose 401 is taken for one.   *)
ExpiryIsReal ==
    [][authed /\ ~authed' /\ logout = logout' /\ login'.at # "checking"
         => token \notin valid \/ \E r \in mistyped : request[r].token = token]_clientVars

(* A request waits for a renewal only while one is under way, and every    *)
(* renewal that ends releases all of them: several calls may share it.     *)
WaitersAreServed ==
    \A r \in Requests : At(r, "early") \/ At(r, "refused") => renewal # NoToken

(* A token that was refused is not accepted again: what a request waits to *)
(* replace is no session that a renewal could find alive, unless it was    *)
(* the password that was refused.                                          *)
RefusedForGood == \A r \in Requests : At(r, "refused") => Is401(r)

(* What the session of a tab promises, whatever requests, renewals, logins *)
(* and logouts run at once (authService.ts, App.tsx).                      *)
SessionInv ==
    /\ ClientTypeOK
    /\ SignedInHasToken
    /\ WaitersAreServed
    /\ RefusedForGood
=============================================================================
