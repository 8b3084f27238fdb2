----------------------------- MODULE BrowserProofs -----------------------------
(***************************************************************************)
(* Proofs about what the browser keeps by itself and shares with the       *)
(* server: the session of a tab (ClientSession), the lists of reports and  *)
(* captures (AnalysesLibrary), the comparison of reports                   *)
(* (ReportComparison), the notes of a report (ReportNotes), the profiles   *)
(* in the account (ContextSync), in a browser (ContextProfiles), in their  *)
(* editor (ContextEditor) and under a scan (ContextScan), the pivots       *)
(* (Pivots), drilldowns (Drilldown), page (ReportView) and files           *)
(* (ReportFiles) of a report, the stored views (TopologyState), devices    *)
(* (TopologyLayout), clusters (TopologyClusters), searches (TopologyQuery) *)
(* and saved searches (SavedSearches) of its map, and the two lists of     *)
(* what a profile lacks (ContextReadiness). Each section proves one        *)
(* invariant inductive; the last one puts parts of the pages, the CSV      *)
(* files of CsvProofs among them, side by side, as MCWorkbench does.       *)
(***************************************************************************)
EXTENDS MCWorkbench, CsvProofs

-----------------------------------------------------------------------------
(* The session of a tab. SessionInv is inductive: RefusedForGood is what   *)
(* lets a renewal that ends tell the requests that wait for it apart from  *)
(* those a later login overtook.                                           *)

(* The type invariant in the three parts that steps leave together.        *)
TokensOK ==
    /\ valid \subseteq 1..issued /\ issued \in 0..MaxIssued
    /\ token \in 0..issued
    /\ authed \in BOOLEAN /\ timer \in BOOLEAN /\ stranded \in BOOLEAN

RequestsOK ==
    /\ renewal \in 0..issued
    /\ request \in [Requests -> [at : {"idle", "early", "sent", "refused", "resent"},
                                 token : 0..issued]]
    /\ mistyped \subseteq Requests

QuestionsOK ==
    /\ login \in [at : {"idle", "posted", "checking"}, token : 0..issued]
    /\ stateAsked \in {NoQuestion} \cup 0..issued
    /\ logout \in [at : {"idle", "sent", "arrived"}, token : 0..issued]

LEMMA ClientTypes == ClientTypeOK <=> TokensOK /\ RequestsOK /\ QuestionsOK
  BY DEF ClientTypeOK, TokensOK, RequestsOK, QuestionsOK

LEMMA ClientInitially == ClientInit => SessionInv
<1> SUFFICES ASSUME ClientInit PROVE SessionInv
  OBVIOUS
<1>1. TokensOK
  <2>1. MaxIssued \in Nat
    BY IssuedAssumption
  <2>2. TokensOK
    <3>1. valid = {} /\ issued \in 0..MaxIssued /\ token \in 0..issued
      BY <2>1 DEF ClientInit, NoToken
    <3>2. authed \in BOOLEAN /\ timer \in BOOLEAN /\ stranded \in BOOLEAN
      BY DEF ClientInit
    <3> QED
      BY <3>1, <3>2 DEF TokensOK
  <2> QED
    BY <2>2
<1>2. RequestsOK
  <2>1. issued \in Nat /\ 0 \in 0..issued
    BY DEF ClientInit
  <2> QED
    BY <2>1 DEF ClientInit, RequestsOK, NoToken, AtRest
<1>3. QuestionsOK
  BY DEF ClientInit, QuestionsOK, NoToken, NoQuestion, AtRest
<1>4. \A r \in Requests : request[r].at = "idle"
  BY DEF ClientInit, AtRest
<1> QED
  BY <1>1, <1>2, <1>3, <1>4, ClientTypes
  DEF ClientInit, SessionInv, SignedInHasToken, WaitersAreServed,
      RefusedForGood, At

(* The two ways a renewal ends, with the token that the tab holds then.    *)
LEMMA AfterRenewalKeeps ==
    ASSUME SessionInv, NEW held \in 0..issued', AfterRenewal(held),
           issued' \in issued..MaxIssued, valid' \subseteq valid \cup {issued + 1},
           held = NoToken <=> token = NoToken
    PROVE  /\ token' \in 0..issued' /\ authed' \in BOOLEAN
           /\ RequestsOK'
           /\ renewal' = NoToken
           /\ \A r \in Requests : request'[r].at \notin {"early", "refused"}
           /\ authed' => authed /\ token' = held
           /\ authed /\ ~authed' => \E r \in Requests :
                 /\ request[r].token = held
                 /\ held \notin valid \/ r \in mistyped
<1> USE DEF SessionInv, RefusedForGood, TokensOK, RequestsOK, Is401, At, NoToken, AtRest
<1>0. /\ TokensOK /\ RequestsOK /\ MaxIssued \in Nat
  BY ClientTypes, IssuedAssumption
<1> DEFINE over == \E r \in Requests : At(r, "refused") /\ request[r].token = held
<1>1. /\ token' \in {NoToken, held} /\ 0 \in 0..issued'
      /\ authed' \in BOOLEAN /\ renewal' = NoToken
      /\ authed' => authed /\ token' = held
  <2>1. /\ token' = IF over THEN NoToken ELSE held
        /\ authed' = (authed /\ ~over)
        /\ renewal' = NoToken
    BY DEF AfterRenewal
  <2>2. authed' \in BOOLEAN /\ (authed' => authed /\ ~over)
    BY <2>1
  <2>3. 0 \in 0..issued'
    BY <1>0
  <2> QED
    BY <2>1, <2>2, <2>3
<1>2. /\ token' \in 0..issued' /\ 0..issued \subseteq 0..issued'
  BY <1>0, <1>1
<1>3. ASSUME NEW r \in Requests
      PROVE  /\ request'[r] \in [at : {"idle", "early", "sent", "refused", "resent"},
                                 token : 0..issued']
             /\ request'[r].at \notin {"early", "refused"}
  BY <1>0, <1>1, <1>2 DEF AfterRenewal
<1>4. RequestsOK'
  <2>1. DOMAIN request' = Requests /\ request' = [r \in Requests |-> request'[r]]
    BY DEF AfterRenewal
  <2>2. mistyped' \subseteq Requests
    BY <1>0 DEF AfterRenewal
  <2> QED
    BY <1>1, <1>3, <2>1, <2>2
<1>5. authed /\ ~authed' => \E r \in Requests :
         /\ request[r].token = held
         /\ held \notin valid \/ r \in mistyped
  BY DEF AfterRenewal
<1> HIDE DEF SessionInv, RefusedForGood, TokensOK, RequestsOK, Is401, At, AtRest
<1> QED
  BY <1>1, <1>2, <1>3, <1>4, <1>5

LEMMA ClientStep ==
    ASSUME SessionInv, [ClientNext]_clientVars
    PROVE  SessionInv'
<1> USE IssuedAssumption
    DEF SessionInv, SignedInHasToken, WaitersAreServed, RefusedForGood, Is401,
        NoToken, At, Goto, Finish, Issue, Tokens, JoinRenewal, tabState,
        questions, flows, AtRest
<1> DEFINE Served == (SignedInHasToken /\ WaitersAreServed /\ RefusedForGood)'
<1>0. /\ TokensOK /\ RequestsOK /\ QuestionsOK
      /\ TokensOK' /\ RequestsOK' /\ QuestionsOK' => ClientTypeOK'
  BY ClientTypes DEF ClientTypeOK, TokensOK, RequestsOK, QuestionsOK
<1> USE DEF TokensOK, RequestsOK, QuestionsOK
<1>1. ASSUME NEW r \in Requests, Begin(r) PROVE SessionInv'
  <2>1. TokensOK' /\ RequestsOK' /\ QuestionsOK'
    BY <1>0, <1>1 DEF Begin
  <2>2. Served
    BY <1>0, <1>1 DEF Begin
  <2> QED
    BY <1>0, <2>1, <2>2
<1>2. ASSUME NEW r \in Requests, Succeeds(r) PROVE SessionInv'
  <2>1. TokensOK' /\ RequestsOK' /\ QuestionsOK'
    BY <1>0, <1>2 DEF Succeeds
  <2>2. Served
    BY <1>0, <1>2 DEF Succeeds
  <2> QED
    BY <1>0, <2>1, <2>2
<1>3. ASSUME NEW r \in Requests, Refused(r) PROVE SessionInv'
  <2>1. TokensOK' /\ RequestsOK' /\ QuestionsOK'
    BY <1>0, <1>3 DEF Refused
  <2>2. Served
    BY <1>0, <1>3 DEF Refused
  <2> QED
    BY <1>0, <2>1, <2>2
<1>4. ASSUME NEW r \in Requests, RefusedAgain(r) PROVE SessionInv'
  <2>1. TokensOK' /\ RequestsOK' /\ QuestionsOK'
    <3>1. TokensOK'
      <4>1. /\ token' \in {0, token} /\ authed' \in {FALSE, authed}
            /\ UNCHANGED <<valid, issued, timer, stranded>>
        BY <1>4 DEF RefusedAgain, Expire
      <4>2. token' \in 0..issued' /\ valid' \subseteq 1..issued' /\ issued' \in 0..MaxIssued
        BY <1>0, <4>1
      <4>3. authed' \in BOOLEAN /\ timer' \in BOOLEAN /\ stranded' \in BOOLEAN
        BY <1>0, <4>1
      <4> QED
        BY <4>2, <4>3
    <3>2. RequestsOK'
      BY <1>0, <1>4 DEF RefusedAgain, Expire
    <3>3. QuestionsOK'
      BY <1>0, <1>4 DEF RefusedAgain, Expire
    <3> QED
      BY <3>1, <3>2, <3>3
  <2>2. Served
    BY <1>0, <1>4 DEF RefusedAgain, Expire
  <2> QED
    BY <1>0, <2>1, <2>2
<1>5. CASE Renewed
  <2>1. PICK t \in Tokens : Issue(t) /\ AfterRenewal(IF token = renewal THEN t ELSE token)
    BY <1>5 DEF Renewed
  <2> DEFINE held == IF token = renewal THEN t ELSE token
  <2>2. /\ held \in 0..issued' /\ issued' \in issued..MaxIssued
        /\ valid' \subseteq valid \cup {issued + 1}
        /\ held = NoToken <=> token = NoToken
    BY <1>0, <1>5, <2>1 DEF Renewed
  <2>3. /\ token' \in 0..issued' /\ authed' \in BOOLEAN
        /\ RequestsOK'
        /\ renewal' = NoToken
        /\ \A r \in Requests : request'[r].at \notin {"early", "refused"}
        /\ authed' => authed /\ token' = held
    BY <2>1, <2>2, AfterRenewalKeeps
  <2>4. TokensOK' /\ QuestionsOK'
    BY <1>0, <1>5, <2>1, <2>3 DEF Renewed
  <2>5. Served
    BY <1>0, <1>5, <2>2, <2>3 DEF Renewed
  <2> QED
    BY <1>0, <2>3, <2>4, <2>5
<1>6. CASE NotRenewed
  <2>1. /\ token' \in 0..issued' /\ authed' \in BOOLEAN
        /\ RequestsOK'
        /\ renewal' = NoToken
        /\ \A r \in Requests : request'[r].at \notin {"early", "refused"}
        /\ authed' => authed /\ token' = token
    BY <1>0, <1>6, AfterRenewalKeeps DEF NotRenewed
  <2>2. TokensOK' /\ QuestionsOK'
    BY <1>0, <1>6, <2>1 DEF NotRenewed
  <2>3. Served
    BY <1>0, <1>6, <2>1 DEF NotRenewed
  <2> QED
    BY <1>0, <2>1, <2>2, <2>3
<1>7. ASSUME NEW t \in valid, Revoked(t) PROVE SessionInv'
  <2>1. TokensOK' /\ RequestsOK' /\ QuestionsOK'
    BY <1>0, <1>7 DEF Revoked
  <2>2. Served
    BY <1>0, <1>7 DEF Revoked
  <2> QED
    BY <1>0, <2>1, <2>2
<1>8. CASE RenewalCheck
  <2>1. TokensOK' /\ RequestsOK' /\ QuestionsOK'
    BY <1>0, <1>8 DEF RenewalCheck
  <2>2. Served
    BY <1>0, <1>8 DEF RenewalCheck
  <2> QED
    BY <1>0, <2>1, <2>2
<1>9. CASE SignIn \/ SignInFails
  <2>1. TokensOK' /\ RequestsOK' /\ QuestionsOK'
    <3>1. TokensOK'
      BY <1>0, <1>9 DEF SignIn, SignInFails
    <3>2. RequestsOK'
      BY <1>0, <1>9 DEF SignIn, SignInFails
    <3>3. QuestionsOK'
      BY <1>0, <1>9 DEF SignIn, SignInFails
    <3> QED
      BY <3>1, <3>2, <3>3
  <2>2. Served
    BY <1>0, <1>9 DEF SignIn, SignInFails
  <2> QED
    BY <1>0, <2>1, <2>2
<1>10. CASE SignOut \/ LogoutArrives
  <2>1. TokensOK' /\ RequestsOK' /\ QuestionsOK'
    <3>1. TokensOK'
      BY <1>0, <1>10 DEF SignOut, LogoutArrives
    <3>2. RequestsOK'
      BY <1>0, <1>10 DEF SignOut, LogoutArrives
    <3>3. QuestionsOK'
      BY <1>0, <1>10 DEF SignOut, LogoutArrives
    <3> QED
      BY <3>1, <3>2, <3>3
  <2>2. Served
    BY <1>0, <1>10 DEF SignOut, LogoutArrives
  <2> QED
    BY <1>0, <2>1, <2>2
<1>11. CASE SignedIn
  <2>1. PICK t \in Tokens : /\ Issue(t) /\ token' = t
                           /\ login' = [at |-> "checking", token |-> t]
    BY <1>11 DEF SignedIn
  <2>2. issued' = issued + 1 /\ t = issued'
    BY <1>0, <2>1
  <2>3. TokensOK' /\ RequestsOK'
    BY <1>0, <1>11, <2>1, <2>2 DEF SignedIn
  <2>4. QuestionsOK'
    BY <1>0, <1>11, <2>1, <2>2 DEF SignedIn
  <2>5. Served
    BY <1>0, <1>11, <2>1, <2>2 DEF SignedIn
  <2> QED
    BY <1>0, <2>3, <2>4, <2>5
<1>12. CASE StateFetched
  <2>1. TokensOK' /\ RequestsOK' /\ QuestionsOK'
    <3>1. TokensOK'
      <4>1. /\ token' \in {0, token} /\ authed' \in {FALSE, TRUE}
            /\ stranded' \in {FALSE, TRUE, stranded}
            /\ UNCHANGED <<valid, issued, timer>>
        BY <1>12, (token = 0) \in BOOLEAN DEF StateFetched
      <4>2. token' \in 0..issued' /\ valid' \subseteq 1..issued' /\ issued' \in 0..MaxIssued
        BY <1>0, <4>1
      <4>3. authed' \in BOOLEAN /\ timer' \in BOOLEAN /\ stranded' \in BOOLEAN
        BY <1>0, <4>1
      <4> QED
        BY <4>2, <4>3
    <3>2. RequestsOK'
      BY <1>0, <1>12 DEF StateFetched
    <3>3. QuestionsOK'
      BY <1>0, <1>12 DEF StateFetched
    <3> QED
      BY <3>1, <3>2, <3>3
  <2>2. Served
    BY <1>0, <1>12 DEF StateFetched
  <2> QED
    BY <1>0, <2>1, <2>2
<1>13. CASE AskState \/ StateTold
  <2>1. TokensOK' /\ RequestsOK' /\ QuestionsOK'
    <3>1. TokensOK'
      <4>1. /\ token' \in {0, token} /\ authed' \in {FALSE, authed}
            /\ stranded' \in {stranded, stranded \/ authed}
            /\ UNCHANGED <<valid, issued, timer>>
        BY <1>13 DEF AskState, StateTold
      <4>2. token' \in 0..issued' /\ valid' \subseteq 1..issued' /\ issued' \in 0..MaxIssued
        BY <1>0, <4>1
      <4>3. authed' \in BOOLEAN /\ timer' \in BOOLEAN /\ stranded' \in BOOLEAN
        BY <1>0, <4>1
      <4> QED
        BY <4>2, <4>3
    <3>2. RequestsOK'
      BY <1>0, <1>13 DEF AskState, StateTold, Asking
    <3>3. QuestionsOK'
      BY <1>0, <1>13 DEF AskState, StateTold, Asking
    <3> QED
      BY <3>1, <3>2, <3>3
  <2>2. Served
    BY <1>0, <1>13 DEF AskState, StateTold
  <2> QED
    BY <1>0, <2>1, <2>2
<1>14. CASE SignedOut
  <2>1. TokensOK' /\ RequestsOK' /\ QuestionsOK'
    <3>1. TokensOK'
      <4>1. /\ token' \in {0, token} /\ authed' \in {FALSE, authed}
            /\ stranded' \in {stranded, stranded \/ authed}
            /\ UNCHANGED <<valid, issued, timer>>
        BY <1>14 DEF SignedOut
      <4>2. token' \in 0..issued' /\ valid' \subseteq 1..issued' /\ issued' \in 0..MaxIssued
        BY <1>0, <4>1
      <4>3. authed' \in BOOLEAN /\ timer' \in BOOLEAN /\ stranded' \in BOOLEAN
        BY <1>0, <4>1
      <4> QED
        BY <4>2, <4>3
    <3>2. RequestsOK'
      BY <1>0, <1>14 DEF SignedOut
    <3>3. QuestionsOK'
      BY <1>0, <1>14 DEF SignedOut
    <3> QED
      BY <3>1, <3>2, <3>3
  <2>2. Served
    BY <1>0, <1>14 DEF SignedOut
  <2> QED
    BY <1>0, <2>1, <2>2
<1>15. CASE PasswordChanged
  <2>1. TokensOK' /\ RequestsOK' /\ QuestionsOK'
    BY <1>0, <1>15 DEF PasswordChanged
  <2>2. Served
    BY <1>0, <1>15 DEF PasswordChanged
  <2> QED
    BY <1>0, <2>1, <2>2
<1>16. CASE ReloadTab
  <2>1. TokensOK' /\ RequestsOK' /\ QuestionsOK'
    <3>1. TokensOK'
      BY <1>0, <1>16 DEF ReloadTab, Asking
    <3>2. RequestsOK'
      BY <1>0, <1>16 DEF ReloadTab, Asking
    <3>3. QuestionsOK'
      BY <1>0, <1>16 DEF ReloadTab, Asking
    <3> QED
      BY <3>1, <3>2, <3>3
  <2>2. Served
    BY <1>0, <1>16 DEF ReloadTab
  <2> QED
    BY <1>0, <2>1, <2>2
<1>17. CASE UNCHANGED clientVars
  BY <1>0, <1>17 DEF clientVars
<1> QED
  BY <1>1, <1>2, <1>3, <1>4, <1>5, <1>6, <1>7, <1>8, <1>9, <1>10, <1>11,
     <1>12, <1>13, <1>14, <1>15, <1>16, <1>17
  DEF ClientNext, RequestStep

(* A tab that shows a signed-in user holds a token unless one of the three *)
(* answers SignedInHasToken names took it away unseen, and a request waits *)
(* only for a renewal that is under way, for any number of requests and    *)
(* tokens (authenticatedFetch, renewProcessingSession, fetchAuthState).    *)
THEOREM SessionInvariantOfTab == ClientSpec => []SessionInv
<1> QED
  BY ClientInitially, ClientStep, PTL DEF ClientSpec

(* What must be true of the token when the tab is sent to the login.       *)
TokenRefused == token \notin valid \/ \E r \in mistyped : request[r].token = token

LEMMA ExpiryStep ==
    ASSUME SessionInv, [ClientNext]_clientVars,
           authed /\ ~authed' /\ logout = logout' /\ login'.at # "checking"
    PROVE  TokenRefused
<1> USE DEF SessionInv, ClientTypeOK, RefusedForGood, Is401, NoToken, At, Tokens,
            tabState, questions, flows, TokenRefused
<1>1. ASSUME NEW r \in Requests, RequestStep(r) PROVE TokenRefused
  BY <1>1 DEF RequestStep, Succeeds, Refused, RefusedAgain, Expire
<1>2. CASE Renewed
  <2>1. PICK t \in Tokens : Issue(t) /\ AfterRenewal(IF token = renewal THEN t ELSE token)
    BY <1>2 DEF Renewed
  <2> DEFINE held == IF token = renewal THEN t ELSE token
  <2>2. PICK r \in Requests : At(r, "refused") /\ request[r].token = held
    BY <2>1 DEF AfterRenewal
  <2>3. t = issued + 1 /\ request[r].token \in 0..issued
    BY <2>1, <2>2 DEF Issue
  <2>4. held = token
    BY <2>2, <2>3
  <2> QED
    BY <2>2, <2>4
<1>3. CASE NotRenewed
  BY <1>3 DEF NotRenewed, AfterRenewal
<1>4. CASE StateFetched
  <2>1. login # AtRest
    BY <1>4 DEF StateFetched, AtRest
  <2> QED
    BY <2>1 DEF SignedInHasToken
<1>5. CASE SignedOut \/ ReloadTab
  <2>1. CASE SignedOut
    BY <2>1 DEF SignedOut, AtRest
  <2>2. CASE ReloadTab
    BY <2>2 DEF ReloadTab
  <2> QED
    BY <1>5, <2>1, <2>2
<1> QED
  BY <1>1, <1>2, <1>3, <1>4, <1>5
  DEF ClientNext, clientVars, Begin, RenewalCheck, SignIn, SignInFails,
      SignedIn, AskState, StateTold,
      SignOut, LogoutArrives, PasswordChanged, Revoked

(* A tab is sent to the login only by its user, by a reload, by the        *)
(* refusal of the token it holds or by a mistyped password: no late answer *)
(* ends a session that a later login began (authenticatedFetch, App).      *)
THEOREM ExpiryIsTrue == ClientSpec => ExpiryIsReal
<1>1. SessionInv /\ [ClientNext]_clientVars
      => [authed /\ ~authed' /\ logout = logout' /\ login'.at # "checking"
            => token \notin valid \/ \E r \in mistyped : request[r].token = token]_clientVars
  BY ExpiryStep DEF TokenRefused
<1> QED
  BY <1>1, SessionInvariantOfTab, PTL DEF ClientSpec, ExpiryIsReal

-----------------------------------------------------------------------------
(* The lists of the Analyses view. ListFollows and CapsFollow say what     *)
(* the answer under way will make of a list; the claim about a quiet list  *)
(* is their case without one.                                              *)

LibParts ==
    LibTypeOK /\ RowsAreNamed /\ ListFollows /\ CapsFollow /\ AwayIsQuiet

LEMMA PartsOfLibraryInv == LibParts <=> LibraryInv
<1>1. LibParts => QuietListIsExact
  BY DEF LibParts, QuietListIsExact, ListFollows, CapsFollow
<1>2. LibParts => NothingLeftBehind
  BY DEF LibParts, NothingLeftBehind, AwayIsQuiet
<1>3. OwnCaptureFirst
  BY DEF OwnCaptureFirst, GroupOf
<1> QED
  BY <1>1, <1>2, <1>3 DEF LibParts, LibraryInv

LEMMA NewCallIsCall ==
    ASSUME NEW op \in {"list", "caps", "delete", "deletecap", "rename"},
           NEW on \in ReportIds \cup CaptureIds \cup {NoId}
    PROVE  /\ NewCall(op, on) \in Call
           /\ NewCall(op, on).op = op /\ ~NewCall(op, on).served
  BY DEF NewCall, Call

(* One request at a time brings the list, or that of captures.             *)
OneBringsList ==
    \A c, d \in calls : {c.op, d.op} \subseteq {"list", "rename"} => c = d

OneBringsCaps == \A c, d \in calls : c.op = "caps" /\ d.op = "caps" => c = d

(* A step that sends requests.                                             *)
LEMMA SendingKeeps ==
    ASSUME LibParts, NEW new \in SUBSET Call, \A c \in new : ~c.served,
           calls' = calls \cup new, UNCHANGED <<server, lists>>, here' = TRUE,
           raced' \subseteq {"list", "caps"},
           "list" \notin raced' => OneBringsList',
           "list" \notin raced' =>
              (here /\ "list" \notin raced) \/ \E c \in new : c.op = "list",
           "caps" \notin raced' => OneBringsCaps',
           "caps" \notin raced' =>
              (here /\ "caps" \notin raced) \/ \E c \in new : c.op = "caps",
           loading' \in [list : BOOLEAN, caps : BOOLEAN],
           asking' \subseteq ReportIds \cup CaptureIds
    PROVE  LibParts'
<1>1. LibTypeOK'
  BY DEF LibParts, LibTypeOK, server, lists
<1>2. RowsAreNamed'
  BY DEF LibParts, RowsAreNamed, server
<1>3. ASSUME "list" \notin raced', \A c \in calls' : c.op = "delete" => ~c.served
      PROVE  /\ \A c \in calls' : c.op = "list" /\ c.served => c.rows = srvReports'
             /\ \A c \in calls' : c.op = "rename" /\ c.served =>
                   RenamedRows(c)' = srvReports'
             /\ (\A c \in calls' : c.op # "list" /\ (c.op = "rename" => ~c.served))
                   => list' = srvReports'
  <2>1. CASE here /\ "list" \notin raced
    BY <1>3, <2>1 DEF LibParts, ListFollows, RenamedRows, server, lists
  <2>2. CASE \E c \in new : c.op = "list"
    BY <1>3, <2>2 DEF OneBringsList
  <2> QED
    BY <1>3, <2>1, <2>2
<1>4. ListFollows'
  BY <1>3 DEF ListFollows, OneBringsList
<1>5. CapsFollow'
  <2>1. CASE here /\ "caps" \notin raced
    BY <2>1 DEF LibParts, CapsFollow, OneBringsCaps, server, lists
  <2>2. CASE \E c \in new : c.op = "caps"
    BY <2>2 DEF CapsFollow, OneBringsCaps
  <2> QED
    BY <2>1, <2>2 DEF CapsFollow
<1>6. AwayIsQuiet'
  BY DEF AwayIsQuiet
<1> QED
  BY <1>1, <1>2, <1>4, <1>5, <1>6 DEF LibParts

LEMMA RefreshKeeps ==
    ASSUME LibParts, Refresh, here' = TRUE, UNCHANGED <<server, lists, asking>>
    PROVE  LibParts'
<1> DEFINE new == {NewCall("list", NoId), NewCall("caps", NoId)}
<1>1. /\ new \in SUBSET Call /\ \A c \in new : ~c.served
      /\ \E c \in new : c.op = "list"
      /\ \E c \in new : c.op = "caps"
      /\ \A c, d \in new : c.op = d.op => c = d
      /\ \A c \in new : c.op \in {"list", "caps"}
  BY NewCallIsCall
<1>2. calls' = calls \cup new
  BY DEF Refresh
<1>3. "list" \notin raced' =>
         /\ calls = {} \/ \A c \in calls : c.op \notin {"list", "rename"}
         /\ calls = {} \/ "list" \notin raced
  BY DEF Refresh, RacesOn, Pending
<1>4. "caps" \notin raced' =>
         /\ calls = {} \/ \A c \in calls : c.op # "caps"
         /\ calls = {} \/ "caps" \notin raced
  BY DEF Refresh, RacesOn, Pending
<1>5. raced' \subseteq {"list", "caps"}
  BY DEF Refresh, RacesOn, LibParts, LibTypeOK
<1>6. /\ loading' \in [list : BOOLEAN, caps : BOOLEAN]
      /\ asking' \subseteq ReportIds \cup CaptureIds
  BY DEF Refresh, LibParts, LibTypeOK
<1> HIDE DEF new
<1>7. "list" \notin raced' => OneBringsList'
  BY <1>1, <1>2, <1>3 DEF OneBringsList
<1>8. "caps" \notin raced' => OneBringsCaps'
  BY <1>1, <1>2, <1>4 DEF OneBringsCaps
<1> QED
  BY <1>1, <1>2, <1>5, <1>6, <1>7, <1>8, SendingKeeps

(* The server serves a request: what it answers with is what it holds.     *)
LEMMA ServeKeeps ==
    ASSUME LibParts, NEW c \in calls, Serve(c)
    PROVE  LibParts'
<1> DEFINE d == [c EXCEPT !.served = TRUE,
                   !.rows = IF c.op \in {"list", "rename"} THEN srvReports' ELSE {},
                   !.found = IF c.op = "caps" THEN srvCaptures' ELSE {}]
<1>1. /\ calls' = (calls \ {c}) \cup {d} /\ ~c.served
      /\ UNCHANGED <<here, list, caps, loading, asking, raced>>
  BY DEF Serve, lists
<1>2. c \in Call
  BY DEF LibParts, LibTypeOK
<1>3. /\ d.op = c.op /\ d.on = c.on /\ d.served
      /\ d.rows = IF c.op \in {"list", "rename"} THEN srvReports' ELSE {}
      /\ d.found = IF c.op = "caps" THEN srvCaptures' ELSE {}
  BY <1>2 DEF Call
<1>4. /\ srvReports' \subseteq ReportRow /\ srvCaptures' \subseteq CaptureIds
      /\ \A x, y \in srvReports' : x.id = y.id => x = y
      /\ c.op = "rename" => \E entry \in srvReports' : entry.id = c.on
  <2>1. CASE c.op = "delete"
    BY <2>1 DEF Serve, LibParts, LibTypeOK, RowsAreNamed
  <2>2. CASE c.op = "rename"
    <3> DEFINE new(entry) == IF entry.id = c.on /\ entry.title < MaxTitle
                             THEN [entry EXCEPT !.title = @ + 1] ELSE entry
    <3>1. /\ srvReports' = {new(entry) : entry \in srvReports}
          /\ srvCaptures' = srvCaptures
          /\ \E entry \in srvReports : entry.id = c.on
      BY <2>2 DEF Serve
    <3>2. ASSUME NEW entry \in srvReports
          PROVE  new(entry) \in ReportRow /\ new(entry).id = entry.id
      BY CallsAssumption DEF LibParts, LibTypeOK, ReportRow
    <3> HIDE DEF new
    <3> QED
      BY <2>2, <3>1, <3>2 DEF LibParts, LibTypeOK, RowsAreNamed
  <2>3. CASE c.op \notin {"delete", "rename"}
    BY <2>3 DEF Serve, LibParts, LibTypeOK, RowsAreNamed
  <2> QED
    BY <2>1, <2>2, <2>3
<1>5. d \in Call
  BY <1>2, <1>4 DEF Call
<1> HIDE DEF d
<1>6. LibTypeOK'
  BY <1>1, <1>4, <1>5 DEF LibParts, LibTypeOK
<1>7. RowsAreNamed'
  BY <1>1, <1>3, <1>4 DEF LibParts, RowsAreNamed
<1>8. ListFollows'
  <2> SUFFICES ASSUME "list" \notin raced' PROVE ListFollows'
    BY DEF ListFollows
  <2>1. OneBringsList /\ OneBringsList'
    BY <1>1, <1>3 DEF LibParts, ListFollows, OneBringsList
  <2> SUFFICES ASSUME here, \A e \in calls' : e.op = "delete" => ~e.served
               PROVE  /\ \A e \in calls' : e.op = "list" /\ e.served => e.rows = srvReports'
                      /\ \A e \in calls' : e.op = "rename" /\ e.served =>
                            RenamedRows(e)' = srvReports'
                      /\ (\A e \in calls' : e.op # "list" /\ (e.op = "rename" => ~e.served))
                            => list' = srvReports'
    BY <1>1, <2>1 DEF ListFollows, OneBringsList
  <2>2. /\ \A e \in calls : e.op = "list" /\ e.served => e.rows = srvReports
        /\ \A e \in calls : e.op = "rename" /\ e.served => RenamedRows(e) = srvReports
        /\ (\A e \in calls : e.op # "list" /\ (e.op = "rename" => ~e.served))
              => list = srvReports
    BY <1>1 DEF LibParts, ListFollows
  <2>3. c.op # "delete"
    BY <1>1, <1>3
  <2>4. ASSUME NEW e PROVE RenamedRows(e)' = RenamedRows(e)
    BY <1>1 DEF RenamedRows
  <2>5. CASE c.op = "rename"
    <3>1. list = srvReports
      BY <1>1, <2>1, <2>2, <2>5 DEF OneBringsList
    <3>2. RenamedRows(d) = srvReports'
      <4> DEFINE new(entry) == IF entry.id = c.on /\ entry.title < MaxTitle
                               THEN [entry EXCEPT !.title = @ + 1] ELSE entry
                 taken(entry) == IF entry.id = c.on
                                 THEN CHOOSE x \in srvReports' : x.id = c.on ELSE entry
      <4>1. srvReports' = {new(entry) : entry \in srvReports}
        BY <2>5 DEF Serve
      <4>2. ASSUME NEW entry \in srvReports
            PROVE  new(entry).id = entry.id /\ (entry.id # c.on => new(entry) = entry)
        BY DEF LibParts, LibTypeOK, ReportRow
      <4>3. RenamedRows(d) = {taken(entry) : entry \in srvReports}
        BY <1>3, <2>5, <3>1 DEF RenamedRows
      <4>4. ASSUME NEW entry \in srvReports PROVE taken(entry) = new(entry)
        <5> HIDE DEF new
        <5>1. new(entry) \in srvReports' /\ new(entry).id = entry.id
          BY <4>1, <4>2
        <5>2. CASE entry.id = c.on
          BY <1>4, <5>1, <5>2
        <5>3. CASE entry.id # c.on
          BY <4>2, <5>3
        <5> QED
          BY <5>2, <5>3
      <4> HIDE DEF new, taken
      <4> QED
        BY <4>1, <4>3, <4>4
    <3> QED
      BY <1>1, <1>3, <2>1, <2>4, <2>5, <3>2 DEF OneBringsList
  <2>6. CASE c.op # "rename"
    <3>1. srvReports' = srvReports
      BY <2>3, <2>6 DEF Serve
    <3> QED
      BY <1>1, <1>3, <2>2, <2>4, <2>6, <3>1
  <2> QED
    BY <2>5, <2>6
<1>9. CapsFollow'
  <2>1. CASE c.op = "deletecap"
    BY <1>1, <1>3, <2>1 DEF LibParts, CapsFollow
  <2>2. CASE c.op # "deletecap"
    <3>1. srvCaptures' = srvCaptures
      BY <2>2 DEF Serve
    <3> QED
      BY <1>1, <1>3, <2>2, <3>1 DEF LibParts, CapsFollow
  <2> QED
    BY <2>1, <2>2
<1>10. AwayIsQuiet'
  BY <1>1 DEF LibParts, AwayIsQuiet
<1> QED
  BY <1>6, <1>7, <1>8, <1>9, <1>10 DEF LibParts

LEMMA ConfirmedKeeps ==
    ASSUME LibParts, NEW op \in {"delete", "deletecap"},
           NEW id \in ReportIds \cup CaptureIds, Confirmed(op, id)
    PROVE  LibParts'
<1>1. CASE id \notin asking
  <2>1. asking' \subseteq ReportIds \cup CaptureIds
    BY <1>1 DEF Confirmed, LibParts, LibTypeOK, SameKind
  <2>2. UNCHANGED <<srvReports, srvCaptures, here, list, caps, loading, calls, raced>>
    BY <1>1 DEF Confirmed, server, lists
  <2> QED
    BY <2>1, <2>2
    DEF LibParts, LibTypeOK, RowsAreNamed, ListFollows, CapsFollow, AwayIsQuiet,
        RenamedRows
<1>2. CASE id \in asking
  <2> DEFINE new == {NewCall(op, id)}
  <2>1. new \in SUBSET Call /\ \A c \in new : ~c.served /\ c.op = op
    BY NewCallIsCall
  <2>2. /\ calls' = calls \cup new /\ here /\ here' = here
        /\ UNCHANGED <<server, lists, asking, loading, raced>>
    BY <1>2 DEF Confirmed, TreeShown
  <2> HIDE DEF new
  <2>3. /\ "list" \notin raced' => OneBringsList'
        /\ "caps" \notin raced' => OneBringsCaps'
    BY <2>1, <2>2 DEF OneBringsList, OneBringsCaps, LibParts, ListFollows,
                      CapsFollow
  <2>4. /\ loading' \in [list : BOOLEAN, caps : BOOLEAN]
        /\ asking' \subseteq ReportIds \cup CaptureIds
        /\ raced' \subseteq {"list", "caps"} /\ here' = TRUE /\ raced' = raced
    BY <2>2 DEF LibParts, LibTypeOK
  <2> QED
    BY <2>1, <2>2, <2>3, <2>4, SendingKeeps
<1> QED
  BY <1>1, <1>2

LEMMA LibraryStep ==
    ASSUME LibParts, [LibNext]_libVars
    PROVE  LibParts'
<1>1. CASE RefreshClicked \/ ArriveHere
  BY <1>1, RefreshKeeps DEF RefreshClicked, ArriveHere, lists
<1>2. CASE LeaveHere
  <2>1. /\ here' = FALSE /\ list' = {} /\ caps' = {}
        /\ raced' = IF calls = {} THEN raced ELSE {"list", "caps"}
        /\ UNCHANGED <<srvReports, srvCaptures, loading, asking, calls>>
    BY <1>2 DEF LeaveHere, server
  <2> QED
    BY <2>1 DEF LibParts, LibTypeOK, RowsAreNamed, ListFollows, CapsFollow,
                AwayIsQuiet
<1>3. ASSUME NEW id \in ReportIds, DeleteReport(id) PROVE LibParts'
  BY <1>3, ConfirmedKeeps DEF DeleteReport
<1>4. ASSUME NEW id \in CaptureIds, DeleteCapture(id) PROVE LibParts'
  BY <1>4, ConfirmedKeeps DEF DeleteCapture
<1>5. ASSUME NEW id \in ReportIds \cup CaptureIds, CancelDelete(id)
      PROVE  LibParts'
  BY <1>5
  DEF CancelDelete, server, lists, LibParts, LibTypeOK, RowsAreNamed,
      ListFollows, CapsFollow, AwayIsQuiet, RenamedRows
<1>6. ASSUME NEW id \in ReportIds, RenameReport(id) PROVE LibParts'
  <2> DEFINE new == {NewCall("rename", id)}
  <2>1. new \in SUBSET Call /\ \A c \in new : ~c.served /\ c.op = "rename"
    BY NewCallIsCall
  <2>2. /\ calls' = calls \cup new /\ here /\ here' = here
        /\ UNCHANGED <<server, lists, asking, loading>>
        /\ raced' = raced \cup (IF Pending({"list", "rename"}) THEN {"list"} ELSE {})
    BY <1>6 DEF RenameReport, TreeShown
  <2>3. "list" \notin raced' =>
           "list" \notin raced /\ \A c \in calls : c.op \notin {"list", "rename"}
    BY <2>2 DEF Pending
  <2>4. raced' \subseteq {"list", "caps"}
    BY <2>2 DEF LibParts, LibTypeOK
  <2>5. /\ loading' \in [list : BOOLEAN, caps : BOOLEAN]
        /\ asking' \subseteq ReportIds \cup CaptureIds
    BY <2>2 DEF LibParts, LibTypeOK
  <2>6. "list" \notin raced' => OneBringsList'
    <3>1. \A c, d \in new : c = d
      OBVIOUS
    <3> HIDE DEF new
    <3> QED
      BY <2>2, <2>3, <3>1 DEF OneBringsList
  <2>7. "caps" \notin raced' => OneBringsCaps' /\ "caps" \notin raced
    BY <2>1, <2>2 DEF OneBringsCaps, LibParts, CapsFollow
  <2>8. here' = TRUE
    BY <2>2
  <2> HIDE DEF new
  <2> QED
    BY <2>1, <2>2, <2>3, <2>4, <2>5, <2>6, <2>7, <2>8, SendingKeeps
<1>7. ASSUME NEW c \in calls, Listed(c) PROVE LibParts'
  <2>1. /\ c \in Call /\ c.op \in {"list", "caps"} /\ c.served
        /\ calls' = calls \ {c}
        /\ UNCHANGED <<srvReports, srvCaptures, here, asking, raced>>
    BY <1>7 DEF Listed, server, LibParts, LibTypeOK
  <2>2. loading' \in [list : BOOLEAN, caps : BOOLEAN]
    BY <1>7 DEF Listed, LibParts, LibTypeOK
  <2>3. IF c.op = "list" THEN list' = c.rows /\ caps' = caps
                         ELSE caps' = c.found /\ list' = list
    BY <1>7 DEF Listed
  <2>4. c.rows \subseteq ReportRow /\ c.found \subseteq CaptureIds
    BY <2>1 DEF Call
  <2>5. LibTypeOK'
    BY <2>1, <2>2, <2>3, <2>4 DEF LibParts, LibTypeOK
  <2>6. RowsAreNamed'
    BY <2>1 DEF LibParts, RowsAreNamed
  <2>7. ListFollows'
    <3>1. CASE c.op = "list"
      BY <2>1, <2>3, <3>1 DEF LibParts, ListFollows
    <3>2. CASE c.op = "caps"
      BY <2>1, <2>3, <3>2 DEF LibParts, ListFollows, RenamedRows
    <3> QED
      BY <2>1, <3>1, <3>2
  <2>8. CapsFollow'
    BY <2>1, <2>3 DEF LibParts, CapsFollow
  <2>9. AwayIsQuiet'
    BY <2>1 DEF LibParts, AwayIsQuiet
  <2> QED
    BY <2>5, <2>6, <2>7, <2>8, <2>9 DEF LibParts
<1>8. ASSUME NEW c \in calls, Deleted(c) PROVE LibParts'
  <2> DEFINE op == IF c.op = "delete" THEN "list" ELSE "caps"
             new == NewCall(op, NoId)
  <2>1. /\ c.op \in {"delete", "deletecap"} /\ c.served
        /\ calls' = (calls \ {c}) \cup {new}
        /\ loading' = [loading EXCEPT ![op] = TRUE]
        /\ raced' = raced \cup RacesOn({op}) \cup (IF here THEN {} ELSE {op})
        /\ UNCHANGED <<srvReports, srvCaptures, here, list, caps>>
        /\ asking' = asking \ SameKind(c.on)
    BY <1>8 DEF Deleted, server, lists
  <2>2. new \in Call /\ new.op = op /\ ~new.served /\ op \in {"list", "caps"}
    BY NewCallIsCall
  <2>3. LibTypeOK'
    <3>1. loading' \in [list : BOOLEAN, caps : BOOLEAN]
      BY <2>1 DEF LibParts, LibTypeOK
    <3>2. raced' \subseteq {"list", "caps"}
      BY <2>1, <2>2 DEF LibParts, LibTypeOK, RacesOn
    <3> HIDE DEF new, op
    <3> QED
      BY <2>1, <2>2, <3>1, <3>2 DEF LibParts, LibTypeOK
  <2>4. op = "list" /\ "list" \notin raced' =>
           /\ "list" \notin raced
           /\ \A e \in calls : e.op \notin {"list", "rename"}
    BY <2>1 DEF RacesOn, Pending
  <2>5. op = "caps" /\ "caps" \notin raced' =>
           "caps" \notin raced /\ \A e \in calls : e.op # "caps"
    BY <2>1 DEF RacesOn, Pending
  <2>6. raced \subseteq raced'
    BY <2>1
  <2>7. op = "list" <=> c.op = "delete"
    OBVIOUS
  <2> HIDE DEF new, op
  <2>8. RowsAreNamed'
    BY <2>1, <2>2 DEF LibParts, RowsAreNamed
  <2>9. ListFollows'
    <3>1. CASE op = "list"
      BY <2>1, <2>2, <2>4, <3>1 DEF ListFollows
    <3>2. CASE op = "caps"
      BY <2>1, <2>2, <2>6, <2>7, <3>2 DEF LibParts, ListFollows, RenamedRows
    <3> QED
      BY <2>2, <3>1, <3>2
  <2>10. CapsFollow'
    <3>1. CASE op = "caps"
      BY <2>1, <2>2, <2>5, <3>1 DEF CapsFollow
    <3>2. CASE op = "list"
      BY <2>1, <2>2, <2>6, <2>7, <3>2 DEF LibParts, CapsFollow
    <3> QED
      BY <2>2, <3>1, <3>2
  <2>11. AwayIsQuiet'
    BY <2>1, <2>3, <2>6 DEF LibParts, AwayIsQuiet, LibTypeOK
  <2> QED
    BY <2>3, <2>8, <2>9, <2>10, <2>11 DEF LibParts
<1>9. ASSUME NEW c \in calls, Renamed(c) PROVE LibParts'
  <2>1. /\ c \in Call /\ c.op = "rename" /\ c.served
        /\ calls' = calls \ {c} /\ list' = RenamedRows(c)
        /\ UNCHANGED <<srvReports, srvCaptures, here, caps, loading, asking, raced>>
    BY <1>9 DEF Renamed, server, LibParts, LibTypeOK
  <2>2. RenamedRows(c) \subseteq ReportRow
    <3>1. c.rows \subseteq ReportRow /\ \E entry \in c.rows : entry.id = c.on
      BY <2>1 DEF Call, LibParts, RowsAreNamed
    <3>2. (CHOOSE new \in c.rows : new.id = c.on) \in ReportRow
      BY <3>1
    <3> QED
      BY <3>2 DEF RenamedRows, LibParts, LibTypeOK
  <2>3. LibTypeOK'
    BY <2>1, <2>2 DEF LibParts, LibTypeOK
  <2>4. RowsAreNamed'
    BY <2>1 DEF LibParts, RowsAreNamed
  <2>5. ListFollows'
    BY <2>1 DEF LibParts, ListFollows
  <2>6. CapsFollow'
    BY <2>1 DEF LibParts, CapsFollow
  <2>7. AwayIsQuiet'
    BY <2>1 DEF LibParts, AwayIsQuiet
  <2> QED
    BY <2>3, <2>4, <2>5, <2>6, <2>7 DEF LibParts
<1>10. ASSUME NEW c \in calls, CallFails(c) PROVE LibParts'
  <2>1. /\ c \in Call /\ calls' = calls \ {c}
        /\ raced' = raced \cup (IF c.op \in {"caps", "deletecap"} THEN {"caps"}
                                ELSE {"list"})
        /\ UNCHANGED <<srvReports, srvCaptures, here, list, caps, asking>>
    BY <1>10 DEF CallFails, server, lists, LibParts, LibTypeOK
  <2>2. LibTypeOK'
    <3>1. loading' \in [list : BOOLEAN, caps : BOOLEAN]
      BY <1>10 DEF CallFails, LibParts, LibTypeOK
    <3> QED
      BY <2>1, <3>1 DEF LibParts, LibTypeOK
  <2>3. RowsAreNamed'
    BY <2>1 DEF LibParts, RowsAreNamed
  <2>4. ListFollows'
    BY <2>1 DEF LibParts, ListFollows, RenamedRows
  <2>5. CapsFollow'
    BY <2>1 DEF LibParts, CapsFollow, Call
  <2>6. AwayIsQuiet'
    BY <2>1 DEF LibParts, AwayIsQuiet
  <2> QED
    BY <2>2, <2>3, <2>4, <2>5, <2>6 DEF LibParts
<1>11. CASE UNCHANGED libVars
  BY <1>11
  DEF libVars, server, lists, LibParts, LibTypeOK, RowsAreNamed, ListFollows,
      CapsFollow, AwayIsQuiet, RenamedRows
<1> QED
  BY <1>1, <1>2, <1>3, <1>4, <1>5, <1>6, <1>7, <1>8, <1>9, <1>10, <1>11,
     ServeKeeps
  DEF LibNext

LEMMA LibraryInitially == LibInit => LibParts
<1> SUFFICES ASSUME LibInit PROVE LibParts
  OBVIOUS
<1>1. srvReports \subseteq ReportRow /\ \A x, y \in srvReports : x.id = y.id => x = y
  BY SourceAssumption, CallsAssumption DEF LibInit, ReportRow
<1>2. LibTypeOK
  BY <1>1 DEF LibInit, LibTypeOK
<1>3. RowsAreNamed /\ ListFollows /\ CapsFollow /\ AwayIsQuiet
  BY <1>1 DEF LibInit, RowsAreNamed, ListFollows, CapsFollow, AwayIsQuiet
<1> QED
  BY <1>2, <1>3 DEF LibParts

(* The lists of the library are those of the server once quiet, and        *)
(* nothing of an account stays after its session, unless answers raced,    *)
(* for any number of reports, captures and requests at a time              *)
(* (refreshSavedReports, refreshRetainedCaptures, saveReportRename).       *)
THEOREM LibraryInvariant == LibSpec => []LibraryInv
<1> QED
  BY LibraryInitially, LibraryStep, PartsOfLibraryInv, PTL DEF LibSpec

-----------------------------------------------------------------------------
(* The comparison of two reports. What findingDeltas finds is about any    *)
(* two lists of findings; only which reports are on screen needs an        *)
(* invariant.                                                              *)

(* What a Map of findings holds.                                           *)
LEMMA MapOfFindings ==
    ASSUME NEW found, NEW m \in Nat, DOMAIN found = 1..m, OwnKeys(found)
    PROVE  /\ \A i \in 1..m : /\ KeyAt(found, i) \in DOMAIN KeyedFindings(found)
                              /\ KeyedFindings(found)[KeyAt(found, i)] = found[i]
           /\ \A k \in DOMAIN KeyedFindings(found) :
                 KeyedFindings(found)[k] \in Range(found)
<1>1. ASSUME NEW i \in 1..m
      PROVE  /\ KeyAt(found, i) \in DOMAIN KeyedFindings(found)
             /\ KeyedFindings(found)[KeyAt(found, i)] = found[i]
  <2> DEFINE k == KeyAt(found, i)
             of == {j \in 1..m : KeyAt(found, j) = k}
  <2>1. of = {i}
    BY DEF OwnKeys
  <2>2. (CHOOSE j \in of : \A n \in of : n <= j) = i
    BY <2>1
  <2>3. k \in {KeyAt(found, j) : j \in 1..m}
    OBVIOUS
  <2> QED
    BY <2>2, <2>3 DEF KeyedFindings
<1>2. ASSUME NEW k \in DOMAIN KeyedFindings(found)
      PROVE  \E i \in 1..m : k = KeyAt(found, i)
  BY DEF KeyedFindings
<1> QED
  BY <1>1, <1>2 DEF Range

(* A comparison the other way round says the opposite.                     *)
LEMMA DeltasMirror ==
    ASSUME NEW a, NEW b
    PROVE  /\ FindingDeltas(b, a) =
                {[d EXCEPT !.change = IF @ = "new" THEN "resolved"
                                      ELSE IF @ = "resolved" THEN "new" ELSE @] :
                   d \in FindingDeltas(a, b)}
           /\ a = b => FindingDeltas(a, b) = {}
<1> DEFINE before == KeyedFindings(a)
           after == KeyedFindings(b)
           turn(d) == [d EXCEPT !.change = IF @ = "new" THEN "resolved"
                                ELSE IF @ = "resolved" THEN "new" ELSE @]
           new(k) == [change |-> "new", key |-> k]
           resolved(k) == [change |-> "resolved", key |-> k]
           changed(k) == [change |-> "changed", key |-> k]
<1>1. \A k : turn(new(k)) = resolved(k) /\ turn(resolved(k)) = new(k)
             /\ turn(changed(k)) = changed(k)
  OBVIOUS
<1>2. Changed(before, after) = Changed(after, before)
  BY DEF Changed
<1>3. FindingDeltas(a, b) =
        {new(k) : k \in DOMAIN after \ DOMAIN before}
        \cup {resolved(k) : k \in DOMAIN before \ DOMAIN after}
        \cup {changed(k) : k \in Changed(before, after)}
  BY DEF FindingDeltas
<1>4. FindingDeltas(b, a) =
        {new(k) : k \in DOMAIN before \ DOMAIN after}
        \cup {resolved(k) : k \in DOMAIN after \ DOMAIN before}
        \cup {changed(k) : k \in Changed(before, after)}
  BY <1>2 DEF FindingDeltas
<1>5. a = b => FindingDeltas(a, b) = {}
  BY <1>3 DEF Changed
<1> HIDE DEF before, after, turn, new, resolved, changed
<1>6. FindingDeltas(b, a) = {turn(d) : d \in FindingDeltas(a, b)}
  BY <1>1, <1>3, <1>4
<1> QED
  BY <1>5, <1>6 DEF turn

(* What differs from a finding of the first report is shown.               *)
LEMMA DeltasShow ==
    ASSUME NEW a \in ReportFindings, NEW b \in ReportFindings,
           OwnKeys(a), OwnKeys(b), NEW i \in DOMAIN b, b[i] \notin Range(a)
    PROVE  \E d \in FindingDeltas(a, b) : d.key = KeyAt(b, i)
<1> DEFINE before == KeyedFindings(a)
           after == KeyedFindings(b)
           k == KeyAt(b, i)
<1>1. PICK m \in Nat, n \in Nat : DOMAIN a = 1..m /\ DOMAIN b = 1..n
  BY DEF ReportFindings, BoundedSeq, SeqOf
<1>3. k \in DOMAIN after /\ after[k] = b[i]
  BY <1>1, MapOfFindings
<1>4. k \in DOMAIN before => before[k] # b[i]
  BY <1>1, MapOfFindings
<1>5. k \in DOMAIN after \ DOMAIN before \/ k \in Changed(before, after)
  BY <1>3, <1>4 DEF Changed
<1>6. /\ k \in DOMAIN after \ DOMAIN before =>
              [change |-> "new", key |-> k] \in FindingDeltas(a, b)
      /\ k \in Changed(before, after) =>
              [change |-> "changed", key |-> k] \in FindingDeltas(a, b)
  BY DEF FindingDeltas
<1> HIDE DEF before, after, k
<1> QED
  BY <1>5, <1>6 DEF k

LEMMA SelectionShapes ==
    \A s : s \in BoundedSeq(SavedReports, 2) <=>
             \/ s = <<>>
             \/ \E x \in SavedReports : s = <<x>>
             \/ \E x, y \in SavedReports : s = <<x, y>>
<1>1. \A s : s \in BoundedSeq(SavedReports, 2)
               <=> \E m \in 0..2 : s \in [1..m -> SavedReports]
  BY DEF BoundedSeq, SeqOf
<1>2. \A s : s \in [1..0 -> SavedReports] <=> s = <<>>
  <2>1. 1..0 = {}
    OBVIOUS
  <2>2. ASSUME NEW s \in [1..0 -> SavedReports] PROVE s = <<>>
    BY <2>1
  <2>3. <<>> \in [1..0 -> SavedReports]
    BY <2>1
  <2> QED
    BY <2>2, <2>3
<1>3. \A s : s \in [1..1 -> SavedReports] <=> \E x \in SavedReports : s = <<x>>
  <2>1. ASSUME NEW s \in [1..1 -> SavedReports] PROVE s = <<s[1]>> /\ s[1] \in SavedReports
    OBVIOUS
  <2>2. ASSUME NEW x \in SavedReports PROVE <<x>> \in [1..1 -> SavedReports]
    OBVIOUS
  <2> QED
    BY <2>1, <2>2
<1>4. \A s : s \in [1..2 -> SavedReports]
               <=> \E x, y \in SavedReports : s = <<x, y>>
  <2>1. ASSUME NEW s \in [1..2 -> SavedReports]
        PROVE  s = <<s[1], s[2]>> /\ s[1] \in SavedReports /\ s[2] \in SavedReports
    OBVIOUS
  <2>2. ASSUME NEW x \in SavedReports, NEW y \in SavedReports
        PROVE  <<x, y>> \in [1..2 -> SavedReports]
    OBVIOUS
  <2> QED
    BY <2>1, <2>2
<1>5. \A m : m \in 0..2 <=> m \in {0, 1, 2}
  OBVIOUS
<1> QED
  BY <1>1, <1>2, <1>3, <1>4, <1>5

Selection(s) ==
    /\ s \in BoundedSeq(SavedReports, 2)
    /\ \A i, j \in DOMAIN s : s[i] = s[j] => i = j

LEMMA ToggledIsSelection ==
    ASSUME Selection(picked), NEW r \in SavedReports
    PROVE  Selection(Toggled(r))
<1>1. CASE picked = <<>>
  <2>1. Toggled(r) = <<r>>
    BY <1>1 DEF Toggled, Range
  <2> QED
    BY <2>1, SelectionShapes DEF Selection
<1>2. ASSUME NEW x \in SavedReports, picked = <<x>> PROVE Selection(Toggled(r))
  <2>1. Range(picked) = {x} /\ Len(picked) = 1 /\ picked[1] = x
    BY <1>2 DEF Range
  <2>2. x = r => Toggled(r) = <<>>
    <3>1. Tail(<<x>>) = <<>>
      OBVIOUS
    <3> QED
      BY <1>2, <2>1, <3>1 DEF Toggled
  <2>3. x # r => Toggled(r) = <<x, r>>
    <3>1. Append(<<x>>, r) = <<x, r>>
      <4> DEFINE s == Append(<<x>>, r)
                 t == <<x, r>>
      <4>1. <<x>> \in Seq(SavedReports) /\ Len(<<x>>) = 1 /\ <<x>>[1] = x
        OBVIOUS
      <4>2. /\ s \in Seq(SavedReports) /\ Len(s) = 2
            /\ s[1] = x /\ s[2] = r
        BY <4>1, AppendProperties
      <4>3. /\ t \in Seq(SavedReports) /\ Len(t) = 2
            /\ t[1] = x /\ t[2] = r
        OBVIOUS
      <4> HIDE DEF s, t
      <4>4. \A i \in 1..2 : i = 1 \/ i = 2
        OBVIOUS
      <4>5. \A i \in 1..Len(s) : s[i] = t[i]
        BY <4>2, <4>3, <4>4
      <4>6. s = t
        BY <4>2, <4>3, <4>5, SeqEqual
      <4> QED
        BY <4>6 DEF s, t
    <3> QED
      BY <1>2, <2>1, <3>1 DEF Toggled
  <2> QED
    BY <2>2, <2>3, SelectionShapes DEF Selection
<1>3. ASSUME NEW x \in SavedReports, NEW y \in SavedReports, picked = <<x, y>>
      PROVE  Selection(Toggled(r))
  <2>1. /\ Range(picked) = {x, y} /\ Len(picked) = 2
        /\ picked[1] = x /\ picked[2] = y /\ x # y
    BY <1>3 DEF Range, Selection
  <2>2. x = r => Toggled(r) = <<y>>
    BY <1>3, <2>1 DEF Toggled
  <2>3. y = r => Toggled(r) = <<x>>
    BY <1>3, <2>1 DEF Toggled
  <2>4. r \notin {x, y} => Toggled(r) = <<y, r>>
    BY <1>3, <2>1 DEF Toggled
  <2> QED
    BY <2>2, <2>3, <2>4, SelectionShapes DEF Selection
<1> QED
  BY <1>1, <1>2, <1>3, SelectionShapes DEF Selection

(* The part of ComparisonInv that does not follow from the shape of what   *)
(* is on screen.                                                           *)
ComparisonParts == ComparisonTypeOK /\ ComparedIsPicked /\ LoadingIsPicked

LEMMA OnScreen == ASSUME ComparisonParts PROVE ComparisonInv
<1>1. MirrorsAgree
  BY DeltasMirror DEF MirrorsAgree, Shown
<1>2. DistinctFindingsShown
  <2> SUFFICES ASSUME compared # <<>>, OwnKeys(contents[1]), OwnKeys(contents[2]),
                      NEW i \in DOMAIN contents[2], contents[2][i] \notin Range(contents[1])
               PROVE  \E d \in Shown : d.key = KeyAt(contents[2], i)
    BY DEF DistinctFindingsShown
  <2>1. contents[1] \in ReportFindings /\ contents[2] \in ReportFindings
    BY DEF ComparisonParts, ComparisonTypeOK
  <2> QED
    BY <2>1, DeltasShow DEF Shown
<1> QED
  BY <1>1, <1>2 DEF ComparisonParts, ComparisonInv

LEMMA ComparisonStep ==
    ASSUME ComparisonParts, [ComparisonNext]_compVars
    PROVE  ComparisonParts'
<1> USE DEF ComparisonParts, ComparisonTypeOK, ComparedIsPicked, LoadingIsPicked
<1>1. ASSUME NEW r \in SavedReports, ToggleReport(r) PROVE ComparisonParts'
  <2>1. Selection(picked)'
    BY <1>1, ToggledIsSelection DEF ToggleReport, Selection
  <2> QED
    BY <1>1, <2>1 DEF ToggleReport, Selection
<1>2. ASSUME NEW a \in ReportFindings, NEW b \in ReportFindings, ShowComparison(a, b)
      PROVE  ComparisonParts'
  <2>1. <<a, b>> \in [1..2 -> ReportFindings]
    OBVIOUS
  <2> QED
    BY <1>2, <2>1 DEF ShowComparison
<1>3. CASE CompareSelected
  <2>1. picked \in [1..2 -> SavedReports]
    BY <1>3, SelectionShapes DEF CompareSelected
  <2> QED
    BY <1>3, <2>1 DEF CompareSelected
<1>4. CASE ComparisonFails
  BY <1>4 DEF ComparisonFails
<1>5. CASE CloseComparison
  BY <1>5 DEF CloseComparison
<1>6. CASE UNCHANGED compVars
  BY <1>6 DEF compVars
<1> QED
  BY <1>1, <1>2, <1>3, <1>4, <1>5, <1>6 DEF ComparisonNext

(* The comparison on screen is of the selected reports, says the opposite  *)
(* the other way round, and shows every finding that is new or changed     *)
(* when keys are distinct, for reports with any findings                   *)
(* (compareSelectedReports, findingDeltas).                                *)
THEOREM ComparisonInvariant == ComparisonSpec => []ComparisonInv
<1>1. ComparisonInit => ComparisonParts
  <2>1. <<>> \in BoundedSeq(SavedReports, 2)
    BY SelectionShapes
  <2>2. ASSUME ComparisonInit PROVE ComparisonTypeOK
    <3>1. /\ picked = <<>> /\ comparing = <<>> /\ compared = <<>>
          /\ contents = <<>> /\ comparisonRaced = FALSE
      BY <2>2 DEF ComparisonInit
    <3>2. \A i, j \in DOMAIN <<>> : i = j
      OBVIOUS
    <3>3. \A i, j \in DOMAIN picked : picked[i] = picked[j] => i = j
      BY <3>1, <3>2
    <3>4. {comparing, compared} \subseteq
             {<<>>} \cup [1..2 -> SavedReports]
      BY <3>1
    <3> QED
      BY <2>1, <3>1, <3>3, <3>4 DEF ComparisonTypeOK
  <2>3. ComparisonInit => ComparedIsPicked /\ LoadingIsPicked
    BY DEF ComparisonInit, ComparedIsPicked, LoadingIsPicked
  <2> QED
    BY <2>2, <2>3 DEF ComparisonParts
<1>2. ComparisonParts => ComparisonInv
  BY OnScreen
<1> QED
  BY <1>1, <1>2, ComparisonStep, PTL DEF ComparisonSpec

-----------------------------------------------------------------------------
(* Notes and reviewed values. NotesInv is inductive: FileHasKept and       *)
(* LastPatchHasAll say which file the server will have, once the requests  *)
(* under way arrive in the order they were sent.                           *)

(* The types of the drawer and of the dialog apart.                        *)
NotesTyped ==
    /\ notes \in NoteRecord /\ keptNotes \in NoteRecord /\ fileNotes \in NoteRecord
    /\ \A p \in patches : p.saved \in NoteRecord /\ p.number \in 1..noteSaves
    /\ noteSaves \in 0..MaxNoteSaves

DialogTyped ==
    /\ loaded \in BOOLEAN /\ disordered \in BOOLEAN
    /\ section \in NoteSections
    /\ noteDialog \in [open : BOOLEAN, draft : Texts, for : NoteSections,
                       moved : BOOLEAN]
    /\ noteDialog.open => noteDialog.for = section \/ noteDialog.moved
    /\ ~loaded => notes = EmptyRecord /\ ~noteDialog.open

DrawerTyped ==
    /\ drawer \in [entity : Entities \cup {NoEntity}, note : DrawerEditor,
                   review : DrawerEditor]
    /\ drawer.note.open => drawer.note.for = drawer.entity
    /\ drawer.review.open => drawer.review.for = drawer.entity
    /\ ~loaded \/ drawer.entity = NoEntity => drawer = ClosedDrawer

Kept == ScreenSurvivesReload /\ QuietFileIsExact /\ FileHasKept /\ LastPatchHasAll

NotesParts == NotesTyped /\ DialogTyped /\ DrawerTyped /\ Kept

LEMMA PartsOfNotesInv == NotesInv <=> NotesParts
  BY
  DEF NotesInv, NotesTypeOK, NotesParts, NotesTyped, DialogTyped, DrawerTyped,
      Kept,
     DraftStaysWithItsOwner

LEMMA KeepKeeps ==
    ASSUME NotesTyped, Kept, loaded, loaded' = loaded,
           NEW key \in NoteKeys, NEW words \in Texts, Keep(key, words)
    PROVE  NotesTyped' /\ Kept'
<1> DEFINE p == [number |-> noteSaves', saved |-> notes']
<1>1. /\ noteSaves \in Nat /\ noteSaves' = noteSaves + 1 /\ noteSaves < MaxNoteSaves
      /\ notes' = [notes EXCEPT ![key] = words] /\ fileNotes' = fileNotes
      /\ keptNotes' = [k \in NoteKeys |-> IF k[1] = key[1] THEN notes'[k]
                                          ELSE keptNotes[k]]
      /\ patches' = patches \cup {p} /\ disordered' = disordered
  BY NoteSavesAssumption DEF NotesTyped, Keep
<1>2. notes' \in NoteRecord /\ keptNotes' \in NoteRecord
  BY <1>1 DEF NotesTyped, NoteRecord
<1>3. p.number = noteSaves + 1 /\ p.saved = notes'
  BY <1>1
<1>4. ASSUME NEW q \in patches PROVE q.number <= noteSaves /\ q.number \in Nat
  BY <1>1 DEF NotesTyped
<1> HIDE DEF p
<1>5. NotesTyped'
  BY <1>1, <1>2, <1>3, NoteSavesAssumption DEF NotesTyped
<1>6. ASSUME NEW k \in NoteKeys
      PROVE  keptNotes'[k] \in {NoText, notes'[k]}
  <2>1. keptNotes[k] \in {NoText, notes[k]}
    BY DEF Kept, ScreenSurvivesReload
  <2>2. k # key => notes'[k] = notes[k]
    BY <1>1 DEF NotesTyped, NoteRecord
  <2>3. k[1] # key[1] => k # key
    OBVIOUS
  <2> QED
    BY <1>1, <2>1, <2>2, <2>3
<1>7. ScreenSurvivesReload'
  BY <1>1, <1>6 DEF ScreenSurvivesReload
<1>8. QuietFileIsExact' /\ FileHasKept'
  BY <1>1 DEF QuietFileIsExact, FileHasKept
<1>9. LastPatchHasAll'
  <2> SUFFICES ASSUME NEW q \in patches', \A o \in patches' : o.number <= q.number
               PROVE  q.saved = notes'
    BY <1>6 DEF LastPatchHasAll
  <2>1. p.number <= q.number
    BY <1>1
  <2>2. q \notin patches
    BY <1>1, <1>3, <1>4, <2>1
  <2> QED
    BY <1>1, <1>3, <2>2
<1> QED
  BY <1>5, <1>7, <1>8, <1>9 DEF Kept

LEMMA PatchKeeps ==
    ASSUME NotesTyped, Kept, UNCHANGED loaded,
           NEW p \in patches, PatchArrives(p) \/ PatchFails(p)
    PROVE  NotesTyped' /\ Kept'
<1>1. CASE PatchArrives(p)
  <2>1. /\ patches' = patches \ {p} /\ fileNotes' = p.saved
        /\ disordered' = (disordered \/ \E q \in patches : q.number < p.number)
        /\ UNCHANGED <<notes, keptNotes, noteSaves>>
    BY <1>1 DEF PatchArrives
  <2>2. NotesTyped'
    BY <2>1 DEF NotesTyped
  <2>3. \A q \in patches : q.number \in Nat
    BY NoteSavesAssumption DEF NotesTyped
  <2>4. ASSUME ~disordered', NEW q \in patches PROVE p.number <= q.number
    <3>1. ~(q.number < p.number)
      BY <2>1, <2>4
    <3> QED
      BY <2>3, <3>1
  <2>5. ASSUME ~disordered', patches' = {}
        PROVE  /\ loaded => fileNotes' = notes
               /\ \A k \in NoteKeys : keptNotes[k] \in {NoText, fileNotes'[k]}
    <3>1. \A q \in patches : q.number <= p.number
      BY <2>1, <2>3, <2>5
    <3> QED
      BY <2>1, <2>5, <3>1 DEF Kept, LastPatchHasAll
  <2>6. ScreenSurvivesReload'
    <3>1. ASSUME loaded, NEW k \in NoteKeys PROVE keptNotes[k] \in {notes[k], NoText}
      BY <3>1 DEF Kept, ScreenSurvivesReload
    <3> QED
      BY <2>1, <2>5, <3>1 DEF ScreenSurvivesReload
  <2>7. QuietFileIsExact' /\ FileHasKept'
    BY <2>1, <2>5 DEF QuietFileIsExact, FileHasKept
  <2>8. LastPatchHasAll'
    <3> SUFFICES ASSUME NEW q \in patches', ~disordered',
                        \A o \in patches' : o.number <= q.number
                 PROVE  /\ loaded => q.saved = notes
                        /\ \A k \in NoteKeys : keptNotes[k] \in {NoText, q.saved[k]}
      BY <2>1 DEF LastPatchHasAll
    <3>1. \A o \in patches : o.number <= q.number
      BY <2>1, <2>4
    <3> QED
      BY <2>1, <3>1 DEF Kept, LastPatchHasAll
  <2> QED
    BY <2>2, <2>6, <2>7, <2>8 DEF Kept
<1>2. CASE PatchFails(p)
  BY <1>2 DEF PatchFails, NotesTyped, Kept, ScreenSurvivesReload,
          QuietFileIsExact, FileHasKept, LastPatchHasAll
<1> QED
  BY <1>1, <1>2

LEMMA LoadKeeps ==
    ASSUME NotesTyped, Kept, LoadNotes
    PROVE  NotesTyped' /\ Kept'
<1>1. /\ loaded' = TRUE /\ disordered' = (disordered \/ patches # {})
      /\ notes' = [k \in NoteKeys |-> IF keptNotes[k] # NoText THEN keptNotes[k]
                                      ELSE fileNotes[k]]
      /\ UNCHANGED <<keptNotes, fileNotes, patches, noteSaves>>
  BY DEF LoadNotes
<1>2. NotesTyped'
  BY <1>1 DEF NotesTyped, NoteRecord
<1>3. ASSUME patches = {}, ~disordered PROVE notes' = fileNotes
  <2>1. \A k \in NoteKeys : notes'[k] = fileNotes[k]
    BY <1>1, <1>3 DEF Kept, FileHasKept
  <2>2. notes' \in NoteRecord /\ fileNotes \in NoteRecord
    BY <1>2 DEF NotesTyped
  <2> QED
    BY <2>1, <2>2 DEF NoteRecord
<1>4. ScreenSurvivesReload'
  BY <1>1 DEF ScreenSurvivesReload
<1>5. QuietFileIsExact' /\ FileHasKept' /\ LastPatchHasAll'
  BY <1>1, <1>3 DEF QuietFileIsExact, FileHasKept, LastPatchHasAll, Kept
<1> QED
  BY <1>2, <1>4, <1>5 DEF Kept


(* The texts that App and the drawer show for an entity.                   *)
LEMMA NoteIsText ==
    ASSUME notes \in NoteRecord, NEW e \in Entities \cup {NoEntity},
           NEW kind \in {"note", "review"}
    PROVE  NoteOf(e, kind) \in Texts
  BY NoteSavesAssumption DEF NoteOf, NoteRecord, NoteKeys, Texts, NoText

LEMMA NextNoteIsText ==
    ASSUME notes' \in NoteRecord, NEW e \in Entities \cup {NoEntity},
           NEW kind \in {"note", "review"}
    PROVE  NoteOfNext(e, kind) \in Texts
  BY NoteSavesAssumption DEF NoteOfNext, NoteRecord, NoteKeys, Texts, NoText

LEMMA NoDraftIsTyped ==
    ASSUME NEW words \in Texts
    PROVE  NoDraft(words) \in DrawerEditor /\ ~NoDraft(words).open
  BY DEF NoDraft, DrawerEditor

(* A render keeps an editor for the entity it was opened for, or ends it.  *)
LEMMA RenderKeeps ==
    ASSUME notes' \in NoteRecord, DrawerTyped,
           NEW e \in Entities, Rendered(e), loaded' = TRUE
    PROVE  DrawerTyped'
<1> DEFINE n == NoteOfNext(e, "note")
           v == NoteOfNext(e, "review")
<1>1. /\ NoDraft(n) \in DrawerEditor /\ ~NoDraft(n).open
      /\ NoDraft(v) \in DrawerEditor /\ ~NoDraft(v).open
  BY NextNoteIsText, NoDraftIsTyped
<1>2. /\ drawer' = [entity |-> e, note |-> drawer'.note, review |-> drawer'.review]
      /\ drawer'.note = NoDraft(n) \/ (drawer'.note = drawer.note /\ e = drawer.entity)
      /\ drawer'.review = NoDraft(v)
         \/ (drawer'.review = drawer.review /\ e = drawer.entity)
  BY DEF Rendered
<1> HIDE DEF n, v
<1>3. drawer.note \in DrawerEditor /\ drawer.review \in DrawerEditor
  BY DEF DrawerTyped
<1> QED
  BY <1>1, <1>2, <1>3, NoEntityAssumption DEF DrawerTyped

LEMMA NotesStep ==
    ASSUME NotesParts, [NotesNext]_notesVars
    PROVE  NotesParts'
<1> USE NoteSavesAssumption, NoEntityAssumption
    DEF NotesParts
<1>1. CASE LoadNotes
  <2>1. NotesTyped' /\ Kept'
    BY <1>1, LoadKeeps
  <2>2. DialogTyped' /\ DrawerTyped'
    BY <1>1 DEF LoadNotes, DialogTyped, DrawerTyped
  <2> QED
    BY <2>1, <2>2
<1>2. CASE LeaveReport
  <2>1. NotesTyped'
    BY <1>2 DEF LeaveReport, NotesTyped, NoteRecord, EmptyRecord, Texts, NoText
  <2>2. DialogTyped'
    <3>1. (CHOOSE s \in NoteSections : TRUE) \in NoteSections
      BY DEF DialogTyped
    <3>2. /\ ClosedDialog \in [open : BOOLEAN, draft : Texts, for : NoteSections,
                               moved : BOOLEAN]
          /\ ~ClosedDialog.open
      BY <3>1 DEF ClosedDialog, Texts, NoText
    <3> QED
      BY <1>2, <3>2 DEF LeaveReport, DialogTyped
  <2>3. DrawerTyped'
    BY <1>2, NoDraftIsTyped
    DEF LeaveReport, DrawerTyped, ClosedDrawer, Texts, NoText
  <2>4. Kept'
    BY <1>2
    DEF LeaveReport, Kept, ScreenSurvivesReload, QuietFileIsExact, FileHasKept,
        LastPatchHasAll
  <2> QED
    BY <2>1, <2>2, <2>3, <2>4
<1>3. ASSUME UNCHANGED <<noteStore, loaded>>, DialogTyped', DrawerTyped'
      PROVE  NotesParts'
  BY <1>3
  DEF noteStore, NotesTyped, Kept, ScreenSurvivesReload, QuietFileIsExact,
      FileHasKept, LastPatchHasAll
<1>4. ASSUME NEW s \in NoteSections, ScrollTo(s) PROVE NotesParts'
  <2>1. DialogTyped' /\ DrawerTyped'
    BY <1>4 DEF ScrollTo, DialogTyped, DrawerTyped, noteStore
  <2> QED
    BY <1>3, <1>4, <2>1 DEF ScrollTo
<1>5. CASE OpenSectionNotes
  <2>1. notes[<<"section", section>>] \in Texts
    BY DEF NotesTyped, DialogTyped, NoteRecord, NoteKeys
  <2>2. DialogTyped' /\ DrawerTyped'
    BY <1>5, <2>1 DEF OpenSectionNotes, DialogTyped, DrawerTyped, noteStore
  <2> QED
    BY <1>3, <1>5, <2>2 DEF OpenSectionNotes
<1>6. ASSUME NEW words \in Texts, TypeSectionNote(words) PROVE NotesParts'
  <2>1. DialogTyped' /\ DrawerTyped'
    BY <1>6 DEF TypeSectionNote, DialogTyped, DrawerTyped, noteStore
  <2> QED
    BY <1>3, <1>6, <2>1 DEF TypeSectionNote
<1>7. CASE CloseSectionNotes
  <2>1. DialogTyped' /\ DrawerTyped'
    BY <1>7 DEF CloseSectionNotes, DialogTyped, DrawerTyped, noteStore
  <2> QED
    BY <1>3, <1>7, <2>1 DEF CloseSectionNotes
<1>8. CASE SaveSectionNotes
  <2>1. /\ <<"section", section>> \in NoteKeys /\ noteDialog.draft \in Texts
        /\ loaded /\ UNCHANGED loaded
    BY <1>8 DEF SaveSectionNotes, DialogTyped, NoteKeys
  <2>2. NotesTyped' /\ Kept'
    BY <1>8, <2>1, KeepKeeps DEF SaveSectionNotes
  <2>3. DialogTyped'
    <3>1. /\ noteDialog' \in [open : BOOLEAN, draft : Texts,
                              for : NoteSections, moved : BOOLEAN]
          /\ ~noteDialog'.open
      BY <1>8, <2>1 DEF SaveSectionNotes, DialogTyped
    <3>2. UNCHANGED <<loaded, section, disordered>>
      BY <1>8 DEF SaveSectionNotes, Keep
    <3> QED
      BY <2>1, <3>1, <3>2 DEF DialogTyped
  <2>4. DrawerTyped'
    BY <1>8, <2>1 DEF SaveSectionNotes, DrawerTyped
  <2> QED
    BY <2>2, <2>3, <2>4
<1>9. CASE DeleteSectionNotes
  <2>1. /\ <<"section", section>> \in NoteKeys /\ NoText \in Texts
        /\ loaded /\ UNCHANGED loaded
    BY <1>9 DEF DeleteSectionNotes, DialogTyped, NoteKeys, Texts, NoText
  <2>2. NotesTyped' /\ Kept'
    BY <1>9, <2>1, KeepKeeps DEF DeleteSectionNotes
  <2>3. DialogTyped'
    <3>1. /\ noteDialog' \in [open : BOOLEAN, draft : Texts,
                              for : NoteSections, moved : BOOLEAN]
          /\ ~noteDialog'.open
      BY <1>9, <2>1 DEF DeleteSectionNotes, DialogTyped
    <3>2. UNCHANGED <<loaded, section, disordered>>
      BY <1>9 DEF DeleteSectionNotes, Keep
    <3> QED
      BY <2>1, <3>1, <3>2 DEF DialogTyped
  <2>4. DrawerTyped'
    BY <1>9, <2>1 DEF DeleteSectionNotes, DrawerTyped
  <2> QED
    BY <2>2, <2>3, <2>4
<1>10. ASSUME NEW e \in Entities, SelectEntity(e) PROVE NotesParts'
  <2>1. DrawerTyped'
    BY <1>10, RenderKeeps DEF SelectEntity, NotesTyped
  <2>2. DialogTyped' /\ UNCHANGED <<noteStore, loaded>>
    BY <1>10 DEF SelectEntity, DialogTyped, noteStore
  <2> QED
    BY <1>3, <2>1, <2>2
<1>11. CASE RenderApp
  <2>1. loaded /\ drawer.entity \in Entities
    BY <1>11 DEF RenderApp, DrawerTyped, DialogTyped, ClosedDrawer
  <2>2. DrawerTyped'
    BY <1>11, <2>1, RenderKeeps DEF RenderApp, NotesTyped
  <2>3. DialogTyped' /\ UNCHANGED <<noteStore, loaded>>
    BY <1>11 DEF RenderApp, DialogTyped, noteStore
  <2> QED
    BY <1>3, <2>2, <2>3
<1>12. ASSUME NEW kind \in {"note", "review"}, OpenDrawerEditor(kind)
       PROVE  NotesParts'
  <2>1. loaded /\ NoteOf(drawer.entity, kind) \in Texts
    BY <1>12, NoteIsText
    DEF OpenDrawerEditor, DrawerTyped, DialogTyped, ClosedDrawer, NotesTyped
  <2>2. DrawerTyped'
    BY <1>12, <2>1 DEF OpenDrawerEditor, DrawerTyped, DrawerEditor
  <2>3. DialogTyped' /\ UNCHANGED <<noteStore, loaded>>
    BY <1>12 DEF OpenDrawerEditor, DialogTyped, noteStore
  <2> QED
    BY <1>3, <2>2, <2>3
<1>13. ASSUME NEW kind \in {"note", "review"}, CancelDrawerEditor(kind)
       PROVE  NotesParts'
  <2>1. /\ NoDraft(NoteOf(drawer.entity, kind)) \in DrawerEditor
        /\ ~NoDraft(NoteOf(drawer.entity, kind)).open
    BY NoteIsText, NoDraftIsTyped DEF DrawerTyped, NotesTyped
  <2>2. loaded
    BY <1>13
    DEF CancelDrawerEditor, DrawerTyped, DialogTyped, ClosedDrawer, NoDraft
  <2>3. DrawerTyped'
    <3> DEFINE n == NoDraft(NoteOf(drawer.entity, kind))
    <3>1. drawer' = [drawer EXCEPT ![kind] = n] /\ UNCHANGED loaded
      BY <1>13 DEF CancelDrawerEditor
    <3>2. drawer.entity \in Entities
      BY <1>13 DEF CancelDrawerEditor, DrawerTyped, ClosedDrawer, NoDraft
    <3>3. n \in DrawerEditor /\ ~n.open
      BY <2>1
    <3> HIDE DEF n
    <3>4. CASE kind = "note"
      BY <2>2, <3>1, <3>2, <3>3, <3>4 DEF DrawerTyped
    <3>5. CASE kind = "review"
      BY <2>2, <3>1, <3>2, <3>3, <3>5 DEF DrawerTyped
    <3> QED
      BY <3>4, <3>5
  <2>4. DialogTyped' /\ UNCHANGED <<noteStore, loaded>>
    BY <1>13 DEF CancelDrawerEditor, DialogTyped, noteStore
  <2> QED
    BY <1>3, <2>3, <2>4
<1>14. ASSUME NEW kind \in {"note", "review"}, NEW words \in Texts,
              TypeInDrawer(kind, words)
       PROVE  NotesParts'
  <2>1. loaded
    BY <1>14 DEF TypeInDrawer, DrawerTyped, DialogTyped, ClosedDrawer, NoDraft
  <2>2. DrawerTyped'
    <3>1. drawer.entity \in Entities
      BY <1>14 DEF TypeInDrawer, DrawerTyped, ClosedDrawer, NoDraft
    <3>2. CASE kind = "note"
      BY <1>14, <2>1, <3>1, <3>2 DEF TypeInDrawer, DrawerTyped, DrawerEditor
    <3>3. CASE kind = "review"
      BY <1>14, <2>1, <3>1, <3>3 DEF TypeInDrawer, DrawerTyped, DrawerEditor
    <3> QED
      BY <3>2, <3>3
  <2>3. DialogTyped' /\ UNCHANGED <<noteStore, loaded>>
    BY <1>14 DEF TypeInDrawer, DialogTyped, noteStore
  <2> QED
    BY <1>3, <2>2, <2>3
<1>15. ASSUME NEW kind \in {"note", "review"}, SaveFromDrawer(kind)
       PROVE  NotesParts'
  <2>1. /\ loaded /\ UNCHANGED loaded /\ drawer.entity \in Entities
        /\ drawer[kind].draft \in Texts
    BY <1>15
    DEF SaveFromDrawer, DrawerTyped, DialogTyped, ClosedDrawer, NoDraft,
        DrawerEditor
  <2>2. <<kind, drawer.entity>> \in NoteKeys
    BY <2>1 DEF NoteKeys
  <2>3. NotesTyped' /\ Kept'
    BY <1>15, <2>1, <2>2, KeepKeeps DEF SaveFromDrawer
  <2>4. DialogTyped'
    BY <1>15, <2>1 DEF SaveFromDrawer, Keep, DialogTyped
  <2>5. DrawerTyped'
    <3> DEFINE n == NoteOfNext(drawer.entity, kind)
    <3>1. /\ NoDraft(n) \in DrawerEditor /\ ~NoDraft(n).open
          /\ NoDraft(NoText) \in DrawerEditor /\ ~NoDraft(NoText).open
      BY <2>1, <2>3, NextNoteIsText, NoDraftIsTyped
      DEF NotesTyped, Texts, NoText
    <3>2. \/ kind = "note" /\ drawer' = [drawer EXCEPT !.note = NoDraft(n)]
          \/ kind = "note" /\ drawer' = [drawer EXCEPT !.note = NoDraft(n),
                                                       !.review = NoDraft(NoText)]
          \/ kind = "review" /\ drawer' = [drawer EXCEPT !.review = NoDraft(n)]
      BY <1>15 DEF SaveFromDrawer, DrawerTyped
    <3> HIDE DEF n
    <3> QED
      BY <2>1, <3>1, <3>2 DEF DrawerTyped
  <2> QED
    BY <2>3, <2>4, <2>5
<1>16. ASSUME NEW kind \in {"note", "review"}, DeleteFromDrawer(kind)
       PROVE  NotesParts'
  <2>1. /\ loaded /\ UNCHANGED loaded /\ drawer.entity \in Entities
        /\ NoText \in Texts
    BY <1>16
    DEF DeleteFromDrawer, DrawerTyped, DialogTyped, ClosedDrawer, Texts, NoText
  <2>2. <<kind, drawer.entity>> \in NoteKeys
    BY <2>1 DEF NoteKeys
  <2>3. NotesTyped' /\ Kept'
    BY <1>16, <2>1, <2>2, KeepKeeps DEF DeleteFromDrawer
  <2>4. DialogTyped'
    BY <1>16, <2>1 DEF DeleteFromDrawer, Keep, DialogTyped
  <2>5. DrawerTyped'
    BY <1>16, <2>1, <2>3, RenderKeeps
    DEF DeleteFromDrawer, NotesTyped, DialogTyped
  <2> QED
    BY <2>3, <2>4, <2>5
<1>17. CASE CloseDrawer
  <2>1. DrawerTyped'
    BY <1>17, NoDraftIsTyped
    DEF CloseDrawer, DrawerTyped, ClosedDrawer, Texts, NoText
  <2>2. DialogTyped' /\ UNCHANGED <<noteStore, loaded>>
    BY <1>17 DEF CloseDrawer, DialogTyped, noteStore
  <2> QED
    BY <1>3, <2>1, <2>2
<1>18. ASSUME NEW p \in patches, PatchArrives(p) \/ PatchFails(p)
       PROVE  NotesParts'
  <2>1. NotesTyped' /\ Kept'
    BY <1>18, PatchKeeps DEF PatchArrives, PatchFails
  <2>2. DialogTyped' /\ DrawerTyped'
    BY <1>18 DEF PatchArrives, PatchFails, DialogTyped, DrawerTyped
  <2> QED
    BY <2>1, <2>2
<1>19. CASE UNCHANGED notesVars
  <2>1. DialogTyped' /\ DrawerTyped'
    BY <1>19 DEF notesVars, DialogTyped, DrawerTyped, noteStore
  <2> QED
    BY <1>3, <1>19, <2>1 DEF notesVars
<1> HIDE DEF NotesParts
<1> QED
  BY <1>1, <1>2, <1>4, <1>5, <1>6, <1>7, <1>8, <1>9, <1>10, <1>11, <1>12,
     <1>13, <1>14, <1>15, <1>16, <1>17, <1>18, <1>19
  DEF NotesNext

LEMMA NotesInitially == NotesInit => NotesParts
<1> SUFFICES ASSUME NotesInit PROVE NotesParts
  OBVIOUS
<1>1. EmptyRecord \in NoteRecord /\ NoText \in Texts
  BY NoteSavesAssumption DEF EmptyRecord, NoteRecord, Texts, NoText
<1>2. NotesTyped
  BY <1>1, NoteSavesAssumption DEF NotesInit, NotesTyped
<1>3. (CHOOSE s \in NoteSections : TRUE) \in NoteSections
  BY DEF NotesInit
<1>4. DialogTyped
  BY <1>1, <1>3 DEF NotesInit, DialogTyped, ClosedDialog
<1>5. DrawerTyped
  BY <1>1, NoDraftIsTyped DEF NotesInit, DrawerTyped, ClosedDrawer
<1>6. Kept
  BY DEF NotesInit, Kept, ScreenSurvivesReload, QuietFileIsExact, FileHasKept,
         LastPatchHasAll
<1> QED
  BY <1>2, <1>4, <1>5, <1>6 DEF NotesParts

(* A reload of the page shows the notes and reviewed values that were on   *)
(* screen, the server's file is exact once quiet, and a draft is saved for *)
(* what its editor was opened for, for any sections, entities and texts    *)
(* (saveSectionNotes, saveEntityNote, the effects on the report).          *)
THEOREM NotesInvariant == NotesSpec => []NotesInv
<1>1. NotesInit => NotesInv
  BY NotesInitially, PartsOfNotesInv
<1>2. NotesInv /\ [NotesNext]_notesVars => NotesInv'
  <2>1. ASSUME NotesInv, [NotesNext]_notesVars PROVE NotesParts'
    BY <2>1, NotesStep, PartsOfNotesInv
  <2> QED
    BY <2>1
    DEF NotesInv, NotesTypeOK, NotesParts, NotesTyped, DialogTyped,
        DrawerTyped, Kept, DraftStaysWithItsOwner
<1> QED
  BY <1>1, <1>2, PTL DEF NotesSpec

-----------------------------------------------------------------------------
(* Profiles in the account. That the account ends with the profile saved   *)
(* last follows from the order of the copies and from one browser writing  *)
(* at a time; none of the parts is inductive without the others.           *)

(* What the invariant is made of besides the property itself, which the    *)
(* last two parts entail.                                                  *)
SyncParts ==
    /\ SyncTypeOK
    /\ EditsAreMade /\ CleanMeansStored
    /\ CopiesAreOrdered
    /\ OneWrites /\ AccountFollows

LEMMA NewestFollows ==
    ASSUME SyncParts
    PROVE  AccountIsNewest
  BY WritesAssumption
  DEF SyncParts, SyncTypeOK, Copy, CopiesAreOrdered, OneWrites, AccountFollows,
      AccountIsNewest, Writing

(* What a step shows in an editor, field by field.                         *)
EditorState == [open : BOOLEAN, shown : 0..MaxEdits, clean : 0..MaxEdits,
                asked : BOOLEAN]

LEMMA EditorChanges ==
    ASSUME SyncTypeOK, NEW b \in Browsers, NEW s \in 0..MaxEdits
    PROVE  /\ ShowProfile(b, s) => \E e \in EditorState :
                 /\ syncEditor' = [syncEditor EXCEPT ![b] = e]
                 /\ e.shown = s /\ e.clean = s
           /\ AnswerClose(b) => \E e \in EditorState :
                 /\ syncEditor' = [syncEditor EXCEPT ![b] = e]
                 /\ e.shown = syncEditor[b].shown /\ e.clean = syncEditor[b].clean
                 /\ e.open => syncEditor[b].open
<1> DEFINE x == syncEditor[b]
<1>1. syncEditor \in [Browsers -> EditorState] /\ x \in EditorState
  BY DEF SyncTypeOK, EditorState
<1>2. ASSUME ShowProfile(b, s)
      PROVE  \E e \in EditorState : /\ syncEditor' = [syncEditor EXCEPT ![b] = e]
                                    /\ e.shown = s /\ e.clean = s
  <2> DEFINE e == [x EXCEPT !.shown = s, !.clean = s]
  <2>1. e \in EditorState /\ e.shown = s /\ e.clean = s
    BY <1>1 DEF EditorState
  <2>2. syncEditor' = [syncEditor EXCEPT ![b] = e]
    BY <1>1, <1>2 DEF ShowProfile, EditorState
  <2> QED
    BY <2>1, <2>2
<1>3. ASSUME AnswerClose(b)
      PROVE  \E e \in EditorState :
                 /\ syncEditor' = [syncEditor EXCEPT ![b] = e]
                 /\ e.shown = x.shown /\ e.clean = x.clean
                 /\ e.open => x.open
  <2> DEFINE e1 == [x EXCEPT !.asked = FALSE]
             e2 == [x EXCEPT !.asked = FALSE, !.open = FALSE]
  <2>1. /\ e1 \in EditorState /\ e1.shown = x.shown /\ e1.clean = x.clean
        /\ e1.open = x.open
    BY <1>1 DEF EditorState
  <2>2. /\ e2 \in EditorState /\ e2.shown = x.shown /\ e2.clean = x.clean
        /\ ~e2.open
    BY <1>1 DEF EditorState
  <2>3. \/ syncEditor' = [syncEditor EXCEPT ![b] = e1]
        \/ syncEditor' = [syncEditor EXCEPT ![b] = e2]
    BY <1>1, <1>3 DEF AnswerClose, EditorState
  <2> QED
    BY <2>1, <2>2, <2>3
<1> QED
  BY <1>2, <1>3

LEMMA SyncStep ==
    ASSUME SyncParts, [SyncNext]_syncVars
    PROVE  SyncParts'
<1> USE WritesAssumption, BrowsersAssumption
    DEF SyncParts, Copy, NoEdit, NoSync, Unsaved, Writing, Tick, Store,
        EditorState
<1>1. /\ edits \in Nat /\ clock \in Nat /\ account \in Copy /\ account.at \in Nat
      /\ \A b \in Browsers : /\ local[b].at \in Nat /\ local[b].at <= clock
                             /\ sync[b].copy.at \in Nat
  BY DEF SyncTypeOK
<1>2. ASSUME NEW b \in Browsers, OpenEditor(b) PROVE SyncParts'
  <2>1. SyncTypeOK'
    BY <1>2 DEF OpenEditor, SyncTypeOK
  <2>2. (EditsAreMade /\ CleanMeansStored)'
    BY <1>2 DEF OpenEditor, SyncTypeOK, EditsAreMade, CleanMeansStored
  <2>3. CopiesAreOrdered'
    BY <1>2 DEF OpenEditor, SyncTypeOK, CopiesAreOrdered
  <2>4. OneWrites'
    BY <1>2 DEF OpenEditor, SyncTypeOK, OneWrites, CopiesAreOrdered
  <2>5. AccountFollows'
    BY <1>2
    DEF OpenEditor, SyncTypeOK, OneWrites, AccountFollows, CopiesAreOrdered
  <2> QED
    BY <2>1, <2>2, <2>3, <2>4, <2>5
<1>3. ASSUME NEW b \in Browsers, SyncListed(b) PROVE SyncParts'
  <2>1. SyncTypeOK'
    BY <1>3 DEF SyncListed, SyncTypeOK
  <2>2. (EditsAreMade /\ CleanMeansStored)'
    BY <1>3 DEF SyncListed, SyncTypeOK, EditsAreMade, CleanMeansStored
  <2>3. CopiesAreOrdered'
    BY <1>3 DEF SyncListed, SyncTypeOK, CopiesAreOrdered
  <2>4. OneWrites'
    <3> SUFFICES ASSUME ~syncRaced' PROVE OneWrites'
      BY DEF OneWrites
    <3>1. ~syncRaced /\ \A c \in Browsers \ {b} : ~Writing(c)
      BY <1>3 DEF SyncListed
    <3>2. /\ save' = save /\ account' = account /\ latest' = latest /\ local' = local
          /\ \A c \in Browsers \ {b} : sync'[c] = sync[c]
          /\ sync'[b].copy = sync[b].copy
          /\ sync'[b].stage = "push" => sync[b].copy.at > account.at
      BY <1>3 DEF SyncListed, SyncTypeOK
    <3> QED
      BY <1>1, <3>1, <3>2 DEF OneWrites
  <2>5. AccountFollows'
    BY <1>3
    DEF SyncListed, SyncTypeOK, OneWrites, AccountFollows, CopiesAreOrdered
  <2> QED
    BY <2>1, <2>2, <2>3, <2>4, <2>5
<1>4. ASSUME NEW b \in Browsers, SyncPushed(b) PROVE SyncParts'
  <2>1. SyncTypeOK'
    <3>1. syncRaced' \in BOOLEAN
      BY <1>4 DEF SyncPushed, SyncTypeOK
    <3>2. account' \in Copy /\ account'.at = clock' /\ clock' \in 0..MaxWrites
      BY <1>4, <1>1 DEF SyncPushed, SyncTypeOK
    <3>3. sync' \in [Browsers -> [stage : {"none", "list", "push", "relist"},
                                 copy : Copy]]
      BY <1>4 DEF SyncPushed, SyncTypeOK
    <3> QED
      BY <1>4, <1>1, <3>1, <3>2, <3>3 DEF SyncPushed, SyncTypeOK
  <2>2. (EditsAreMade /\ CleanMeansStored)'
    BY <1>4 DEF SyncPushed, SyncTypeOK, EditsAreMade, CleanMeansStored
  <2>3. CopiesAreOrdered'
    BY <1>4 DEF SyncPushed, SyncTypeOK, CopiesAreOrdered
  <2>4. OneWrites'
    BY <1>4 DEF SyncPushed, SyncTypeOK, OneWrites, CopiesAreOrdered
  <2>5. AccountFollows'
    <3> SUFFICES ASSUME ~syncRaced' PROVE AccountFollows'
      BY DEF AccountFollows
    <3> DEFINE l == latest.by
    <3>1. /\ ~syncRaced /\ \A c \in Browsers : save[c] = NoEdit
          /\ \A c \in behind \cup {b} : ~(local[c].at > sync[b].copy.at)
      <4>1. syncRaced' = (syncRaced \/ \E c \in Browsers :
                \/ save[c] # NoEdit
                \/ c \in behind \cup {b} /\ local[c].at > sync[b].copy.at)
        BY <1>4 DEF SyncPushed
      <4>2. behind \cup {b} \subseteq Browsers
        BY DEF SyncTypeOK
      <4> HIDE DEF NoEdit
      <4> QED
        BY <4>1, <4>2
    <3>2. /\ account'.edit = sync[b].copy.edit /\ account'.at = clock + 1
          /\ UNCHANGED <<local, latest, behind, save>> /\ sync[b].stage = "push"
      BY <1>4 DEF SyncPushed
    <3>3. l \in Browsers /\ b \in Browsers /\ behind \subseteq Browsers
      BY DEF SyncTypeOK
    <3>4. sync[b].copy = local[b]
      BY <1>1, <3>1, <3>2, <3>3 DEF CopiesAreOrdered
    <3>5. local[b].at > account.at /\ local[b].at <= local[l].at
      BY <3>1, <3>2, <3>3, <3>4 DEF OneWrites, CopiesAreOrdered
    <3>6. l \in behind
      BY <1>1, <3>1, <3>3, <3>5 DEF AccountFollows
    <3>7. local[l].at = local[b].at
      BY <1>1, <3>1, <3>3, <3>4, <3>5, <3>6
    <3>8. l = b
      BY <1>1, <3>3, <3>5, <3>7 DEF CopiesAreOrdered
    <3>9. account'.edit = latest.edit
      BY <3>2, <3>4, <3>8 DEF CopiesAreOrdered
    <3>10. account'.at >= local[l].at
      BY <1>1, <3>2, <3>3
    <3> QED
      BY <3>2, <3>9, <3>10 DEF AccountFollows
  <2> QED
    BY <2>1, <2>2, <2>3, <2>4, <2>5
<1>5. ASSUME NEW b \in Browsers, SyncShown(b) PROVE SyncParts'
  <2>1. SyncTypeOK'
    <3>1. syncEditor' \in [Browsers -> EditorState]
      <4>1. account.edit \in 0..MaxEdits
        BY DEF SyncTypeOK
      <4>2. CASE syncEditor[b].open
        <5>1. PICK e \in EditorState : syncEditor' = [syncEditor EXCEPT ![b] = e]
          BY <1>5, <4>1, <4>2, EditorChanges DEF SyncShown
        <5> QED
          BY <5>1 DEF SyncTypeOK
      <4>3. CASE ~syncEditor[b].open
        BY <1>5, <4>3 DEF SyncShown, SyncTypeOK
      <4> QED
        BY <4>2, <4>3
    <3>2. sync' \in [Browsers -> [stage : {"none", "list", "push", "relist"},
                                 copy : Copy]]
      BY <1>5 DEF SyncShown, SyncTypeOK
    <3>3. behind' \subseteq Browsers
      BY <1>5 DEF SyncShown, SyncTypeOK
    <3> QED
      BY <1>5, <3>1, <3>2, <3>3 DEF SyncShown, SyncTypeOK
  <2>2. (EditsAreMade /\ CleanMeansStored)'
    <3>1. account.edit \in 0..MaxEdits
      BY DEF SyncTypeOK
    <3>2. CASE syncEditor[b].open
      <4>1. PICK e \in EditorState :
              /\ syncEditor' = [syncEditor EXCEPT ![b] = e]
              /\ e.shown = account.edit /\ e.clean = account.edit
        BY <1>5, <3>1, <3>2, EditorChanges DEF SyncShown
      <4> QED
        BY <1>5, <4>1 DEF SyncShown, SyncTypeOK, EditsAreMade, CleanMeansStored
    <3>3. CASE ~syncEditor[b].open
      BY <1>5, <3>3 DEF SyncShown, SyncTypeOK, EditsAreMade, CleanMeansStored
    <3> QED
      BY <3>2, <3>3
  <2>3. CopiesAreOrdered'
    BY <1>5 DEF SyncShown, ShowProfile, SyncTypeOK, CopiesAreOrdered
  <2>4. OneWrites'
    BY <1>5 DEF SyncShown, ShowProfile, SyncTypeOK, OneWrites, CopiesAreOrdered
  <2>5. AccountFollows'
    BY <1>5
    DEF SyncShown, ShowProfile, SyncTypeOK, OneWrites, AccountFollows,
        CopiesAreOrdered
  <2> QED
    BY <2>1, <2>2, <2>3, <2>4, <2>5
<1>6. ASSUME NEW b \in Browsers, SyncFails(b) PROVE SyncParts'
  <2>1. SyncTypeOK'
    BY <1>6 DEF SyncFails, SyncTypeOK
  <2>2. (EditsAreMade /\ CleanMeansStored)'
    BY <1>6 DEF SyncFails, SyncTypeOK, EditsAreMade, CleanMeansStored
  <2>3. CopiesAreOrdered'
    BY <1>6 DEF SyncFails, SyncTypeOK, CopiesAreOrdered
  <2>4. OneWrites'
    BY <1>6 DEF SyncFails, SyncTypeOK, OneWrites, CopiesAreOrdered
  <2>5. AccountFollows'
    BY <1>6
    DEF SyncFails, SyncTypeOK, OneWrites, AccountFollows, CopiesAreOrdered
  <2> QED
    BY <2>1, <2>2, <2>3, <2>4, <2>5
<1>7. ASSUME NEW b \in Browsers, EditProfile(b) PROVE SyncParts'
  <2>1. SyncTypeOK'
    <3>1. syncEditor' \in [Browsers -> EditorState]
      <4> DEFINE e == [syncEditor[b] EXCEPT !.shown = edits + 1]
      <4>1. edits + 1 \in 0..MaxEdits
        BY <1>1, <1>7 DEF EditProfile
      <4>2. e \in EditorState
        <5>1. syncEditor[b] \in EditorState
          BY DEF SyncTypeOK
        <5> HIDE DEF SyncParts
        <5> QED
          BY <4>1, <5>1
      <4>3. syncEditor' = [syncEditor EXCEPT ![b] = e]
        BY <1>7 DEF EditProfile
      <4> HIDE DEF e
      <4> QED
        BY <4>2, <4>3 DEF SyncTypeOK
    <3>2. edits' \in 0..MaxEdits
      BY <1>1, <1>7 DEF EditProfile
    <3>3. UNCHANGED <<clock, account, local, sync, save, storedProfile, latest,
                      behind, syncRaced>>
      BY <1>7 DEF EditProfile
    <3> QED
      BY <3>1, <3>2, <3>3 DEF SyncTypeOK
  <2>2. (EditsAreMade /\ CleanMeansStored)'
    <3>1. EditsAreMade'
      BY <1>1, <1>7 DEF EditProfile, SyncTypeOK, EditsAreMade
    <3>2. CleanMeansStored'
      BY <1>1, <1>7 DEF EditProfile, SyncTypeOK, EditsAreMade, CleanMeansStored
    <3> QED
      BY <3>1, <3>2
  <2>3. CopiesAreOrdered'
    BY <1>7 DEF EditProfile, SyncTypeOK, CopiesAreOrdered
  <2>4. OneWrites'
    BY <1>7 DEF EditProfile, SyncTypeOK, OneWrites, CopiesAreOrdered
  <2>5. AccountFollows'
    BY <1>7
    DEF EditProfile, SyncTypeOK, OneWrites, AccountFollows, CopiesAreOrdered
  <2> QED
    BY <2>1, <2>2, <2>3, <2>4, <2>5
<1>8. ASSUME NEW b \in Browsers, SaveInEditor(b) PROVE SyncParts'
  <2>1. SyncTypeOK'
    BY <1>8 DEF SaveInEditor, SyncTypeOK
  <2>2. (EditsAreMade /\ CleanMeansStored)'
    <3>1. EditsAreMade'
      BY <1>8 DEF SaveInEditor, SyncTypeOK, EditsAreMade
    <3>2. CleanMeansStored'
      BY <1>8 DEF SaveInEditor, SyncTypeOK, CleanMeansStored
    <3> QED
      BY <3>1, <3>2
  <2>3. CopiesAreOrdered'
    BY <1>8 DEF SaveInEditor, SyncTypeOK, CopiesAreOrdered
  <2>4. OneWrites'
    BY <1>8 DEF SaveInEditor, SyncTypeOK, OneWrites, CopiesAreOrdered
  <2>5. AccountFollows'
    BY <1>8
    DEF SaveInEditor, SyncTypeOK, OneWrites, AccountFollows, CopiesAreOrdered
  <2> QED
    BY <2>1, <2>2, <2>3, <2>4, <2>5
<1>9. ASSUME NEW b \in Browsers, SaveStored(b) PROVE SyncParts'
  <2>6. save[b] \in 0..MaxEdits /\ ShowProfile(b, save[b])
    BY <1>9 DEF SaveStored, SyncTypeOK
  <2>7. PICK e \in EditorState : /\ syncEditor' = [syncEditor EXCEPT ![b] = e]
                                /\ e.shown = save[b] /\ e.clean = save[b]
    BY <2>6, EditorChanges
  <2>1. SyncTypeOK'
    <3>1. syncEditor' \in [Browsers -> EditorState]
      BY <2>7 DEF SyncTypeOK
    <3>2. /\ account' \in Copy /\ account'.at = clock'
          /\ clock' \in 0..MaxWrites /\ clock <= clock'
      BY <1>1, <1>9, <2>6 DEF SaveStored, SyncTypeOK
    <3>3. /\ save' \in [Browsers -> NoEdit..MaxEdits]
          /\ storedProfile' \subseteq 0..MaxEdits /\ behind' \subseteq Browsers
      <4>1. /\ save' = [save EXCEPT ![b] = NoEdit]
            /\ storedProfile' = storedProfile \cup {save[b]}
            /\ behind' = behind \ {b}
        BY <1>9 DEF SaveStored
      <4>2. NoEdit \in NoEdit..MaxEdits
        OBVIOUS
      <4> HIDE DEF NoEdit
      <4> QED
        BY <2>6, <4>1, <4>2 DEF SyncTypeOK
    <3>4. syncRaced' \in BOOLEAN /\ UNCHANGED <<edits, local, sync, latest>>
      BY <1>9 DEF SaveStored, SyncTypeOK
    <3> QED
      BY <1>1, <3>1, <3>2, <3>3, <3>4 DEF SyncTypeOK
  <2>2. (EditsAreMade /\ CleanMeansStored)'
    BY <1>9, <2>7 DEF SaveStored, SyncTypeOK, EditsAreMade, CleanMeansStored
  <2>3. CopiesAreOrdered'
    BY <1>9 DEF SaveStored, ShowProfile, SyncTypeOK, CopiesAreOrdered
  <2>4. OneWrites'
    BY <1>9 DEF SaveStored, ShowProfile, SyncTypeOK, OneWrites, CopiesAreOrdered
  <2>5. AccountFollows'
    <3> SUFFICES ASSUME ~syncRaced' PROVE AccountFollows'
      BY DEF AccountFollows
    <3>1. ~syncRaced /\ b = latest.by /\ save[b] = local[b].edit
      BY <1>9 DEF SaveStored, OneWrites, EditsAreMade
    <3>2. /\ account'.edit = save[b] /\ account'.at = clock + 1
          /\ UNCHANGED <<local, latest>>
      BY <1>9 DEF SaveStored
    <3> QED
      BY <1>1, <3>1, <3>2 DEF AccountFollows, CopiesAreOrdered
  <2> QED
    BY <2>1, <2>2, <2>3, <2>4, <2>5
<1>10. ASSUME NEW b \in Browsers, SaveUnsynced(b) PROVE SyncParts'
  <2>6. save[b] \in 0..MaxEdits /\ ShowProfile(b, save[b])
    BY <1>10 DEF SaveUnsynced, SyncTypeOK
  <2>7. PICK e \in EditorState : /\ syncEditor' = [syncEditor EXCEPT ![b] = e]
                                /\ e.shown = save[b] /\ e.clean = save[b]
    BY <2>6, EditorChanges
  <2>1. SyncTypeOK'
    BY <1>10, <2>7 DEF SaveUnsynced, SyncTypeOK
  <2>2. (EditsAreMade /\ CleanMeansStored)'
    BY <1>10, <2>7 DEF SaveUnsynced, SyncTypeOK, EditsAreMade, CleanMeansStored
  <2>3. CopiesAreOrdered'
    BY <1>10 DEF SaveUnsynced, ShowProfile, SyncTypeOK, CopiesAreOrdered
  <2>4. OneWrites'
    BY <1>10
    DEF SaveUnsynced, ShowProfile, SyncTypeOK, OneWrites, CopiesAreOrdered
  <2>5. AccountFollows'
    BY <1>10
    DEF SaveUnsynced, ShowProfile, SyncTypeOK, OneWrites, AccountFollows,
        CopiesAreOrdered
  <2> QED
    BY <2>1, <2>2, <2>3, <2>4, <2>5
<1>11. ASSUME NEW b \in Browsers, RequestCloseEditor(b) PROVE SyncParts'
  <2>1. SyncTypeOK'
    BY <1>11 DEF RequestCloseEditor, SyncTypeOK
  <2>2. (EditsAreMade /\ CleanMeansStored)'
    BY <1>11 DEF RequestCloseEditor, SyncTypeOK, EditsAreMade, CleanMeansStored
  <2>3. CopiesAreOrdered'
    BY <1>11 DEF RequestCloseEditor, SyncTypeOK, CopiesAreOrdered
  <2>4. OneWrites'
    BY <1>11 DEF RequestCloseEditor, SyncTypeOK, OneWrites, CopiesAreOrdered
  <2>5. AccountFollows'
    BY <1>11
    DEF RequestCloseEditor, SyncTypeOK, OneWrites, AccountFollows,
        CopiesAreOrdered
  <2> QED
    BY <2>1, <2>2, <2>3, <2>4, <2>5
<1>12. ASSUME NEW b \in Browsers, AnswerClose(b) PROVE SyncParts'
  <2>6. PICK e \in EditorState :
            /\ syncEditor' = [syncEditor EXCEPT ![b] = e]
            /\ e.shown = syncEditor[b].shown /\ e.clean = syncEditor[b].clean
            /\ e.open => syncEditor[b].open
    <3>1. 0 \in 0..MaxEdits
      OBVIOUS
    <3> QED
      BY <1>12, <3>1, EditorChanges
  <2>7. UNCHANGED <<edits, clock, account, local, sync, save, storedProfile,
                    latest, behind, syncRaced>>
    BY <1>12 DEF AnswerClose
  <2>1. SyncTypeOK'
    BY <2>6, <2>7 DEF SyncTypeOK
  <2>2. (EditsAreMade /\ CleanMeansStored)'
    BY <2>6, <2>7 DEF SyncTypeOK, EditsAreMade, CleanMeansStored
  <2>3. CopiesAreOrdered'
    BY <2>6, <2>7 DEF SyncTypeOK, CopiesAreOrdered
  <2>4. OneWrites'
    BY <2>6, <2>7 DEF SyncTypeOK, OneWrites, CopiesAreOrdered
  <2>5. AccountFollows'
    BY <2>6, <2>7 DEF SyncTypeOK, OneWrites, AccountFollows, CopiesAreOrdered
  <2> QED
    BY <2>1, <2>2, <2>3, <2>4, <2>5
<1>13. CASE UNCHANGED syncVars
  BY <1>13 DEF syncVars, SyncTypeOK, EditsAreMade, CleanMeansStored,
          CopiesAreOrdered, OneWrites, AccountFollows
<1> QED
  BY <1>2, <1>3, <1>4, <1>5, <1>6, <1>7, <1>8, <1>9, <1>10, <1>11, <1>12, <1>13
  DEF SyncNext

LEMMA SyncInitially == SyncInit => SyncParts
<1> SUFFICES ASSUME SyncInit PROVE SyncParts
  OBVIOUS
<1>1. latest.by \in Browsers /\ latest.edit = 0
  BY BrowsersAssumption DEF SyncInit
<1>2. \A b \in Browsers : /\ local[b] = [edit |-> 0, at |-> 0]
                          /\ sync[b] = NoSync /\ save[b] = NoEdit
                          /\ syncEditor[b] = Closed
  BY DEF SyncInit
<1>3. SyncTypeOK
  <2>1. 0 \in 0..MaxEdits /\ 0 \in 0..MaxWrites /\ NoEdit \in NoEdit..MaxEdits
    BY WritesAssumption DEF NoEdit
  <2>2. syncEditor \in [Browsers -> EditorState]
    BY <2>1 DEF SyncInit, EditorState, Closed
  <2>3. sync \in [Browsers -> [stage : {"none", "list", "push", "relist"},
                              copy : Copy]]
    BY <2>1 DEF SyncInit, NoSync, Copy
  <2>4. latest \in [by : Browsers, edit : 0..MaxEdits]
    BY <1>1, <2>1 DEF SyncInit
  <2>5. local \in [Browsers -> Copy] /\ account \in Copy
    BY <2>1 DEF SyncInit, Copy
  <2>6. save \in [Browsers -> NoEdit..MaxEdits]
    BY <2>1 DEF SyncInit
  <2>7. account.at <= clock /\ \A b \in Browsers : local[b].at <= clock
    BY <1>2 DEF SyncInit
  <2> QED
    BY <2>1, <2>2, <2>3, <2>4, <2>5, <2>6, <2>7
    DEF SyncInit, SyncTypeOK, EditorState
<1>4. CleanMeansStored /\ EditsAreMade
  BY <1>2 DEF SyncInit, CleanMeansStored, EditsAreMade, NoSync, Closed
<1>5. CopiesAreOrdered /\ OneWrites /\ AccountFollows
  BY <1>1, <1>2
  DEF SyncInit, CopiesAreOrdered, OneWrites, AccountFollows, NoSync, Writing
<1> QED
  BY <1>3, <1>4, <1>5 DEF SyncParts

(* Unless writes raced, the account ends with the profile saved last, and  *)
(* an editor without unsaved changes shows a content that was stored, for  *)
(* any number of browsers (handleSave, the effect on opening).             *)
THEOREM SyncInvariant == SyncSpec => []SyncInv
<1>1. SyncParts <=> SyncInv
  BY NewestFollows DEF SyncInv, SyncParts
<1>2. SyncParts /\ [SyncNext]_syncVars => SyncParts'
  BY SyncStep
<1> QED
  BY <1>1, <1>2, SyncInitially, PTL DEF SyncSpec

-----------------------------------------------------------------------------
(* The editor of a profile. CloseLosesNothing and SaveIsTold are about     *)
(* steps; what they need of the states is in EditorInv.                    *)

LEMMA ShortTables == \A file \in BoundedSeq(Row, 1) : file \in Tables
<1>1. 0..1 \subseteq 0..MaxRows
  BY RowsAssumption
<1> QED
  BY <1>1 DEF BoundedSeq, SeqOf, Tables

LEMMA EmptyTable == <<>> \in Tables
<1>1. <<>> \in [1..0 -> Row]
  OBVIOUS
<1>2. 0 \in 0..MaxRows
  BY RowsAssumption
<1> QED
  BY <1>1, <1>2 DEF BoundedSeq, SeqOf, Tables

LEMMA TableDomain ==
    ASSUME NEW t \in Tables
    PROVE  \E m \in Nat : DOMAIN t = 1..m
<1>1. PICK m \in 0..MaxRows : t \in [1..m -> Row]
  BY DEF BoundedSeq, SeqOf, Tables
<1> QED
  BY <1>1, RowsAssumption

(* Every edit of the rows is one by patch.                                 *)
Patched ==
    /\ rows' \in Tables
    /\ UNCHANGED <<tab, clean, store, open, told, modal, saveVars, copyVars>>
    /\ reading' \in {reading, NoRows}

LEMMA EditsPatch ==
    ASSUME \/ AddRow \/ ApplySuggestions
           \/ \E i \in DOMAIN rows : RemoveRow(i) \/ EditRow(i)
           \/ \E key \in Keys : SetField(key) \/ AddCandidate(key)
           \/ \E file \in BoundedSeq(Row, 1) : ReadCsv(file)
    PROVE  Patched
<1> USE DEF Patched, Patch
<1>1. AddRow \/ ApplySuggestions => Patched
  BY DEF AddRow, ApplySuggestions
<1>2. ASSUME NEW i, RemoveRow(i) \/ EditRow(i) PROVE Patched
  BY <1>2 DEF RemoveRow, EditRow
<1>3. ASSUME NEW key, SetField(key) \/ AddCandidate(key) PROVE Patched
  BY <1>3 DEF SetField, AddCandidate
<1>4. ASSUME NEW file, ReadCsv(file) PROVE Patched
  BY <1>4 DEF ReadCsv
<1> QED
  BY <1>1, <1>2, <1>3, <1>4

LEMMA CopyPatches ==
    ASSUME NEW file, CopyFrom(file)
    PROVE  Patched
  BY DEF Patched, Patch, CopyFrom

LEMMA EditorStep ==
    ASSUME EditorInv, [EditorNext]_editVars
    PROVE  EditorInv'
<1> USE NoRowsAssumption, EmptyTable
    DEF EditorInv, EditorTypeOK, SavedIsUnique, SavingIsStored, CleanIsStored,
        ChangeIsTold, Tab, RowKey, EditorClosed, Quiet, tableVars, told, saveVars,
        copyVars, Dirty
<1>1. CASE Patched
  BY <1>1 DEF Patched
<1>2. CASE OpenContext
  BY <1>2 DEF OpenContext
<1>3. CASE ChooseCsv \/ CsvFails
  BY <1>3 DEF ChooseCsv, CsvFails
<1>4. ASSUME NEW file \in BoundedSeq(Row, 1), LoadJson(file) PROVE EditorInv'
  BY <1>4, ShortTables DEF LoadJson
<1>5. CASE HandleSave
  <2>1. EditorTypeOK'
    BY <1>5 DEF HandleSave
  <2>2. SavedIsUnique'
    <3>1. CASE Valid(rows)
      <4>1. store' = rows /\ tab' = tab
        BY <1>5, <3>1 DEF HandleSave
      <4>2. PICK m \in Nat : DOMAIN rows = 1..m
        BY TableDomain
      <4>3. \A i \in 1..m : \A j \in 1..(i - 1) : j \in 1..m /\ i # j
        OBVIOUS
      <4> QED
        BY <3>1, <4>1, <4>2, <4>3 DEF Valid
    <3>2. CASE ~Valid(rows)
      BY <1>5, <3>2 DEF HandleSave
    <3> QED
      BY <3>1, <3>2
  <2>3. SavingIsStored' /\ CleanIsStored'
    BY <1>5 DEF HandleSave
  <2>4. ChangeIsTold'
    BY <1>5 DEF HandleSave
  <2> QED
    BY <2>1, <2>2, <2>3, <2>4
<1>6. CASE Saved
  BY <1>6 DEF Saved
<1>7. CASE RequestClose
  BY <1>7 DEF RequestClose
<1>8. CASE DiscardAndClose
  BY <1>8 DEF DiscardAndClose
<1>9. CASE CloseModal \/ CompleteContext
  BY <1>9 DEF CloseModal, CompleteContext
<1>10. ASSUME NEW copy \in AccountTables, CopyShown(copy) PROVE EditorInv'
  BY <1>10, AccountAssumption DEF CopyShown
<1>11. CASE UNCHANGED editVars
  BY <1>11 DEF editVars
<1> QED
  BY <1>1, <1>2, <1>3, <1>4, <1>5, <1>6, <1>7, <1>8, <1>9, <1>10, <1>11, EditsPatch,
     CopyPatches
  DEF EditorNext

LEMMA EditorInitially == EditorInit => EditorInv
<1> SUFFICES ASSUME EditorInit PROVE EditorInv
  OBVIOUS
<1>1. EditorTypeOK
  BY EmptyTable DEF EditorInit, EditorTypeOK
<1>2. SavedIsUnique
  BY DEF EditorInit, SavedIsUnique
<1>3. SavingIsStored /\ CleanIsStored /\ ChangeIsTold
  BY DEF EditorInit, SavingIsStored, CleanIsStored, ChangeIsTold
<1> QED
  BY <1>1, <1>2, <1>3 DEF EditorInv

(* No table in localStorage has a key twice or a blank one, whatever       *)
(* edits, imports, copies and answers of the account came before, nothing  *)
(* but it or the account's copy is taken for clean, and every other change *)
(* of it is told to App, for tables of any length (validateProfile,        *)
(* handleSave).                                                            *)
THEOREM EditorInvariant == EditorSpec => []EditorInv
<1> QED
  BY EditorInitially, EditorStep, PTL DEF EditorSpec

LEMMA ClosingStep ==
    ASSUME EditorInv, [EditorNext]_editVars, open, ~open'
    PROVE  /\ modal = "none" => rows \in {store, synced} \/ saving # NoRows
           /\ touched => editorChanged \/ saving # NoRows
<1>1. touched => editorChanged \/ saving # NoRows
  BY DEF EditorInv, ChangeIsTold
<1>2. RequestClose \/ DiscardAndClose
  <2>1. ~Patched
    BY DEF Patched
  <2> QED
    BY <2>1, EditsPatch, CopyPatches
    DEF EditorNext, editVars, OpenContext, ChooseCsv, CsvFails, LoadJson,
        HandleSave, Saved, CloseModal, CompleteContext, CopyShown
<1>3. modal = "none" => clean = rows
  <2>1. open = TRUE /\ open' = FALSE
    BY EditorStep DEF EditorInv, EditorTypeOK
  <2>2. ASSUME RequestClose, Dirty PROVE FALSE
    <3>1. open' = open
      BY <2>2 DEF RequestClose
    <3> QED
      BY <2>1, <3>1
  <2>3. DiscardAndClose => modal = "close"
    BY DEF DiscardAndClose
  <2> QED
    BY <1>2, <2>2, <2>3 DEF Dirty
<1>4. rows # NoRows
  BY NoRowsAssumption DEF EditorInv, EditorTypeOK
<1> QED
  BY <1>1, <1>3, <1>4 DEF EditorInv, CleanIsStored

(* Without the dialog over unsaved changes the editor closes only on what  *)
(* localStorage has or on the account's copy as it was shown, and App is   *)
(* told of every save that changed localStorage but that of this copy,     *)
(* unless a save is still under way (requestClose, savedDuringSession).    *)
THEOREM ClosingIsSafe == EditorSpec => CloseLosesNothing /\ SaveIsTold
<1>1. EditorInv /\ [EditorNext]_editVars
      => [open /\ ~open' /\ modal = "none"
            => rows \in {store, synced} \/ saving # NoRows]_editVars
  BY ClosingStep
<1>2. EditorInv /\ [EditorNext]_editVars
      => [open /\ ~open' /\ touched => editorChanged \/ saving # NoRows]_editVars
  BY ClosingStep
<1> QED
  BY <1>1, <1>2, EditorInvariant, PTL
  DEF EditorSpec, CloseLosesNothing, SaveIsTold

-----------------------------------------------------------------------------
(* The pivot filters of a report. PivotsInv is inductive: it also follows  *)
(* which rows have been offered since the pivots on the address were taken,*)
(* so that a pivot taken is one that a row of the report offers.           *)

(* A pivot leaves or enters its own key.                                   *)
LEMMA AppliedChanges ==
    ASSUME AddressNamesPivots, NEW key \in PivotKeys, NEW value
    PROVE  LET next == Applied(P(key, value)) IN
           /\ next \in [PivotKeys -> {next[k] : k \in PivotKeys}]
           /\ \A k \in PivotKeys :
                 next[k] \in {pivots[k], NoValue} \/ (k = key /\ next[k] = value)
<1> DEFINE next == Applied(P(key, value))
<1>1. /\ pivots = [k \in PivotKeys |-> pivots[k]]
      /\ P(key, value).key = key /\ P(key, value).value = value
  BY DEF AddressNamesPivots, P
<1>2. next = [pivots EXCEPT ![key] = IF @ = value THEN NoValue ELSE value]
  BY <1>1 DEF Applied
<1>3. \A k \in PivotKeys : next[k] = IF k # key THEN pivots[k]
                            ELSE IF pivots[k] = value THEN NoValue ELSE value
  BY <1>1, <1>2
<1>4. next = [k \in PivotKeys |-> next[k]]
  BY <1>1, <1>2
<1> HIDE DEF next
<1> QED
  BY <1>3, <1>4 DEF next

(* What rows offer has a key.                                              *)
LEMMA OffersHaveKeys ==
    /\ \A f, p : p \in FlowPivots(f) \/ p \in FindingPivots(f) =>
          p.key \in PivotKeys /\ p = P(p.key, p.value)
    /\ \A a, p : p \in AssetPivots(a) =>
          p.key \in PivotKeys /\ p = P(p.key, p.value)
  BY DEF FlowPivots, FindingPivots, AssetPivots, PivotKeys, P

(* The pivots after one more of a row are of that row if those before were.*)
LEMMA TakeKeeps ==
    ASSUME AddressNamesPivots, TakenOnOrigin,
           NEW kind \in {"flow", "asset", "finding"}, NEW entry, NEW offers, NEW p \in offers,
           p.key \in PivotKeys, p = P(p.key, p.value),
           origin = From(kind, entry) => TakenOn(offers),
           Take(p, kind, entry)
    PROVE  /\ AddressNamesPivots'
           /\ origin' = From(kind, entry) => TakenOn(offers)'
           /\ origin' \in {From(kind, entry), Several}
<1>1. /\ pivots' = Applied(P(p.key, p.value)) /\ query' = pivots'
      /\ origin' = IF pivots = NoPivots \/ origin = From(kind, entry)
                   THEN From(kind, entry) ELSE Several
  BY DEF Take, SetPivots, WriteAddress
<1>2. /\ pivots' \in [PivotKeys -> {pivots'[k] : k \in PivotKeys}]
      /\ \A k \in PivotKeys :
            pivots'[k] \in {pivots[k], NoValue} \/ (k = p.key /\ pivots'[k] = p.value)
  BY <1>1, AppliedChanges
<1>3. pivots = NoPivots => \A k \in PivotKeys : pivots[k] = NoValue
  BY DEF NoPivots
<1>4. From(kind, entry) # Several
  BY DEF From, Several
<1>5. origin' = From(kind, entry) => TakenOn(offers)'
  <2>1. SUFFICES ASSUME origin' = From(kind, entry), NEW k \in PivotKeys,
                        pivots'[k] # NoValue
                 PROVE  P(k, pivots'[k]) \in offers
    BY DEF TakenOn
  <2>2. pivots[k] # NoValue => P(k, pivots[k]) \in offers
    BY <1>1, <1>3, <1>4, <2>1 DEF TakenOn
  <2> QED
    BY <1>2, <2>1, <2>2
<1>6. origin' \in {From(kind, entry), Several}
  BY <1>1
<1>7. AddressNamesPivots'
  BY <1>1, <1>2 DEF AddressNamesPivots
<1> QED
  BY <1>5, <1>6, <1>7

(* Each kind of row, and what takes no pivot on a row.                     *)
LEMMA TakenStep ==
    ASSUME PivotsInv, [PivotsNext]_pivotVars
    PROVE  AddressNamesPivots' /\ TakenOnOrigin'
<1> USE DEF PivotsInv
<1>1. \A kind, entry, kind2, row2 : From(kind, entry) = From(kind2, row2) =>
          kind = kind2 /\ entry = row2
  <2>1. ASSUME NEW kind, NEW entry, NEW kind2, NEW row2,
               From(kind, entry) = From(kind2, row2)
        PROVE  kind = kind2 /\ entry = row2
    <3>1. /\ From(kind, entry).kind = kind /\ From(kind, entry).row = {entry}
          /\ From(kind2, row2).kind = kind2 /\ From(kind2, row2).row = {row2}
      BY DEF From
    <3> QED
      BY <2>1, <3>1
  <2> QED
    BY <2>1
<1>2. \A kind \in {"flow", "asset", "finding"} : \A entry :
          From(kind, entry) \notin {Several, NoOrigin}
  BY DEF From, Several, NoOrigin
<1>3. ASSUME NEW f \in Flows, TakeOnFlow(f)
      PROVE  AddressNamesPivots' /\ TakenOnOrigin'
  <2>1. PICK p \in FlowPivots(f) : Take(p, "flow", f)
    BY <1>3 DEF TakeOnFlow
  <2>2. /\ p.key \in PivotKeys /\ p = P(p.key, p.value)
        /\ origin = From("flow", f) => TakenOn(FlowPivots(f))
    BY OffersHaveKeys DEF TakenOnOrigin
  <2>3. /\ AddressNamesPivots'
        /\ origin' = From("flow", f) => TakenOn(FlowPivots(f))'
        /\ origin' \in {From("flow", f), Several}
    BY <2>1, <2>2, TakeKeeps
  <2> QED
    BY <1>1, <1>2, <2>3 DEF TakenOnOrigin
<1>4. ASSUME NEW a \in Assets, TakeOnAsset(a)
      PROVE  AddressNamesPivots' /\ TakenOnOrigin'
  <2>1. PICK p \in AssetPivots(a) : Take(p, "asset", a)
    BY <1>4 DEF TakeOnAsset
  <2>2. /\ p.key \in PivotKeys /\ p = P(p.key, p.value)
        /\ origin = From("asset", a) => TakenOn(AssetPivots(a))
    BY OffersHaveKeys DEF TakenOnOrigin
  <2>3. /\ AddressNamesPivots'
        /\ origin' = From("asset", a) => TakenOn(AssetPivots(a))'
        /\ origin' \in {From("asset", a), Several}
    BY <2>1, <2>2, TakeKeeps
  <2> QED
    BY <1>1, <1>2, <2>3 DEF TakenOnOrigin
<1>5. ASSUME NEW f \in Findings, TakeOnFinding(f)
      PROVE  AddressNamesPivots' /\ TakenOnOrigin'
  <2>1. PICK p \in FindingPivots(f) : Take(p, "finding", f)
    BY <1>5 DEF TakeOnFinding
  <2>2. /\ p.key \in PivotKeys /\ p = P(p.key, p.value)
        /\ origin = From("finding", f) => TakenOn(FindingPivots(f))
    BY OffersHaveKeys DEF TakenOnOrigin
  <2>3. /\ AddressNamesPivots'
        /\ origin' = From("finding", f) => TakenOn(FindingPivots(f))'
        /\ origin' \in {From("finding", f), Several}
    BY <2>1, <2>2, TakeKeeps
  <2> QED
    BY <1>1, <1>2, <2>3 DEF TakenOnOrigin
<1>6. ASSUME NEW key \in PivotKeys, NEW value, SetPivots(Applied(P(key, value))),
             origin' = Several
      PROVE  AddressNamesPivots' /\ TakenOnOrigin'
  <2>1. AddressNamesPivots'
    BY <1>6, AppliedChanges DEF SetPivots, WriteAddress, AddressNamesPivots
  <2> QED
    BY <1>2, <1>6, <2>1 DEF TakenOnOrigin
<1>7. ASSUME NEW k \in PivotKeys, RemovePivot(k)
      PROVE  AddressNamesPivots' /\ TakenOnOrigin'
  <2>1. /\ pivots' = [pivots EXCEPT ![k] = NoValue] /\ query' = pivots'
        /\ origin' = origin /\ pivots = [j \in PivotKeys |-> pivots[j]]
    BY <1>7 DEF RemovePivot, SetPivots, WriteAddress, AddressNamesPivots
  <2>2. /\ pivots' = [j \in PivotKeys |-> pivots'[j]]
        /\ \A j \in PivotKeys : pivots'[j] \in {pivots[j], NoValue}
    BY <2>1
  <2>3. \A offers : TakenOn(offers) => TakenOn(offers)'
    BY <2>2 DEF TakenOn
  <2> QED
    BY <2>1, <2>2, <2>3 DEF AddressNamesPivots, TakenOnOrigin
<1>8. ASSUME SetPivots(NoPivots), origin' = NoOrigin
      PROVE  AddressNamesPivots' /\ TakenOnOrigin'
  <2>1. AddressNamesPivots'
    BY <1>8 DEF SetPivots, WriteAddress, AddressNamesPivots, NoPivots
  <2> QED
    BY <1>2, <1>8, <2>1 DEF TakenOnOrigin
<1>9. ASSUME pivots' = pivots, query' = query, origin' = origin
      PROVE  AddressNamesPivots' /\ TakenOnOrigin'
  BY <1>9 DEF AddressNamesPivots, TakenOnOrigin, TakenOn
<1>10. CASE ReloadPivots
  BY <1>9, <1>10 DEF ReloadPivots, AddressNamesPivots
<1>11. CASE ClearAll \/ ClearFindings
  BY <1>8, <1>11 DEF ClearAll, ClearFindings
<1>12. ASSUME NEW c \in {"OT", "IT", "Edge", "Unknown"}, TakeClass(c)
       PROVE  AddressNamesPivots' /\ TakenOnOrigin'
  BY <1>6, <1>12 DEF TakeClass, PivotKeys
<1>13. ASSUME NEW s \in Severities, ClickPill(s)
       PROVE  AddressNamesPivots' /\ TakenOnOrigin'
  BY <1>6, <1>13 DEF ClickPill, PivotKeys
<1>14. ASSUME NEW s \in Severities \cup {"all"}, ChooseSeverity(s)
       PROVE  AddressNamesPivots' /\ TakenOnOrigin'
  BY <1>9, <1>14 DEF ChooseSeverity
<1>15. CASE UNCHANGED pivotVars
  BY <1>9, <1>15 DEF pivotVars
<1> QED
  BY <1>3, <1>4, <1>5, <1>7, <1>10, <1>11, <1>12, <1>13, <1>14, <1>15
  DEF PivotsNext

-----------------------------------------------------------------------------
(* A flow's own pivots leave it in the flow table and the graph.           *)
LEMMA FlowStays ==
    ASSUME NEW f \in Flows, TakenOn(FlowPivots(f))
    PROVE  /\ f \in ZeekRows \/ pivots["service"][1] = "Port"
           /\ f.src # f.dst => f \in DrawnFlows
<1>1. \A k \in PivotKeys : pivots[k] # NoValue =>
          \/ k = "ip" /\ pivots[k] \in {<<"ip", f.src>>, <<"ip", f.dst>>}
          \/ k = "port" /\ pivots[k] \in {<<"port", f.srcPort>>, <<"port", f.port>>}
          \/ k = "zeekState" /\ pivots[k] = <<"state", f.state>>
          \/ k = "service" /\ pivots[k] = Label(f)
  BY DEF TakenOn, FlowPivots, P
<1>2. /\ pivots["subnet"] = NoValue /\ pivots["deviceClass"] = NoValue
      /\ pivots["ip"] # NoValue => pivots["ip"] \in {<<"ip", f.src>>, <<"ip", f.dst>>}
      /\ pivots["port"] # NoValue =>
            pivots["port"] \in {<<"port", f.srcPort>>, <<"port", f.port>>}
      /\ pivots["zeekState"] # NoValue => pivots["zeekState"] = <<"state", f.state>>
      /\ pivots["service"] # NoValue => pivots["service"] = Label(f)
  BY <1>1 DEF PivotKeys
<1>3. Label(f) = <<"Port", f.port>> \/ Label(f) \in ServiceTexts(f)
  BY DEF Label, ServiceTexts, FirstOf
<1>4. <<"Port", f.port>>[1] = "Port"
  OBVIOUS
<1>5. f \in ZeekRows \/ pivots["service"][1] = "Port"
  BY <1>2, <1>3, <1>4 DEF ZeekRows, Passes
<1>6. f.src # f.dst => f \in DrawnFlows
  BY <1>2 DEF DrawnFlows, Passes, EndPasses
<1> QED
  BY <1>5, <1>6

(* A device's own pivots leave it in one of its tables; whatever the       *)
(* pivots, the inventory has what the tables have.                         *)
LEMMA DeviceStays ==
    ASSUME NEW a \in Assets, TakenOn(AssetPivots(a))
    PROVE  \E which \in Lists : a \in DeviceTable(which)
<1>1. \A k \in PivotKeys : pivots[k] # NoValue =>
          \/ k = "ip" /\ \E ip \in a.ips : pivots[k] = <<"ip", ip>>
          \/ k = "subnet" /\ \E s \in ToSet(a.subnets) : pivots[k] = <<"subnet", s>>
          \/ k = "service" /\ \E s \in a.services : pivots[k] = <<"service", s>>
          \/ k = "deviceClass" /\ \E c \in a.lists : pivots[k] = <<"class", c>>
          \/ k = "manufacturer" /\ pivots[k] = <<"manufacturer", a.manufacturer>>
  <2> HIDE DEF NoValue
  <2> QED
    BY DEF TakenOn, AssetPivots, P
<1>2. PICK which \in a.lists :
          pivots["deviceClass"] # NoValue => pivots["deviceClass"] = <<"class", which>>
  BY <1>1, AssetsAssumption DEF PivotKeys
<1>3. AssetPasses(a, {which})
  BY <1>1, <1>2 DEF AssetPasses, Passes, PivotKeys
<1> QED
  BY <1>2, <1>3, AssetsAssumption DEF DeviceTable

LEMMA InventoryIsTables ==
    Inventory = UNION {DeviceTable(which) : which \in Lists}
<1>1. ASSUME NEW a \in Assets
      PROVE  AssetPasses(a, a.lists)
                <=> \E which \in Lists : which \in a.lists /\ AssetPasses(a, {which})
  BY AssetsAssumption DEF AssetPasses, Passes
<1>2. ASSUME NEW a
      PROVE  a \in Inventory <=> \E which \in Lists : a \in DeviceTable(which)
  BY <1>1 DEF Inventory, DeviceTable
<1>3. \A a : a \in UNION {DeviceTable(which) : which \in Lists}
               <=> \E which \in Lists : a \in DeviceTable(which)
  OBVIOUS
<1> QED
  BY <1>2, <1>3

LEMMA FindingStays ==
    ASSUME NEW f \in Findings, TakenOn(FindingPivots(f)),
           severity \in {"all", f.severity}
    PROVE  f \in FindingTable
<1>1. \A k \in PivotKeys : pivots[k] # NoValue =>
          \/ k = "ip" /\ pivots[k] = Text("ip", f.ip)
          \/ k = "service" /\ pivots[k] = Text("service", f.service)
          \/ k = "risk" /\ pivots[k] = <<"risk", f.severity>>
  BY DEF TakenOn, FindingPivots, P
<1>2. /\ pivots["subnet"] = NoValue
      /\ pivots["ip"] # NoValue => pivots["ip"] = <<"ip", f.ip>>
      /\ pivots["service"] # NoValue => pivots["service"] = Text("service", f.service)
      /\ pivots["risk"] # NoValue => pivots["risk"] = <<"risk", f.severity>>
  BY <1>1 DEF PivotKeys, Text
<1> QED
  BY <1>2 DEF FindingTable, Passes, Risks

LEMMA TablesKeepRows ==
    TakenOnOrigin =>
        FlowKeepsItsPivots /\ DeviceKeepsItsPivots /\ FindingKeepsItsPivots
  BY FlowStays, DeviceStays, InventoryIsTables, FindingStays
  DEF TakenOnOrigin, FlowKeepsItsPivots, DeviceKeepsItsPivots, FindingKeepsItsPivots

LEMMA PivotsInitially == PivotsInit => AddressNamesPivots /\ TakenOnOrigin
<1> SUFFICES ASSUME PivotsInit
             PROVE  AddressNamesPivots /\ TakenOnOrigin
  OBVIOUS
<1>1. pivots = [k \in PivotKeys |-> NoValue] /\ query = pivots
  BY DEF PivotsInit, NoPivots
<1>2. \A offers : TakenOn(offers)
  BY <1>1 DEF TakenOn
<1> QED
  BY <1>1, <1>2 DEF AddressNamesPivots, TakenOnOrigin

(* Whatever pivots are taken, taken back, shared in a link or removed, a   *)
(* table keeps the row on which all of them were taken, and the inventory  *)
(* is what the tables show (App.tsx, ZeekFlowAnalysis, DevicesPanel,       *)
(* FindingsPanel, NetworkTopology), for any rows.                          *)
THEOREM PivotsInvariant == PivotsSpec => []PivotsInv
<1>1. PivotsInit => PivotsInv
  BY PivotsInitially, TablesKeepRows DEF PivotsInv
<1>2. PivotsInv /\ [PivotsNext]_pivotVars => AddressNamesPivots' /\ TakenOnOrigin'
  BY TakenStep
<1>3. TakenOnOrigin /\ AddressNamesPivots => PivotsInv
  BY TablesKeepRows DEF PivotsInv
<1> QED
  BY <1>1, <1>2, <1>3, PTL DEF PivotsSpec

(* A page loaded again has the pivots of the view it was taken from.       *)
(* "Clear finding filters" brings back every finding.                      *)
THEOREM PivotsAreShared == PivotsSpec => ReloadKeepsPivots /\ ClearedIsComplete
<1>1. PivotsInv /\ [PivotsNext]_pivotVars => (pivots' # pivots => query' = pivots')
  BY TakenStep DEF AddressNamesPivots
<1>2. ClearFindings => FindingTable' = Findings
  <2>1. SUFFICES ASSUME ClearFindings PROVE FindingTable' = Findings
    OBVIOUS
  <2>2. severity' = "all" /\ \A k \in PivotKeys : pivots'[k] = NoValue
    BY <2>1 DEF ClearFindings, SetPivots, NoPivots
  <2> QED
    BY <2>2 DEF FindingTable, Passes, PivotKeys
<1> QED
  BY PivotsInvariant, <1>1, <1>2, PTL
  DEF PivotsSpec, ReloadKeepsPivots, ClearedIsComplete

-----------------------------------------------------------------------------
(* The rows behind a figure. A dialog without rows of its own fetches, and *)
(* the rows it shows are those it asked for unless two fetches overlapped. *)

LEMMA DrillInitially == DrillInit => DrillInv
<1> SUFFICES ASSUME DrillInit PROVE DrillInv
  OBVIOUS
<1>1. DrillTypeOK
  <2>1. {filtered, isLoading, failed, overlapped} \subseteq BOOLEAN
    BY DEF DrillInit
  <2>2. opens \in 0..MaxOpens
    BY NoDrillAssumption DEF DrillInit
  <2>3. /\ {wanted, data} \subseteq DrillKeys \cup {NoDrill}
        /\ fetches \subseteq [number : 1..MaxOpens, for : DrillKeys]
    BY DEF DrillInit
  <2> QED
    BY <2>1, <2>2, <2>3 DEF DrillTypeOK
<1>2. DialogShowsItsRows /\ FetchIsOwn
  BY DEF DrillInit, DialogShowsItsRows, FetchIsOwn, RowsShown
<1> QED
  BY <1>1, <1>2 DEF DrillInv

LEMMA DrillStep ==
    ASSUME DrillInv, [DrillNext]_drillVars
    PROVE  DrillInv'
<1> USE NoDrillAssumption
    DEF DrillInv, DrillTypeOK, DialogShowsItsRows, FetchIsOwn, RowsShown
<1>1. ASSUME NEW key \in DrillKeys, Asked(key), data' \in {data, NoDrill}
      PROVE  DrillInv'
  <2> DEFINE mine == [number |-> opens', for |-> key]
  <2>1. opens' \in 1..MaxOpens
    BY <1>1 DEF Asked
  <2>2. /\ mine \in [number : 1..MaxOpens, for : DrillKeys] /\ mine.for = key
        /\ fetches' = fetches \cup {mine}
    BY <1>1, <2>1 DEF Asked
  <2>3. overlapped' \in BOOLEAN /\ (overlapped' <=> fetches # {})
    BY <1>1 DEF Asked
  <2> HIDE DEF mine
  <2>4. DrillTypeOK'
    <3>1. {filtered', isLoading', failed', overlapped'} \subseteq BOOLEAN
      BY <1>1, <2>3 DEF Asked
    <3>2. /\ {wanted', data'} \subseteq DrillKeys \cup {NoDrill}
          /\ opens' \in 0..MaxOpens
      BY <1>1, <2>1 DEF Asked
    <3>3. fetches' \subseteq [number : 1..MaxOpens, for : DrillKeys]
      BY <2>2
    <3> QED
      BY <3>1, <3>2, <3>3
  <2>5. DialogShowsItsRows'
    BY <1>1, <2>2, <2>3 DEF Asked
  <2>6. FetchIsOwn'
    BY <1>1, <2>2, <2>3 DEF Asked
  <2> QED
    BY <2>4, <2>5, <2>6
<1>2. ASSUME NEW c \in fetches, Answered(c) \/ Fails(c) PROVE DrillInv'
  BY <1>2 DEF Answered, Fails, FetchEnded
<1>3. CASE Cleared \/ RemoveFilter
  BY <1>3 DEF Cleared, RemoveFilter
<1>4. CASE UNCHANGED drillVars
  BY <1>4 DEF drillVars, drillState
<1> QED
  BY <1>1, <1>2, <1>3, <1>4 DEF DrillNext, OpenKey, OpenFilters

(* Unless it was opened over a fetch under way, a dialog behind a row      *)
(* waits for its own rows and shows no others, and no dialog waits for     *)
(* ever (useDrilldown.ts), for any keys and any number of dialogs.         *)
THEOREM DrillInvariant == DrillSpec => []DrillInv
  BY DrillInitially, DrillStep, PTL DEF DrillSpec

-----------------------------------------------------------------------------
(* The stored view of the map. What is shown is the view chosen last, and  *)
(* the stored one is the last of this browser.                             *)

LEMMA ViewsInitially == TopologyStateInit => ViewsInv
  BY ViewsAssumption
  DEF TopologyStateInit, ViewsInv, ViewsTypeOK, KeptViewIsItsLast, HandedViewIsOwn,
      ShownIsChosen, Nothing

LEMMA ViewsStep ==
    ASSUME ViewsInv, [TopologyStateNext]_stateVars
    PROVE  ViewsInv'
<1> USE ViewsAssumption
    DEF ViewsInv, ViewsTypeOK, KeptViewIsItsLast, HandedViewIsOwn, ShownIsChosen
<1>1. \A r \in KeyedReports : DefaultView(r) \in Views /\ DefaultView(r).of = r
  BY DEF DefaultView, Views
<1>2. Nothing \notin Views /\ \A v \in Views : v.of # NoReport
  BY DEF Nothing, Views
<1>3. ASSUME NEW r \in KeyedReports, ShowView(r) PROVE ViewsInv'
  <2>1. Hydrated(r) \in Views /\ Hydrated(r).of = r
    BY <1>1 DEF Hydrated
  <2>2. ViewsTypeOK'
    BY <1>1, <1>3, <2>1 DEF ShowView
  <2> QED
    BY <1>3, <2>1, <2>2 DEF ShowView
<1>4. ASSUME NEW v \in 0..MaxView, ChangeView(v) PROVE ViewsInv'
  <2>1. view' \in Views /\ view'.of = shown
    BY <1>4 DEF ChangeView, Views
  <2> QED
    BY <1>4, <2>1 DEF ChangeView
<1>5. CASE WriteView
  BY <1>2, <1>5 DEF WriteView
<1>6. CASE Hide
  BY <1>2, <1>6 DEF Hide
<1>7. CASE LoadOther
  BY <1>7 DEF LoadOther
<1>8. CASE UNCHANGED stateVars
  BY <1>8 DEF stateVars
<1> QED
  BY <1>3, <1>4, <1>5, <1>6, <1>7, <1>8 DEF TopologyStateNext

(* A view of the map that is kept, or handed over for an export, is its    *)
(* report's, and the last one chosen for it, unless another report took    *)
(* its place within the delay (NetworkTopology.tsx), for any reports.      *)
THEOREM ViewsInvariant == TopologyStateSpec => []ViewsInv
  BY ViewsInitially, ViewsStep, PTL DEF TopologyStateSpec

-----------------------------------------------------------------------------
(* The page of a report. The address has the sections that are shown, and  *)
(* a report with corrections is locked, as they are, until it is reopened. *)

(* What the effect writes.                                                 *)
LEMMA WrittenAddress ==
    ASSUME AddressWritten, reportOpen' \in BOOLEAN, active' \in ReportSections
    PROVE  /\ address'.section \in ReportSections \cup {NoSection}
           /\ address'.section # NoSection <=> reportOpen'
           /\ address'.sections = IF ~reportOpen' \/ visible' = ReportSections
                                  THEN {} ELSE visible'
  BY SectionsAssumption DEF AddressWritten, AddressOf

(* The sections read from an address.                                      *)
LEMMA KnownSections ==
    /\ \A s \in SUBSET ReportSections : FromAddress(s) \in (SUBSET ReportSections) \ {{}}
    /\ \A s \in (SUBSET ReportSections) \ {{}} :
          FromAddress(IF s = ReportSections THEN {} ELSE s) = s
<1>1. ReportSections # {}
  BY SectionsAssumption
<1>2. \A s \in SUBSET ReportSections : FromAddress(s) \in (SUBSET ReportSections) \ {{}}
  BY <1>1 DEF FromAddress
<1>3. ASSUME NEW s \in (SUBSET ReportSections) \ {{}}
      PROVE  FromAddress(IF s = ReportSections THEN {} ELSE s) = s
  BY <1>1, <1>3 DEF FromAddress
<1> QED
  BY <1>2, <1>3

LEMMA ViewInitially == ReportViewInit => ViewInv
<1> SUFFICES ASSUME NEW s \in SUBSET ReportSections, Opened(s) PROVE ViewInv
  BY DEF ReportViewInit
<1>1. address.section = NoSection /\ address.sections = {}
  BY DEF Opened, AddressOf
<1>2. visible \in (SUBSET ReportSections) \ {{}}
  BY KnownSections DEF Opened
<1> QED
  BY <1>1, <1>2, SectionsAssumption
  DEF Opened, DialogShut, ViewInv, ViewTypeOK, SelectionOutlivesReport,
      LastClickWins, CollapseAllMeansAll, CorrectionsAreLocked

LEMMA ViewStep ==
    ASSUME ViewInv, [ReportViewNext]_viewVars
    PROVE  ViewInv'
<1> USE SectionsAssumption
    DEF DialogShut, ViewInv, ViewTypeOK,
        SelectionOutlivesReport, LastClickWins, CollapseAllMeansAll, CorrectionsAreLocked,
        navigationVars, panelVars
<1>0. /\ FromAddress(address.sections) \in (SUBSET ReportSections) \ {{}}
      /\ reportOpen => FromAddress(address.sections) = visible
  BY KnownSections
<1>1. CASE Reload
  <2>1. visible' \in (SUBSET ReportSections) \ {{}}
    BY <1>0, <1>1 DEF Reload
  <2> QED
    BY <1>1, <2>1, WrittenAddress DEF Reload
<1>2. CASE LoadReport
  <2>1. visible' \in (SUBSET ReportSections) \ {{}}
    BY <1>0, <1>2 DEF LoadReport
  <2>2. /\ address'.section \in ReportSections \cup {NoSection}
        /\ address'.section # NoSection /\ reportOpen' = TRUE
        /\ address'.sections \subseteq ReportSections
        /\ FromAddress(address'.sections) = visible'
    BY <1>2, <2>1, WrittenAddress, KnownSections DEF LoadReport
  <2>3. reportOpen => visible' = visible
    BY <1>0, <1>2 DEF LoadReport
  <2>4. ViewTypeOK'
    BY <1>2, <2>1, <2>2 DEF LoadReport
  <2>5. (SelectionOutlivesReport /\ LastClickWins /\ CollapseAllMeansAll
         /\ CorrectionsAreLocked)'
    BY <1>2, <2>2, <2>3 DEF LoadReport
  <2> QED
    BY <2>4, <2>5
<1>3. CASE RestoreSection
  BY <1>3 DEF RestoreSection
<1>4. CASE Welcome
  BY <1>4, WrittenAddress DEF Welcome
<1>5. CASE Unlock
  BY <1>5 DEF Unlock
<1>6. CASE Customize \/ CloseCustomize
  BY <1>6 DEF Customize, CloseCustomize
<1>7. CASE SaveView
  <2>1. /\ visible' \in (SUBSET ReportSections) \ {{}} /\ visible' = draft
        /\ active' \in ReportSections
        /\ active \in draft => active' = active
    BY <1>7 DEF SaveView
  <2>2. /\ address'.section \in ReportSections \cup {NoSection}
        /\ address'.section # NoSection <=> reportOpen'
        /\ address'.sections \subseteq ReportSections
        /\ reportOpen' => FromAddress(address'.sections) = visible'
    BY <1>7, <2>1, WrittenAddress, KnownSections DEF SaveView
  <2>3. ViewTypeOK'
    BY <1>7, <2>1, <2>2 DEF SaveView
  <2>4. (SelectionOutlivesReport /\ LastClickWins /\ CollapseAllMeansAll
         /\ CorrectionsAreLocked)'
    BY <1>7, <2>1, <2>2 DEF SaveView
  <2> QED
    BY <2>3, <2>4
<1>8. CASE SyncPanels
  BY <1>8 DEF SyncPanels
<1>9. CASE ToggleAllPanels
  BY <1>9 DEF ToggleAllPanels
<1>10. ASSUME NEW s \in ReportSections, GoToSection(s) PROVE ViewInv'
  BY <1>10, WrittenAddress, KnownSections DEF GoToSection
<1>11. ASSUME NEW s \in ReportSections, Scroll(s) PROVE ViewInv'
  <2>1. active' \in ReportSections /\ (navLocked => active' = active)
    BY <1>11 DEF Scroll
  <2>2. /\ address'.section \in ReportSections \cup {NoSection}
        /\ address'.section # NoSection /\ reportOpen'
        /\ address'.sections \subseteq ReportSections
        /\ FromAddress(address'.sections) = visible'
    BY <1>11, <2>1, WrittenAddress, KnownSections DEF Scroll
  <2>3. ViewTypeOK'
    BY <1>11, <2>1, <2>2 DEF Scroll
  <2>4. (SelectionOutlivesReport /\ LastClickWins /\ CollapseAllMeansAll
         /\ CorrectionsAreLocked)'
    BY <1>11, <2>1, <2>2 DEF Scroll
  <2> QED
    BY <2>3, <2>4
<1>12. ASSUME NEW s \in ReportSections, TogglePanel(s) PROVE ViewInv'
  BY <1>12, WrittenAddress, KnownSections DEF TogglePanel
<1>13. ASSUME NEW s \in ReportSections, NEW last \in BOOLEAN, Correct(s, last)
       PROVE  ViewInv'
  BY <1>13 DEF Correct
<1>14. ASSUME NEW d \in SUBSET ReportSections, Choose(d) PROVE ViewInv'
  BY <1>14 DEF Choose
<1>15. CASE UNCHANGED viewVars
  BY <1>15 DEF viewVars
<1> QED
  BY <1>1, <1>2, <1>3, <1>4, <1>5, <1>6, <1>7, <1>8, <1>9, <1>10, <1>11, <1>12,
     <1>13, <1>14, <1>15
  DEF ReportViewNext

(* The page of a report keeps the address at its selection of sections, is *)
(* only scrolled to the section asked for last, and offers "Collapse all"  *)
(* only when every panel is expanded (App.tsx, ReportCustomization.tsx,    *)
(* Panel.tsx), for any sections.                                           *)
THEOREM ViewInvariant == ReportViewSpec => []ViewInv
  BY ViewInitially, ViewStep, PTL DEF ReportViewSpec

-----------------------------------------------------------------------------
(* The devices of the map. A device that is drawn and settled has a place, *)
(* the focus is on what is drawn and a device moved by hand stays there.   *)

Controls == [preset : Presets, suspiciousOnly : BOOLEAN, findingOnly : BOOLEAN,
             hideIsolated : BOOLEAN, service : Services \cup {AllServices},
             ip : Hosts \cup {NoHost}]
Places == [Hosts -> {"none", "laid", "moved"}]
Focuses == [node : Hosts \cup {NoHost}, neighbors : BOOLEAN,
            link : [source : Hosts \cup {NoHost}, target : Hosts \cup {NoHost}]]

LEMMA DrawnAreHosts == \A c : BaseNodes(c) \subseteq Hosts
  BY DEF BaseNodes

(* What is settled is placed, and what was moved stays.                    *)
LEMMA SettledIsPlaced ==
    ASSUME NEW places \in Places, NEW nodes \in SUBSET Hosts
    PROVE  /\ Settled(places, nodes) \in Places
           /\ \A d \in nodes : /\ Settled(places, nodes)[d] # "none"
                               /\ places[d] = "moved" =>
                                     Settled(places, nodes)[d] = "moved"
  BY DEF Settled, Places

LEMMA RefocusedIsDrawn ==
    ASSUME NEW f \in Focuses, NEW nodes,
           f.neighbors => f.node # NoHost \/ f.link # NoLink
    PROVE  LET g == Refocused(f, nodes) IN
           /\ g \in Focuses
           /\ g.node # NoHost => g.node \in nodes
           /\ g.neighbors => g.node # NoHost \/ g.link # NoLink
  BY DEF Refocused, Focuses

(* A render keeps the focus drawn, and places what it draws when a control *)
(* or the grouping changed.                                                *)
LEMMA PlacesKept ==
    ASSUME LayoutInv, NEW c \in Controls, NEW g \in Groupings, NEW places \in Places,
           NEW f \in Focuses, f.neighbors => f.node # NoHost \/ f.link # NoLink,
           Render(c, g, places, f),
           \/ <<c, g>> # <<controls, grouping>>
           \/ nodesDrawn = {}
           \/ stacked'
    PROVE  /\ LayoutInv'
           /\ \A d \in nodesDrawn' : places[d] = "moved" => positions'[d] = "moved"
<1> DEFINE nodes == IF c = controls THEN nodesDrawn ELSE BaseNodes(c)
<1>1. nodes \in SUBSET Hosts
  BY DrawnAreHosts DEF LayoutInv, LayoutTypeOK
<1>2. /\ controls' = c /\ grouping' = g /\ nodesDrawn' = nodes
      /\ positions' = IF <<c, g>> # <<controls, grouping>>
                      THEN Settled(places, nodes) ELSE places
      /\ focus' = Refocused(f, nodes)
  BY DEF Render
<1>3. nodesDrawn = {} => nodes = {} \/ <<c, g>> # <<controls, grouping>>
  OBVIOUS
<1> HIDE DEF nodes
<1>4. FocusIsDrawn' /\ focus' \in Focuses
  BY <1>2, RefocusedIsDrawn DEF FocusIsDrawn
<1>5. positions' \in Places
  BY <1>1, <1>2, SettledIsPlaced
<1>6. DrawnIsPlaced'
  BY <1>1, <1>2, <1>3, SettledIsPlaced DEF DrawnIsPlaced
<1>7. LayoutTypeOK'
  BY <1>1, <1>2, <1>4, <1>5 DEF LayoutTypeOK, Controls, Places, Focuses
<1>8. \A d \in nodesDrawn' : places[d] = "moved" => positions'[d] = "moved"
  BY <1>1, <1>2, SettledIsPlaced
<1> QED
  BY <1>4, <1>6, <1>7, <1>8 DEF LayoutInv

(* What a device that was moved by hand keeps.                             *)
Stays ==
    \A d \in Hosts :
        positions[d] = "moved" /\ positions'[d] # "moved" =>
            d \notin nodesDrawn' \/ controls'.preset # controls.preset \/ ResetView

LEMMA LayoutStep ==
    ASSUME LayoutInv, [TopologyLayoutNext]_layoutVars
    PROVE  LayoutInv' /\ Stays
<1>1. /\ controls \in Controls /\ grouping \in Groupings /\ positions \in Places
      /\ focus \in Focuses /\ nodesDrawn \in SUBSET Hosts
      /\ focus.node # NoHost => focus.node \in nodesDrawn
      /\ focus.neighbors => focus.node # NoHost \/ focus.link # NoLink
  BY DEF LayoutInv, LayoutTypeOK, FocusIsDrawn, Controls, Places, Focuses
<1>2. /\ NoPlaces \in Places /\ NoFocus \in Focuses
      /\ NoFocus.neighbors => NoFocus.node # NoHost \/ NoFocus.link # NoLink
  BY DEF NoPlaces, NoFocus, NoLink, Places, Focuses
<1>3. ASSUME NEW p \in Presets, ApplyPreset(p) PROVE LayoutInv' /\ Stays
  <2> DEFINE c == [controls EXCEPT !.preset = p, !.suspiciousOnly = FALSE,
                                   !.findingOnly = (p = "risk"),
                                   !.hideIsolated = (p # "full")]
             g == IF p = "full" THEN grouping ELSE "class"
  <2>1. c \in Controls /\ c.preset = p
    BY <1>1 DEF Controls
  <2>2. g \in Groupings
    BY <1>1 DEF Groupings
  <2>3. Render(c, g, NoPlaces, NoFocus) /\ p # controls.preset
    BY <1>3 DEF ApplyPreset
  <2>4. controls' = c
    BY <2>3 DEF Render
  <2> HIDE DEF c, g
  <2>5. <<c, g>> # <<controls, grouping>>
    BY <2>1, <2>3
  <2> QED
    BY <1>2, <2>1, <2>2, <2>3, <2>4, <2>5, PlacesKept DEF Stays
<1>4. CASE ResetView
  <2> DEFINE c == [controls EXCEPT !.preset = "simple", !.suspiciousOnly = FALSE,
                                   !.findingOnly = FALSE, !.hideIsolated = TRUE]
  <2>1. c \in Controls /\ "class" \in Groupings
    BY <1>1 DEF Controls, Presets, Groupings
  <2>2. /\ Render(c, "class", NoPlaces, NoFocus)
        /\ stacked' = (c = controls /\ grouping = "class")
    BY <1>4 DEF ResetView
  <2> HIDE DEF c
  <2>3. stacked' \/ <<c, "class">> # <<controls, grouping>>
    BY <2>2
  <2> QED
    BY <1>2, <1>4, <2>1, <2>2, <2>3, PlacesKept DEF Stays
<1>5. ASSUME NEW c \in Controls, NEW g \in Groupings, NEW f \in {focus, NoFocus},
             Render(c, g, positions, f),
             <<c, g>> # <<controls, grouping>> \/ nodesDrawn = {}
      PROVE  LayoutInv' /\ Stays
  BY <1>1, <1>2, <1>5, PlacesKept DEF Stays
<1>6. ASSUME NEW name \in {"suspiciousOnly", "findingOnly", "hideIsolated"},
             ToggleControl(name)
      PROVE  LayoutInv' /\ Stays
  <2> DEFINE c == [controls EXCEPT ![name] = ~@]
  <2>1. c \in Controls /\ c # controls
    BY <1>1 DEF Controls
  <2>2. Render(c, grouping, positions, focus)
    BY <1>6 DEF ToggleControl
  <2> HIDE DEF c
  <2> QED
    BY <1>1, <1>5, <2>1, <2>2
<1>7. CASE ClearRefinements
  <2> DEFINE c == [controls EXCEPT !.suspiciousOnly = FALSE, !.findingOnly = FALSE]
  <2>1. c \in Controls
    BY <1>1 DEF Controls
  <2>2. nodesDrawn = {} /\ Render(c, grouping, positions, NoFocus)
    BY <1>7 DEF ClearRefinements
  <2> HIDE DEF c
  <2> QED
    BY <1>1, <1>5, <2>1, <2>2
<1>8. ASSUME NEW name, NEW value, FilterReport(name, value),
             \/ name = "service" /\ value \in Services \cup {AllServices}
             \/ name = "ip" /\ value \in Hosts \cup {NoHost}
      PROVE  LayoutInv' /\ Stays
  <2> DEFINE c == [controls EXCEPT ![name] = value]
  <2>1. c \in Controls /\ c[name] = value
    BY <1>1, <1>8 DEF Controls
  <2>2. Render(c, grouping, positions, focus) /\ value # controls[name]
    BY <1>8 DEF FilterReport
  <2> HIDE DEF c
  <2>3. c # controls
    BY <2>1, <2>2
  <2> QED
    BY <1>1, <1>5, <2>1, <2>2, <2>3
<1>9. ASSUME NEW g \in Groupings, GroupBy(g) PROVE LayoutInv' /\ Stays
  BY <1>1, <1>5, <1>9 DEF GroupBy
<1>10. ASSUME NEW d \in Hosts, MoveNode(d) PROVE LayoutInv' /\ Stays
  <2>1. /\ positions' \in Places
        /\ \A x \in Hosts : positions'[x] \in {positions[x], "moved"}
        /\ UNCHANGED <<controls, nodesDrawn, grouping, focus, stacked>>
    BY <1>1, <1>10 DEF MoveNode, Places
  <2> QED
    BY <1>1, <2>1
    DEF Stays, LayoutInv, LayoutTypeOK, DrawnIsPlaced, FocusIsDrawn, Places
<1>11. ASSUME focus' \in Focuses, focus'.node # NoHost => focus'.node \in nodesDrawn,
              focus'.neighbors => focus'.node # NoHost \/ focus'.link # NoLink,
              UNCHANGED <<controls, nodesDrawn, grouping, positions, stacked>>
       PROVE  LayoutInv' /\ Stays
  BY <1>11
  DEF Stays, LayoutInv, LayoutTypeOK, DrawnIsPlaced, FocusIsDrawn, Focuses
<1>12. ASSUME NEW d \in Hosts, InspectNode(d) PROVE LayoutInv' /\ Stays
  <2>1. /\ focus' \in Focuses /\ focus'.node = d /\ d \in nodesDrawn /\ d # NoHost
        /\ UNCHANGED <<controls, nodesDrawn, grouping, positions, stacked>>
    BY <1>1, <1>12, HostsAssumption DEF InspectNode, Focuses, NoHost, NoLink
  <2> QED
    BY <1>11, <2>1
<1>13. ASSUME NEW e \in Links, InspectLink(e) PROVE LayoutInv' /\ Stays
  <2> DEFINE l == [source |-> e.source, target |-> e.target]
  <2>1. /\ e.source \in Hosts /\ e.target \in Hosts
        /\ focus' = [focus EXCEPT !.node = NoHost, !.link = l]
        /\ UNCHANGED <<controls, nodesDrawn, grouping, positions, stacked>>
    BY <1>1, <1>13 DEF InspectLink
  <2>2. /\ l \in [source : Hosts \cup {NoHost}, target : Hosts \cup {NoHost}]
        /\ l # NoLink
    BY <2>1, HostsAssumption DEF NoLink, NoHost
  <2> HIDE DEF l
  <2>3. focus' \in Focuses /\ focus'.node = NoHost /\ focus'.link = l
    BY <1>1, <2>1, <2>2 DEF Focuses
  <2> QED
    BY <1>11, <2>1, <2>2, <2>3
<1>14. CASE ClearSelection
  <2>1. /\ focus' = NoFocus
        /\ UNCHANGED <<controls, nodesDrawn, grouping, positions, stacked>>
    BY <1>14 DEF ClearSelection
  <2>2. NoFocus.node = NoHost
    BY DEF NoFocus
  <2> QED
    BY <1>2, <1>11, <2>1, <2>2
<1>15. CASE ToggleNeighbors
  <2>1. /\ focus' \in Focuses /\ focus'.node = focus.node /\ focus.node # NoHost
        /\ UNCHANGED <<controls, nodesDrawn, grouping, positions, stacked>>
    BY <1>1, <1>15 DEF ToggleNeighbors, Focuses
  <2> QED
    BY <1>1, <1>11, <2>1
<1>16. CASE UNCHANGED layoutVars
  BY <1>1, <1>11, <1>16 DEF layoutVars
<1> QED
  BY <1>3, <1>4, <1>6, <1>7, <1>8, <1>9, <1>10, <1>12, <1>13, <1>14, <1>15, <1>16
  DEF TopologyLayoutNext

LEMMA LayoutInitially == TopologyLayoutInit => LayoutInv
<1> SUFFICES ASSUME TopologyLayoutInit PROVE LayoutInv
  OBVIOUS
<1>1. nodesDrawn \in SUBSET Hosts /\ NoPlaces \in Places
  BY DrawnAreHosts DEF TopologyLayoutInit, NoPlaces, Places
<1>2. positions \in Places /\ \A d \in nodesDrawn : positions[d] # "none"
  BY <1>1, SettledIsPlaced DEF TopologyLayoutInit
<1>3. controls \in Controls /\ grouping \in Groupings
  BY DEF TopologyLayoutInit, Default, Controls, Presets, Groupings
<1>4. focus \in Focuses /\ focus.node = NoHost /\ focus.neighbors = FALSE
  BY DEF TopologyLayoutInit, NoFocus, NoLink, Focuses
<1> QED
  BY <1>1, <1>2, <1>3, <1>4
  DEF LayoutInv, LayoutTypeOK, DrawnIsPlaced, FocusIsDrawn, Controls, Places, Focuses

(* What the map draws has a place, unless a reset changed no control, and  *)
(* a device in focus is drawn (NetworkTopology.tsx), for any network.      *)
THEOREM LayoutInvariant == TopologyLayoutSpec => []LayoutInv
  BY LayoutInitially, LayoutStep, PTL DEF TopologyLayoutSpec

(* A device moved by hand stays where it is while it is drawn, until a     *)
(* preset or the reset lays out the map again.                             *)
THEOREM MovedDevicesStay == TopologyLayoutSpec => MovedStays
<1>1. LayoutInv /\ [TopologyLayoutNext]_layoutVars =>
        [\A d \in Hosts :
            positions[d] = "moved" /\ positions'[d] # "moved" =>
               \/ d \notin nodesDrawn'
               \/ controls'.preset # controls.preset
               \/ ResetView]_layoutVars
  BY LayoutStep DEF Stays
<1> QED
  BY <1>1, LayoutInvariant, PTL DEF TopologyLayoutSpec, MovedStays

-----------------------------------------------------------------------------
(* The saved searches of the map. The newest listing under way is answered *)
(* with the store as it is, unless one failed or came out of order: so the *)
(* list is exact once quiet.                                               *)

(* A finite set of numbers has a least.                                    *)
LEMMA MinIsLeast ==
    ASSUME NEW n \in Nat, NEW S \in SUBSET (0..n), S # {}
    PROVE  Min(S) \in S /\ \A y \in S : Min(S) <= y
<1> DEFINE Below == {n - i : i \in S}
<1>1. Below \in SUBSET (0..n) /\ Below # {}
  <2>1. \A i \in S : i \in 0..n /\ n - i \in 0..n
    OBVIOUS
  <2> QED
    BY <2>1
<1>2. Max(Below) \in Below /\ \A y \in Below : Max(Below) >= y
  <2> HIDE DEF Below
  <2> QED
    BY <1>1, MaxIsGreatest
<1>3. PICK x \in S : Max(Below) = n - x
  BY <1>2
<1>4. \A y \in S : x <= y
  <2> TAKE y \in S
  <2>1. n - y \in Below /\ x \in 0..n /\ y \in 0..n
    OBVIOUS
  <2>2. n - x >= n - y
    BY <1>2, <1>3, <2>1
  <2> QED
    BY <2>1, <2>2
<1> QED
  BY <1>4 DEF Min

(* A listing that begins is the newest.                                    *)
LEMMA NewestIsNewest ==
    ASSUME SearchesInv
    PROVE  /\ NewestRead \in 0..MaxListings
           /\ \A r \in searchReads : r.number <= NewestRead
<1> DEFINE Numbers == {0} \cup {r.number : r \in searchReads}
<1>1. /\ MaxListings \in Nat
      /\ Numbers \in SUBSET (0..MaxListings) /\ Numbers # {}
  BY SearchesAssumption DEF SearchesInv, CallsAreKnown
<1>2. Max(Numbers) \in Numbers /\ \A n \in Numbers : Max(Numbers) >= n
  <2> HIDE DEF Numbers
  <2> QED
    BY <1>1, MaxIsGreatest
<1>3. NewestRead = Max(Numbers)
  BY DEF NewestRead
<1>4. \A n \in Numbers : n \in Int /\ n <= Max(Numbers)
  <2> HIDE DEF Numbers
  <2> QED
    BY <1>1, <1>2
<1>5. \A r \in searchReads : r.number \in Numbers
  OBVIOUS
<1> QED
  <2> HIDE DEF Numbers
  <2> QED
    BY <1>1, <1>2, <1>3, <1>4, <1>5

(* A new listing is unlike those under way, and not answered yet.          *)
LEMMA BeginningKeeps ==
    ASSUME SearchesInv, BeginListing,
           issuedIds' = issuedIds
    PROVE  /\ NewestRead + 1 \in 1..MaxListings
           /\ searchReads' \subseteq [number : 1..MaxListings, answered : BOOLEAN,
                                     list : SUBSET (1..issuedIds')]
           /\ \A r, x \in searchReads' : r.number = x.number => r = x
           /\ searchReads' # {}
           /\ \A r \in searchReads' :
                r.answered => \E x \in searchReads' : ~(x.number <= r.number)
<1> DEFINE new == [number |-> NewestRead + 1, answered |-> FALSE, list |-> {}]
<1>1. /\ NewestRead \in 0..MaxListings
      /\ \A r \in searchReads : r.number <= NewestRead
  BY NewestIsNewest
<1>2. /\ searchReads \subseteq [number : 1..MaxListings, answered : BOOLEAN,
                                list : SUBSET (1..issuedIds)]
      /\ \A r, x \in searchReads : r.number = x.number => r = x
  BY DEF SearchesInv, CallsAreKnown
<1>3. NewestRead + 1 \in 1..MaxListings
  BY <1>1, SearchesAssumption DEF BeginListing
<1>4. /\ new \in [number : 1..MaxListings, answered : BOOLEAN,
                 list : SUBSET (1..issuedIds)]
      /\ new.number = NewestRead + 1 /\ ~new.answered
  BY <1>3
<1>5. \A r \in searchReads : r.number # new.number /\ ~(new.number <= r.number)
  BY <1>1, <1>2
<1>6. searchReads' = searchReads \cup {new}
  BY DEF BeginListing
<1> HIDE DEF new
<1> QED
  BY <1>2, <1>3, <1>4, <1>5, <1>6

LEMMA SearchesInitially == SavedSearchesInit => SearchesInv
  BY SearchesAssumption
  DEF SavedSearchesInit, SearchesInv, SavedSearchesTypeOK, SaveReplacesItsOwn,
      QuietSearchListIsExact, CallsAreKnown, NewestListingIsExact, Idle, NoSearch,
      SearchIds

LEMMA SearchesStep ==
    ASSUME SearchesInv, [SavedSearchesNext]_savedSearchVars
    PROVE  SearchesInv'
<1> USE SearchesAssumption
<1> USE DEF Idle, NoSearch, SearchIds
<1>1. CASE OpenWorkspace
  BY <1>1, BeginningKeeps
  DEF OpenWorkspace, formVars, SearchesInv, SavedSearchesTypeOK, SaveReplacesItsOwn,
      QuietSearchListIsExact, CallsAreKnown, NewestListingIsExact
<1>2. CASE \E id \in SearchIds : OpenSearch(id)
  BY <1>2
  DEF OpenSearch, formVars, SearchesInv, SavedSearchesTypeOK, SaveReplacesItsOwn,
      QuietSearchListIsExact, CallsAreKnown, NewestListingIsExact, Calling
<1>3. CASE ForgetSearch
  BY <1>3
  DEF ForgetSearch, formVars, SearchesInv, SavedSearchesTypeOK, SaveReplacesItsOwn,
      QuietSearchListIsExact, CallsAreKnown, NewestListingIsExact, Calling
<1>4. CASE SaveSearch
  BY <1>4
  DEF SaveSearch, formVars, SearchesInv, SavedSearchesTypeOK, SaveReplacesItsOwn,
      QuietSearchListIsExact, CallsAreKnown, NewestListingIsExact
<1>5. CASE DeleteSearch
  <2>5. /\ searchBusy' = [kind |-> "delete", id |-> chosenSearch]
        /\ chosenSearch \in 1..issuedIds /\ issuedIds \in 0..MaxSearches
    BY <1>5 DEF DeleteSearch, SearchesInv, SavedSearchesTypeOK
  <2>6. searchBusy' \in [kind : {"none", "save", "saved", "delete", "deleted"},
                        id : {NoSearch} \cup SearchIds]
    BY <2>5
  <2>1. SavedSearchesTypeOK'
    BY <1>5, <2>6
    DEF DeleteSearch, formVars, SearchesInv, SavedSearchesTypeOK, CallsAreKnown
  <2>2. SaveReplacesItsOwn'
    BY <1>5 DEF DeleteSearch, formVars, SearchesInv, SaveReplacesItsOwn
  <2>3. CallsAreKnown'
    BY <1>5
    DEF DeleteSearch, formVars, SearchesInv, CallsAreKnown, SavedSearchesTypeOK
  <2>4. NewestListingIsExact'
    BY <1>5
    DEF DeleteSearch, formVars, SearchesInv, NewestListingIsExact, CallsAreKnown,
        SavedSearchesTypeOK
  <2> QED
    BY <2>1, <2>2, <2>3, <2>4
    DEF SearchesInv, QuietSearchListIsExact, NewestListingIsExact
<1>6. CASE StoreSearch
  <2>5. PICK id \in 1..MaxSearches :
          /\ id = IF searchBusy.id = NoSearch THEN issuedIds + 1 ELSE searchBusy.id
          /\ searchStore' = searchStore \cup {id}
          /\ issuedIds' = IF id > issuedIds THEN id ELSE issuedIds
    BY <1>6 DEF StoreSearch, SearchesInv, SavedSearchesTypeOK, CallsAreKnown
  <2>6. searchBusy' = [kind |-> "saved", id |-> id]
    BY <1>6, <2>5 DEF StoreSearch, SearchesInv, SavedSearchesTypeOK
  <2>7. searchBusy' \in [kind : {"none", "save", "saved", "delete", "deleted"},
                        id : {NoSearch} \cup SearchIds]
    BY <2>6
  <2>8. issuedIds' \in 0..MaxSearches /\ issuedIds <= issuedIds' /\ id <= issuedIds'
    BY <2>5 DEF SearchesInv, SavedSearchesTypeOK
  <2>1. SavedSearchesTypeOK'
    BY <1>6, <2>5, <2>7, <2>8
    DEF StoreSearch, formVars, SearchesInv, SavedSearchesTypeOK, CallsAreKnown
  <2>2. SaveReplacesItsOwn'
    BY <1>6 DEF StoreSearch, formVars, SearchesInv, SaveReplacesItsOwn
  <2>3. CallsAreKnown'
    BY <1>6 DEF StoreSearch, formVars, SearchesInv, CallsAreKnown, SavedSearchesTypeOK
  <2>4. NewestListingIsExact'
    BY <1>6
    DEF StoreSearch, formVars, SearchesInv, NewestListingIsExact, CallsAreKnown,
        SavedSearchesTypeOK
  <2> QED
    BY <2>1, <2>2, <2>3, <2>4
    DEF SearchesInv, QuietSearchListIsExact, NewestListingIsExact
<1>7. CASE RemoveSearch
  BY <1>7
  DEF RemoveSearch, formVars, SearchesInv, SavedSearchesTypeOK, SaveReplacesItsOwn,
      QuietSearchListIsExact, CallsAreKnown, NewestListingIsExact
<1>8. CASE AnswerArrives
  BY <1>8, BeginningKeeps
  DEF AnswerArrives, OwnAnswer, formVars, SearchesInv, SavedSearchesTypeOK,
      SaveReplacesItsOwn,
      QuietSearchListIsExact, CallsAreKnown, NewestListingIsExact
<1>9. CASE SearchCallFails
  <2>1. SavedSearchesTypeOK'
    BY <1>9
    DEF SearchCallFails, Calling, formVars, SearchesInv, SavedSearchesTypeOK,
        CallsAreKnown
  <2>2. SaveReplacesItsOwn'
    BY <1>9 DEF SearchCallFails, Calling, formVars, SearchesInv, SaveReplacesItsOwn
  <2>3. CallsAreKnown'
    BY <1>9
    DEF SearchCallFails, Calling, formVars, SearchesInv, CallsAreKnown,
        SavedSearchesTypeOK
  <2>4. NewestListingIsExact'
    BY <1>9
    DEF SearchCallFails, Calling, formVars, SearchesInv, NewestListingIsExact,
        CallsAreKnown, SavedSearchesTypeOK
  <2> QED
    BY <2>1, <2>2, <2>3, <2>4
    DEF SearchesInv, QuietSearchListIsExact, NewestListingIsExact
<1>10. CASE \E r \in searchReads : ServeListing(r)
  <2> PICK r \in searchReads : ServeListing(r)
    BY <1>10
  <2>1. SavedSearchesTypeOK'
    BY DEF ServeListing, formVars, SearchesInv, SavedSearchesTypeOK, CallsAreKnown
  <2>2. SaveReplacesItsOwn'
    BY DEF ServeListing, formVars, SearchesInv, SaveReplacesItsOwn
  <2>3. CallsAreKnown'
    BY DEF ServeListing, formVars, SearchesInv, CallsAreKnown, SavedSearchesTypeOK
  <2>4. NewestListingIsExact'
    <3> DEFINE answer == [r EXCEPT !.answered = TRUE, !.list = searchStore]
    <3>1. /\ searchReads' = (searchReads \ {r}) \cup {answer}
          /\ answer.number = r.number /\ answer.list = searchStore
      BY DEF ServeListing, SearchesInv, CallsAreKnown
    <3>2. \A x \in searchReads' : (\A y \in searchReads' : y.number <= x.number)
            => x = answer \/ (x \in searchReads
                               /\ \A y \in searchReads : y.number <= x.number)
      <4> HIDE DEF answer
      <4> QED
        BY <3>1
    <3> HIDE DEF answer
    <3> QED
      BY <3>1, <3>2 DEF ServeListing, SearchesInv, NewestListingIsExact
  <2> QED
    BY <2>1, <2>2, <2>3, <2>4
    DEF SearchesInv, QuietSearchListIsExact, NewestListingIsExact
<1>11. CASE \E r \in searchReads : ListingArrives(r)
  BY <1>11
  DEF ListingArrives, Ended, formVars, SearchesInv, SavedSearchesTypeOK,
      SaveReplacesItsOwn,
      QuietSearchListIsExact, CallsAreKnown, NewestListingIsExact
<1>12. CASE \E r \in searchReads : ListingFails(r)
  <2> PICK r \in searchReads : ListingFails(r)
    BY <1>12
  <2>1. SavedSearchesTypeOK'
    BY
    DEF ListingFails, Ended, formVars, SearchesInv, SavedSearchesTypeOK,
        CallsAreKnown
  <2>2. SaveReplacesItsOwn'
    BY DEF ListingFails, Ended, formVars, SearchesInv, SaveReplacesItsOwn
  <2>3. CallsAreKnown'
    BY
    DEF ListingFails, Ended, formVars, SearchesInv, CallsAreKnown,
        SavedSearchesTypeOK
  <2>4. NewestListingIsExact'
    BY
    DEF ListingFails, Ended, formVars, SearchesInv, NewestListingIsExact,
        CallsAreKnown, SavedSearchesTypeOK
  <2> QED
    BY <2>1, <2>2, <2>3, <2>4
    DEF SearchesInv, QuietSearchListIsExact, NewestListingIsExact
<1>13. CASE UNCHANGED savedSearchVars
  BY <1>13
  DEF savedSearchVars, formVars, SearchesInv, SavedSearchesTypeOK, SaveReplacesItsOwn,
      QuietSearchListIsExact, CallsAreKnown, NewestListingIsExact
<1> QED
  BY <1>1, <1>2, <1>3, <1>4, <1>5, <1>6, <1>7, <1>8, <1>9, <1>10, <1>11, <1>12, <1>13
  DEF SavedSearchesNext

(* The list of saved searches is the server's once quiet, unless a listing *)
(* failed or came out of order, and a save replaces the search the form    *)
(* was opened from (NetworkTopology.tsx). *)
THEOREM SearchesInvariant == SavedSearchesSpec => []SearchesInv
  BY SearchesInitially, SearchesStep, PTL DEF SavedSearchesSpec

-----------------------------------------------------------------------------
(* A report as a JSON file. What an export wrote is the report it was made *)
(* from, with the notes, and what opens is in the form of now.             *)

(* What a file that is not refused becomes.                                *)
LEMMA NormalIsNormal ==
    ASSUME NEW file \in FileForms, ~FileRefused(file), NEW temporary \in FileReportIds
    PROVE  IsNormal(Normal(file, temporary)) /\ Seeded(Normal(file, temporary)) \in FileNotes
<1> DEFINE r == Normal(file, temporary)
           modules == NormalModules(file.modules)
<1>1. modules \in [FileSections -> BothNames(Lacking \cup Contents)]
      /\ \A s \in FileSections : modules[s].snake \in Contents /\ modules[s].camel = "absent"
  BY
  DEF NormalModules, FileForms, BothNames, First, ReadAs, EmptySection, Lacking,
      Contents
<1>2. ReadAs(First(file.id), temporary) \in FileReportIds
  BY DEF FileForms, BothNames, First, ReadAs, Lacking
<1>3. Missing(file.modules) \in SUBSET FileSections
  BY DEF Missing
<1>4. /\ r.version = [file.version EXCEPT !.snake = "2"]
      /\ r.id = [file.id EXCEPT !.snake = ReadAs(First(file.id), temporary)]
      /\ r.modules = modules /\ r.hasModules = file.hasModules /\ r.notes = file.notes
      /\ r.warnings = [missing |-> Missing(file.modules), id |-> First(file.id) = "absent"]
      /\ r.migrated \in BOOLEAN
  BY DEF Normal, FileForms
<1>5. r \in FileForms
  <2> HIDE DEF modules
  <2>1. r.version \in BothNames(Lacking \cup Versions) /\ r.version.snake = "2"
    BY <1>4 DEF FileForms, BothNames, Versions
  <2>2. r.id \in BothNames(Lacking \cup FileReportIds)
    BY <1>2, <1>4 DEF FileForms, BothNames
  <2>3. r.warnings \in [missing : SUBSET FileSections, id : BOOLEAN]
    BY <1>3, <1>4
  <2>4. r = [file EXCEPT !.version = r.version, !.id = r.id, !.modules = r.modules,
                         !.warnings = r.warnings, !.migrated = r.migrated]
    BY DEF Normal, FileForms
  <2> HIDE DEF r
  <2>5. file.hasModules \in BOOLEAN
        /\ file.notes \in BothNames({<<>>} \cup {<<held>> : held \in FileNotes})
    BY DEF FileForms
  <2> QED
    BY <1>1, <1>4, <2>1, <2>2, <2>3, <2>4, <2>5 DEF FileForms
<1>6. r.hasModules /\ r.id.snake \in FileReportIds /\ r.version.snake = "2"
  BY <1>2, <1>4 DEF FileRefused, FileForms, BothNames
<1>7. Seeded(r) \in FileNotes
  <2>1. r.notes \in BothNames({<<>>} \cup {<<held>> : held \in FileNotes})
    BY <1>4 DEF FileForms
  <2>2. r.notes.snake \in {<<>>} \cup {<<held>> : held \in FileNotes}
        /\ r.notes.camel \in {<<>>} \cup {<<held>> : held \in FileNotes}
    BY <2>1 DEF BothNames
  <2>3. NoFileNotes \in FileNotes
    BY DEF NoFileNotes, FileNotes
  <2> HIDE DEF r
  <2> QED
    BY <2>2, <2>3 DEF Seeded
<1> QED
  BY <1>1, <1>4, <1>5, <1>6, <1>7 DEF IsNormal

(* A report exported with its notes opens again as it was.                 *)
LEMMA FullFileOpens ==
    ASSUME NEW of, IsNormal(of), NEW held \in FileNotes, NEW temporary
    PROVE  LET file == [of EXCEPT !.notes.snake = <<held>>]
               again == Normal(file, temporary)
           IN  /\ file \in FileForms /\ file.hasModules /\ ~FileRefused(file)
               /\ again.id.snake = of.id.snake /\ again.modules = of.modules
               /\ Seeded(again) = held
               /\ ~again.migrated /\ again.warnings = [missing |-> {}, id |-> FALSE]
<1> DEFINE file == [of EXCEPT !.notes.snake = <<held>>]
           again == Normal(file, temporary)
<1>1. of \in FileForms /\ of.hasModules /\ of.id.snake \in FileReportIds
      /\ of.version.snake = "2"
      /\ \A s \in FileSections : of.modules[s].snake \in Contents
                                 /\ of.modules[s].camel = "absent"
  BY DEF IsNormal
<1>2. /\ file.version = of.version /\ file.id = of.id /\ file.modules = of.modules
      /\ file.hasModules = of.hasModules /\ file.warnings = of.warnings
      /\ file.migrated = of.migrated
      /\ file.notes = [of.notes EXCEPT !.snake = <<held>>]
  BY <1>1 DEF FileForms
<1>3. file \in FileForms
  <2>1. file.notes \in BothNames({<<>>} \cup {<<n>> : n \in FileNotes})
    BY <1>1, <1>2 DEF FileForms, BothNames
  <2>2. file = [of EXCEPT !.notes = file.notes]
    BY <1>1 DEF FileForms
  <2> HIDE DEF file
  <2> QED
    BY <1>1, <2>1, <2>2 DEF FileForms
<1>4. First(of.version) = "2" /\ Major(of) = "2" /\ Major(file) = "2"
  BY <1>1, <1>2 DEF First, Major, ReadAs
<1>5. file.hasModules /\ ~FileRefused(file)
  BY <1>1, <1>2, <1>4 DEF FileRefused
<1>6. First(of.id) = of.id.snake /\ of.id.snake \notin Lacking
  BY <1>1, FileIdsAssumption DEF First, Lacking
<1>7. NormalModules(of.modules) = of.modules
  <2>1. ASSUME NEW s \in FileSections
        PROVE  NormalModules(of.modules)[s] = of.modules[s]
    <3>1. of.modules[s] \in BothNames(Lacking \cup Contents)
      BY <1>1 DEF FileForms
    <3>2. of.modules[s] = [snake |-> of.modules[s].snake, camel |-> "absent"]
      BY <1>1, <3>1 DEF BothNames
    <3>3. ReadAs(First(of.modules[s]), EmptySection) = of.modules[s].snake
      BY <1>1 DEF First, ReadAs, Contents
    <3> QED
      BY <3>2, <3>3 DEF NormalModules
  <2> QED
    BY <1>1, <2>1 DEF NormalModules, FileForms
<1>8. Missing(of.modules) = {}
  BY <1>1 DEF Missing, Contents
<1>9. /\ again.id.snake = ReadAs(First(file.id), temporary)
      /\ again.modules = NormalModules(file.modules)
      /\ again.notes = file.notes
      /\ again.warnings = [missing |-> Missing(file.modules), id |-> First(file.id) = "absent"]
      /\ again.migrated = (Major(file) # "2" \/ file.version.snake = "absent")
  <2> HIDE DEF file
  <2> QED
    BY <1>3 DEF Normal, FileForms, BothNames
<1>10. Seeded(again) = held
  <2>1. again.notes.snake = <<held>>
    BY <1>1, <1>2, <1>9 DEF FileForms, BothNames
  <2> HIDE DEF again
  <2> QED
    BY <2>1 DEF Seeded
<1>11. again.id.snake = of.id.snake
  BY <1>2, <1>6, <1>9 DEF ReadAs, Lacking
<1>12. ~again.migrated /\ again.warnings = [missing |-> {}, id |-> FALSE]
  BY <1>1, <1>2, <1>4, <1>6, <1>8, <1>9 DEF Lacking
<1> QED
  BY <1>2, <1>3, <1>5, <1>7, <1>9, <1>10, <1>11, <1>12

FilesParts == FilesTypeOK /\ ExportsAreOwn

LEMMA PartsOfFilesInv == FilesParts => FilesInv
<1> SUFFICES ASSUME FilesParts PROVE FilesInv
  OBVIOUS
<1>1. ASSUME NEW e \in exports, ~e.file.hasModules PROVE FileRefused(e.file)
  BY <1>1 DEF FileRefused
<1>2. ASSUME NEW e \in exports, e.file.hasModules
      PROVE  /\ ~FileRefused(e.file)
             /\ LET again == Normal(e.file, TemporaryId(1))
                IN  /\ again.id.snake = e.of.id.snake /\ again.modules = e.of.modules
                    /\ Seeded(again) = e.notes
                    /\ ~again.migrated
                    /\ again.warnings = [missing |-> {}, id |-> FALSE]
  <2>1. /\ IsNormal(e.of) /\ e.notes \in FileNotes
        /\ e.file = [e.of EXCEPT !.notes.snake = <<e.notes>>]
    BY <1>2 DEF FilesParts, ExportsAreOwn
  <2> QED
    BY <2>1, FullFileOpens
<1> QED
  BY <1>1, <1>2 DEF FilesParts, FilesInv

LEMMA NextPartsOfFilesInv == FilesParts' => FilesInv'
  BY PartsOfFilesInv, PTL

LEMMA FilesInitially == FilesInit => FilesParts
<1> SUFFICES ASSUME FilesInit PROVE FilesParts
  OBVIOUS
<1>1. NoFileNotes \in FileNotes
  BY DEF NoFileNotes, FileNotes
<1> QED
  BY <1>1, FilesAssumption DEF FilesInit, FilesParts, FilesTypeOK, ExportsAreOwn

LEMMA FilesStep ==
    ASSUME FilesParts, [FilesNext]_fileVars
    PROVE  FilesParts'
<1>1. ASSUME NEW f \in SourceFiles \cup {e.file : e \in exports}, OpenFile(f)
      PROVE  FilesParts'
  <2>1. f \in FileForms
    BY SourcesAssumption DEF FilesParts, ExportsAreOwn
  <2>2. /\ fileOpens' \in 1..MaxFileOpens /\ fileSaves' = fileSaves
        /\ UNCHANGED <<storedNotes, inView, exports>>
    BY <1>1, FilesAssumption DEF OpenFile, FilesParts, FilesTypeOK
  <2>3. TemporaryId(fileOpens') \in FileReportIds
    BY <2>2 DEF FileReportIds
  <2>4. CASE FileRefused(f)
    BY <1>1, <2>2, <2>4 DEF OpenFile, FilesParts, FilesTypeOK, ExportsAreOwn
  <2>5. CASE ~FileRefused(f)
    <3> DEFINE report == Normal(f, TemporaryId(fileOpens'))
    <3>1. IsNormal(report) /\ Seeded(report) \in FileNotes
      BY <2>1, <2>3, <2>5, NormalIsNormal
    <3>2. /\ openReport' = <<report>>
          /\ screenNotes' = [k \in FileNoteKeys |-> Seeded(report)[k]
                                                 \/ storedNotes[report.id.snake][k]]
      BY <1>1, <2>5 DEF OpenFile
    <3> HIDE DEF report
    <3>3. screenNotes' \in FileNotes
      BY <3>2 DEF FileNotes
    <3>4. openReport' = <<openReport'[1]>> /\ IsNormal(openReport'[1])
      BY <3>1, <3>2
    <3> QED
      BY <2>2, <3>3, <3>4 DEF FilesParts, FilesTypeOK, ExportsAreOwn, IsNormal
  <2> QED
    BY <2>4, <2>5
<1>2. ASSUME NEW k \in FileNoteKeys, NEW on \in BOOLEAN, WriteNote(k, on)
      PROVE  FilesParts'
  <2>1. screenNotes' \in FileNotes
    BY <1>2 DEF WriteNote, FilesParts, FilesTypeOK, FileNotes
  <2>2. storedNotes' \in [FileReportIds -> FileNotes]
    <3>1. \A i \in FileReportIds : \A key \in FileNoteKeys : storedNotes[i][key] \in BOOLEAN
      BY DEF FilesParts, FilesTypeOK, FileNotes
    <3>2. [j \in FileNoteKeys |-> IF j[1] = k[1] THEN screenNotes'[j]
             ELSE storedNotes[openReport[1].id.snake][j]] \in FileNotes
      BY <1>2, <2>1, <3>1 DEF WriteNote, FilesParts, FilesTypeOK, IsNormal, FileNotes
    <3> QED
      BY <1>2, <3>2 DEF WriteNote, FilesParts, FilesTypeOK
  <2>3. fileSaves' \in 0..MaxFileNotes
    BY <1>2, FilesAssumption DEF WriteNote, FilesParts, FilesTypeOK
  <2> QED
    BY <1>2, <2>1, <2>2, <2>3
    DEF WriteNote, FilesParts, FilesTypeOK, ExportsAreOwn, IsNormal
<1>3. ASSUME NEW sections \in (SUBSET FileSections) \ {{}}, ChooseSections(sections)
      PROVE  FilesParts'
  BY <1>3 DEF ChooseSections, FilesParts, FilesTypeOK, ExportsAreOwn, IsNormal
<1>4. ASSUME openReport # <<>>, exports = {}, Download(FullFile) \/ Download(FilteredFile)
      PROVE  FilesParts'
  <2> DEFINE of == openReport[1]
  <2>1. IsNormal(of) /\ screenNotes \in FileNotes
    BY <1>4 DEF FilesParts, FilesTypeOK
  <2>2. PICK file : /\ file \in FileForms
                    /\ file.hasModules => file = [of EXCEPT !.notes.snake = <<screenNotes>>]
                    /\ Download(file)
    <3>1. CASE Download(FullFile)
      <4>1. FullFile \in FileForms
        BY <2>1, FullFileOpens DEF FullFile
      <4> QED
        BY <3>1, <4>1 DEF FullFile
    <3>2. CASE Download(FilteredFile)
      <4> DEFINE seen == [j \in FileNoteKeys |-> screenNotes[j] /\ j[2] \in inView]
                 remain == [s \in FileSections |->
                            IF s \in inView THEN of.modules[s]
                            ELSE [snake |-> "absent", camel |-> "absent"]]
      <4>1. of \in FileForms
        BY <2>1 DEF IsNormal
      <4>2. seen \in FileNotes /\ remain \in [FileSections -> BothNames(Lacking \cup Contents)]
        BY <4>1 DEF FileNotes, FileForms, BothNames, Lacking
      <4>3. FilteredFile = [of EXCEPT !.hasModules = FALSE, !.modules = remain,
                                      !.notes = [snake |-> <<seen>>, camel |-> <<>>]]
        BY DEF FilteredFile
      <4> HIDE DEF seen, remain
      <4>4. [snake |-> <<seen>>, camel |-> <<>>]
               \in BothNames({<<>>} \cup {<<held>> : held \in FileNotes})
        BY <4>2 DEF BothNames
      <4> HIDE DEF of
      <4>5. FilteredFile \in FileForms /\ ~FilteredFile.hasModules
        BY <4>1, <4>2, <4>3, <4>4 DEF FileForms
      <4> QED
        BY <3>2, <4>5
    <3> QED
      BY <1>4, <3>1, <3>2
  <2>3. exports' = {[file |-> file, of |-> of, notes |-> screenNotes]}
        /\ UNCHANGED <<openReport, screenNotes, storedNotes, inView, fileOpens, fileSaves>>
    BY <2>2 DEF Download
  <2> HIDE DEF of
  <2>4. ExportsAreOwn'
    BY <2>1, <2>2, <2>3 DEF ExportsAreOwn, IsNormal
  <2> QED
    BY <2>3, <2>4 DEF FilesParts, FilesTypeOK, IsNormal
<1>5. CASE UNCHANGED fileVars
  BY <1>5 DEF fileVars, FilesParts, FilesTypeOK, ExportsAreOwn, IsNormal
<1> QED
  BY <1>1, <1>2, <1>3, <1>4, <1>5 DEF FilesNext

(* A report exported in full opens again with the id, sections and notes   *)
(* it had on screen and without a warning, and a part of a report is       *)
(* refused, for any files, ids and sections (reportCompatibility.ts).      *)
THEOREM FilesInvariant == FilesSpec => []FilesInv
<1>1. FilesSpec => []FilesParts
  BY FilesInitially, FilesStep, PTL DEF FilesSpec
<1> QED
  BY <1>1, PartsOfFilesInv, PTL

-----------------------------------------------------------------------------
(* The profiles of a browser. A list that has been read has ids once and   *)
(* at most one profile with the default name, and another reading changes  *)
(* nothing of what it says. So DialogIsCurrent holds on the way through    *)
(* the selector and the editor; no copy of the dialog or the selector has  *)
(* a removed id.                                                           *)

DistinctIds(roll) == \A i, j \in DOMAIN roll : roll[i].id = roll[j].id => i = j
OneDefault(roll) == \A i, j \in DOMAIN roll :
                       roll[i].name = "default" /\ roll[j].name = "default" => i = j

LEMMA FilteredIs ==
    ASSUME NEW S, NEW s \in Seq(S), NEW fitted
    PROVE  \E f : /\ f[0] = <<>> /\ Filtered(s, fitted) = f[Len(s)]
                  /\ \A i \in 1..Len(s) :
                       f[i] = IF s[i] \in fitted THEN Append(f[i - 1], s[i]) ELSE f[i - 1]
<1> DEFINE Solves(f, k) == f = [i \in 0..k |->
                        IF i = 0 THEN <<>>
                        ELSE IF s[i] \in fitted THEN Append(f[i - 1], s[i]) ELSE f[i - 1]]
           Q == {k \in Nat : \E f : Solves(f, k)}
<1>1. 0 \in Q
  <2> DEFINE f == [i \in {0} |-> <<>>]
  <2>1. Solves(f, 0)
    OBVIOUS
  <2> QED
    BY <2>1
<1>2. ASSUME NEW k \in 0..(Len(s) - 1), k \in Q PROVE k + 1 \in Q
  <2>1. PICK f : Solves(f, k)
    BY <1>2
  <2> DEFINE g == [i \in 0..(k + 1) |-> IF i <= k THEN f[i]
                     ELSE IF s[i] \in fitted THEN Append(f[i - 1], s[i]) ELSE f[i - 1]]
  <2>2. \A i \in 0..(k + 1) : i # 0 => i - 1 \in 0..k
    OBVIOUS
  <2>3. \A i \in 0..k : g[i] = f[i]
    OBVIOUS
  <2>4. \A i \in 0..(k + 1) : g[i] = IF i = 0 THEN <<>>
                 ELSE IF s[i] \in fitted THEN Append(g[i - 1], s[i]) ELSE g[i - 1]
    <3> TAKE i \in 0..(k + 1)
    <3>1. CASE i \in 0..k
      <4>1. g[i] = f[i] /\ (i # 0 => g[i - 1] = f[i - 1])
        BY <2>2, <2>3, <3>1
      <4>2. f[i] = IF i = 0 THEN <<>>
                 ELSE IF s[i] \in fitted THEN Append(f[i - 1], s[i]) ELSE f[i - 1]
        <5> HIDE DEF g
        <5> QED BY <2>1, <3>1
      <4> QED
        <5> HIDE DEF g
        <5> QED BY <4>1, <4>2
    <3>2. CASE i = k + 1
      <4>1. g[i - 1] = f[i - 1] /\ i # 0
        BY <2>2, <2>3, <3>2
      <4>2. g[i] = IF s[i] \in fitted THEN Append(f[i - 1], s[i]) ELSE f[i - 1]
        BY <3>2
      <4> QED
        <5> HIDE DEF g
        <5> QED BY <4>1, <4>2
    <3> QED
      BY <3>1, <3>2
  <2>5. Solves(g, k + 1)
    <3>1. g = [i \in 0..(k + 1) |-> g[i]]
      OBVIOUS
    <3> HIDE DEF g
    <3> QED
      BY <3>1, <2>4
  <2>6. k + 1 \in Nat
    OBVIOUS
  <2> HIDE DEF g, Solves
  <2> QED
    BY <2>5, <2>6
<1>3. 0..Len(s) \subseteq Q
  <2>1. Len(s) \in Nat
    OBVIOUS
  <2> HIDE DEF Q
  <2> QED
    BY <2>1, <1>1, <1>2, Upward
<1> DEFINE front == CHOOSE f : Solves(f, Len(s))
<1>4. Solves(front, Len(s))
  <2>1. Len(s) \in Q
    BY <1>3
  <2>2. \E f : Solves(f, Len(s))
    <3> HIDE DEF Solves
    <3> QED
      BY <2>1
  <2> HIDE DEF Solves
  <2> QED
    BY <2>2
<1>5. Filtered(s, fitted) = front[Len(s)]
  BY DEF Filtered
<1> HIDE DEF front
<1>6. \A i \in 0..Len(s) : front[i] = IF i = 0 THEN <<>>
             ELSE IF s[i] \in fitted THEN Append(front[i - 1], s[i]) ELSE front[i - 1]
  BY <1>4
<1> HIDE DEF Solves
<1>7. front[0] = <<>>
  BY <1>6
<1> QED
  BY <1>5, <1>6, <1>7

(* Filtered keeps those others, each once, in the order of the list.       *)
LEMMA FilteredKeeps ==
    ASSUME NEW S, NEW s \in Seq(S), NEW fitted
    PROVE  /\ Filtered(s, fitted) \in Seq(S)
           /\ \E at \in [DOMAIN Filtered(s, fitted) -> DOMAIN s] :
                /\ \A i, j \in DOMAIN Filtered(s, fitted) : at[i] = at[j] => i = j
                /\ \A i \in DOMAIN Filtered(s, fitted) :
                     Filtered(s, fitted)[i] = s[at[i]] /\ s[at[i]] \in fitted
                /\ \A k \in DOMAIN s : s[k] \in fitted =>
                     \E i \in DOMAIN Filtered(s, fitted) : at[i] = k
<1>1. PICK f : /\ f[0] = <<>> /\ Filtered(s, fitted) = f[Len(s)]
               /\ \A i \in 1..Len(s) :
                    f[i] = IF s[i] \in fitted THEN Append(f[i - 1], s[i]) ELSE f[i - 1]
  BY FilteredIs
<1> DEFINE Maps(n, at) ==
             /\ \A i \in 1..Len(f[n]) : at[i] \in 1..n
             /\ \A i, j \in 1..Len(f[n]) : at[i] = at[j] => i = j
             /\ \A i \in 1..Len(f[n]) : f[n][i] = s[at[i]] /\ s[at[i]] \in fitted
             /\ \A k \in 1..n : s[k] \in fitted => \E i \in 1..Len(f[n]) : at[i] = k
           Q == {n \in 0..Len(s) : f[n] \in Seq(S) /\ \E at : Maps(n, at)}
<1>2. 0 \in Q
  <2>1. f[0] \in Seq(S) /\ Len(f[0]) = 0
    BY <1>1
  <2>2. Maps(0, <<>>)
    BY <2>1
  <2> QED
    BY <2>1, <2>2
<1>3. ASSUME NEW n \in 0..(Len(s) - 1), n \in Q PROVE n + 1 \in Q
  <2>1. PICK at : Maps(n, at)
    BY <1>3
  <2>2. f[n] \in Seq(S) /\ n + 1 \in 1..Len(s) /\ s[n + 1] \in S
    BY <1>3
  <2>3. f[n + 1] = IF s[n + 1] \in fitted THEN Append(f[n], s[n + 1]) ELSE f[n]
    BY <1>1, <2>2
  <2>4. CASE s[n + 1] \notin fitted
    <3>1. f[n + 1] = f[n]
      BY <2>3, <2>4
    <3>2. Maps(n + 1, at)
      BY <2>1, <2>2, <2>4, <3>1
    <3> QED
      BY <2>2, <3>1, <3>2
  <2>5. CASE s[n + 1] \in fitted
    <3> DEFINE to == [i \in 1..(Len(f[n]) + 1) |-> IF i = Len(f[n]) + 1 THEN n + 1 ELSE at[i]]
    <3>1. /\ f[n + 1] \in Seq(S) /\ Len(f[n]) \in Nat /\ Len(f[n + 1]) = Len(f[n]) + 1
          /\ \A i \in 1..Len(f[n]) : f[n + 1][i] = f[n][i]
          /\ f[n + 1][Len(f[n]) + 1] = s[n + 1]
      <4>1. f[n + 1] = Append(f[n], s[n + 1])
        BY <2>3, <2>5
      <4> QED
        BY <2>2, <4>1
    <3>2. /\ \A i \in 1..Len(f[n]) : to[i] = at[i] /\ at[i] \in 1..n
          /\ to[Len(f[n]) + 1] = n + 1
      BY <2>1, <3>1
    <3> HIDE DEF to
    <3>3. \A i \in 1..Len(f[n + 1]) : i \in 1..Len(f[n]) \/ i = Len(f[n]) + 1
      BY <3>1
    <3>4. \A i \in 1..Len(f[n + 1]) : to[i] \in 1..(n + 1)
      BY <3>2, <3>3
    <3>5. \A i, j \in 1..Len(f[n + 1]) : to[i] = to[j] => i = j
      <4> TAKE i, j \in 1..Len(f[n + 1])
      <4>1. CASE i \in 1..Len(f[n]) /\ j \in 1..Len(f[n])
        BY <2>1, <3>2, <4>1
      <4>2. CASE i = Len(f[n]) + 1 \/ j = Len(f[n]) + 1
        BY <3>2, <3>3, <4>2
      <4> QED
        BY <3>3, <4>1, <4>2
    <3>6. \A i \in 1..Len(f[n + 1]) : f[n + 1][i] = s[to[i]] /\ s[to[i]] \in fitted
      BY <2>1, <2>5, <3>1, <3>2, <3>3
    <3>7. \A k \in 1..(n + 1) : s[k] \in fitted => \E i \in 1..Len(f[n + 1]) : to[i] = k
      <4> TAKE k \in 1..(n + 1)
      <4>1. CASE k = n + 1
        BY <3>1, <3>2, <4>1
      <4>2. CASE k \in 1..n /\ s[k] \in fitted
        <5>1. PICK i \in 1..Len(f[n]) : at[i] = k
          BY <2>1, <4>2
        <5> QED
          BY <3>1, <3>2, <5>1
      <4> QED
        BY <4>1, <4>2, <2>2
    <3>8. Maps(n + 1, to)
      BY <3>4, <3>5, <3>6, <3>7
    <3>9. n + 1 \in 0..Len(s)
      OBVIOUS
    <3> HIDE DEF Maps
    <3> QED
      BY <3>1, <3>8, <3>9
  <2> QED
    BY <2>4, <2>5
<1>4. Len(s) \in Q
  <2>1. 0..Len(s) \subseteq Q
    <3> HIDE DEF Q
    <3> QED
      BY <1>2, <1>3, Upward
  <2> QED
    BY <2>1
<1>5. PICK at : Maps(Len(s), at)
  BY <1>4
<1>6. f[Len(s)] \in Seq(S) /\ DOMAIN f[Len(s)] = 1..Len(f[Len(s)]) /\ DOMAIN s = 1..Len(s)
  BY <1>4
<1> DEFINE to == [i \in DOMAIN f[Len(s)] |-> at[i]]
<1>7. to \in [DOMAIN f[Len(s)] -> DOMAIN s] /\ \A i \in DOMAIN f[Len(s)] : to[i] = at[i]
  BY <1>5, <1>6
<1> HIDE DEF to
<1>8. /\ \A i, j \in DOMAIN f[Len(s)] : to[i] = to[j] => i = j
      /\ \A i \in DOMAIN f[Len(s)] : f[Len(s)][i] = s[to[i]] /\ s[to[i]] \in fitted
      /\ \A k \in DOMAIN s : s[k] \in fitted => \E i \in DOMAIN f[Len(s)] : to[i] = k
  BY <1>5, <1>6, <1>7
<1> QED
  BY <1>1, <1>6, <1>7, <1>8

(* A set without two members.                                              *)
LEMMA AtMostOne ==
    ASSUME NEW T, IsFiniteSet(T)
    PROVE  Cardinality(T) <= 1 <=> \A i, j \in T : i = j
<1>1. ASSUME Cardinality(T) <= 1, NEW i \in T, NEW j \in T, i # j PROVE FALSE
  <2>1. /\ IsFiniteSet(T \ {i}) /\ Cardinality(T \ {i}) = Cardinality(T) - 1
        /\ Cardinality(T) \in Nat /\ Cardinality(T \ {i}) \in Nat
    BY FS_RemoveElement, FS_CardinalityType
  <2>2. Cardinality(T \ {i}) = 0
    BY <1>1, <2>1
  <2>3. T \ {i} = {}
    BY <2>1, <2>2, FS_EmptySet
  <2> QED
    BY <1>1, <2>3
<1>2. ASSUME \A i, j \in T : i = j PROVE Cardinality(T) <= 1
  <2>1. CASE T = {}
    BY <2>1, FS_EmptySet
  <2>2. CASE T # {}
    <3>1. PICK i \in T : TRUE
      BY <2>2
    <3>2. T = {i}
      BY <1>2, <3>1
    <3> QED
      BY <3>2, FS_Singleton
  <2> QED
    BY <2>1, <2>2
<1> QED
  BY <1>1, <1>2

(* Filtered keeps a list all of which is others as it is.                  *)
LEMMA FilteredAll ==
    ASSUME NEW S, NEW s \in Seq(S), NEW fitted, \A i \in DOMAIN s : s[i] \in fitted
    PROVE  Filtered(s, fitted) = s
<1>1. PICK f : /\ f[0] = <<>> /\ Filtered(s, fitted) = f[Len(s)]
               /\ \A i \in 1..Len(s) :
                    f[i] = IF s[i] \in fitted THEN Append(f[i - 1], s[i]) ELSE f[i - 1]
  BY FilteredIs
<1> DEFINE Q == {n \in 0..Len(s) : /\ f[n] \in Seq(S) /\ Len(f[n]) = n
                                   /\ \A i \in 1..n : f[n][i] = s[i]}
<1>2. 0 \in Q
  <2>1. f[0] \in Seq(S) /\ Len(f[0]) = 0
    BY <1>1
  <2> QED
    BY <2>1
<1>3. ASSUME NEW n \in 0..(Len(s) - 1), n \in Q PROVE n + 1 \in Q
  <2>1. n + 1 \in 1..Len(s) /\ s[n + 1] \in S /\ s[n + 1] \in fitted /\ n + 1 \in 0..Len(s)
    BY <1>3
  <2>2. f[n + 1] = Append(f[n], s[n + 1])
    <3>1. (n + 1) - 1 = n
      OBVIOUS
    <3> QED
      BY <1>1, <2>1, <3>1
  <2>3. f[n] \in Seq(S) /\ Len(f[n]) = n /\ \A i \in 1..n : f[n][i] = s[i]
    BY <1>3
  <2>4. f[n + 1] \in Seq(S) /\ Len(f[n + 1]) = n + 1
        /\ \A i \in 1..(n + 1) : f[n + 1][i] = s[i]
    BY <2>1, <2>2, <2>3
  <2> QED
    BY <2>1, <2>4
<1>4. Len(s) \in Q
  <2>1. 0..Len(s) \subseteq Q
    <3> HIDE DEF Q
    <3> QED
      BY <1>2, <1>3, Upward
  <2> QED
    BY <2>1
<1>5. f[Len(s)] \in Seq(S) /\ Len(f[Len(s)]) = Len(s) /\ \A i \in 1..Len(s) : f[Len(s)][i] = s[i]
  BY <1>4
<1>6. f[Len(s)] = s
  BY <1>5
<1> QED
  BY <1>1, <1>6

(* Positions of a list have a first.                                       *)
LEMMA EarliestIs ==
    ASSUME NEW n \in Nat, NEW some \in SUBSET (1..n), some # {}
    PROVE  Earliest(some) \in some /\ \A j \in some : Earliest(some) <= j
<1>1. some \in SUBSET (0..n)
  OBVIOUS
<1>2. Min(some) \in some /\ \A j \in some : Min(some) <= j
  BY <1>1, MinIsLeast
<1>3. \E i \in some : \A j \in some : i <= j
  BY <1>2
<1> QED
  BY <1>3 DEF Earliest

(* The first profile with an id is one of the list, with that id.          *)
LEMMA WithIdIsFound ==
    ASSUME NEW roll \in Seq(Profile), NEW id \in IdsOf(roll)
    PROVE  /\ \E i \in DOMAIN roll : WithId(roll, id) = roll[i]
           /\ WithId(roll, id) \in Profile /\ WithId(roll, id).id = id
<1> DEFINE some == {i \in DOMAIN roll : roll[i].id = id}
<1>1. Len(roll) \in Nat /\ some \in SUBSET (1..Len(roll)) /\ some # {}
  BY DEF IdsOf
<1>2. Earliest(some) \in some
  <2> HIDE DEF some
  <2> QED
    BY <1>1, EarliestIs
<1>3. WithId(roll, id) = roll[Earliest(some)]
  BY DEF WithId
<1> DEFINE first == Earliest(some)
<1>4. first \in DOMAIN roll /\ roll[first].id = id /\ WithId(roll, id) = roll[first]
  BY <1>2, <1>3
<1> HIDE DEF first
<1> QED
  BY <1>4

(* Filtered profiles: those with an id of their own keep it.               *)
LEMMA FilteredList ==
    ASSUME NEW roll \in Seq(Profile), NEW fitted
    PROVE  /\ Filtered(roll, fitted) \in Seq(Profile)
           /\ \A i \in DOMAIN Filtered(roll, fitted) :
                /\ Filtered(roll, fitted)[i] \in fitted
                /\ \E k \in DOMAIN roll : Filtered(roll, fitted)[i] = roll[k]
           /\ \A k \in DOMAIN roll : roll[k] \in fitted =>
                \E i \in DOMAIN Filtered(roll, fitted) : Filtered(roll, fitted)[i] = roll[k]
           /\ DistinctIds(roll) => DistinctIds(Filtered(roll, fitted))
<1> DEFINE some == Filtered(roll, fitted)
<1>1. some \in Seq(Profile)
  BY FilteredKeeps
<1>2. PICK at \in [DOMAIN some -> DOMAIN roll] :
        /\ \A i, j \in DOMAIN some : at[i] = at[j] => i = j
        /\ \A i \in DOMAIN some : some[i] = roll[at[i]] /\ roll[at[i]] \in fitted
        /\ \A k \in DOMAIN roll : roll[k] \in fitted => \E i \in DOMAIN some : at[i] = k
  BY FilteredKeeps
<1> HIDE DEF some
<1>3. \A i \in DOMAIN some : some[i] \in fitted /\ \E k \in DOMAIN roll : some[i] = roll[k]
  BY <1>2
<1>4. \A k \in DOMAIN roll : roll[k] \in fitted => \E i \in DOMAIN some : some[i] = roll[k]
  BY <1>2
<1>5. DistinctIds(roll) => DistinctIds(some)
  BY <1>2 DEF DistinctIds
<1> QED
  BY <1>1, <1>3, <1>4, <1>5 DEF some

(* Of two copies that say the same, a recovery makes two that do, with the *)
(* same ids and names; there is nothing more to recover.                   *)
LEMMA RecoverKeeps ==
    ASSUME legacy \in Seq(Profile), NEW p \in Profile
    PROVE  /\ Recover(p) \in Profile
           /\ Recover(p).id = p.id /\ Recover(p).name = p.name
           /\ Recover(Recover(p)) = Recover(p)
           /\ \A q \in Profile : Copied(q) = Copied(p) => Copied(Recover(q)) = Copied(Recover(p))
<1> DEFINE Twin(q) == {i \in DOMAIN legacy : legacy[i].id = q.id}
           Alike(q) == {i \in DOMAIN legacy : legacy[i].name = q.name}
           Old(q) == IF Twin(q) # {} THEN Twin(q)
                     ELSE IF Cardinality(Alike(q)) = 1 THEN Alike(q) ELSE {}
           New(q) == IF Old(q) # {} /\ q.role = "unknown"
                     THEN [q EXCEPT !.role = legacy[Earliest(Old(q))].role] ELSE q
<1>1. \A q : Recover(q) = New(q)
  BY DEF Recover
<1>2. \A q, r \in Profile : (q.id = r.id /\ q.name = r.name) => Old(q) = Old(r)
  OBVIOUS
<1>3. \A q \in Profile : Old(q) # {} => legacy[Earliest(Old(q))] \in Profile
  <2> SUFFICES ASSUME NEW q \in Profile, Old(q) # {}
               PROVE  legacy[Earliest(Old(q))] \in Profile
    OBVIOUS
  <2>1. /\ Len(legacy) \in Nat /\ Old(q) \in SUBSET (1..Len(legacy))
        /\ DOMAIN legacy = 1..Len(legacy)
    OBVIOUS
  <2> HIDE DEF Old
  <2>2. Earliest(Old(q)) \in DOMAIN legacy
    BY <2>1, EarliestIs
  <2> QED
    BY <2>2
<1> HIDE DEF Old
<1>4. \A q \in Profile : /\ New(q) \in Profile /\ New(q).id = q.id /\ New(q).name = q.name
                         /\ New(q).modules = q.modules
                         /\ New(q).role = IF Old(q) # {} /\ q.role = "unknown"
                                          THEN legacy[Earliest(Old(q))].role ELSE q.role
  BY <1>3 DEF Profile
<1>5. New(New(p)) = New(p)
  <2> DEFINE r == New(p)
  <2>1. r \in Profile /\ Old(r) = Old(p)
    BY <1>2, <1>4
  <2>2. CASE Old(p) # {} /\ r.role = "unknown"
    <3>1. r.role = legacy[Earliest(Old(r))].role
      BY <1>4, <2>1, <2>2
    <3>2. New(r) = [r EXCEPT !.role = r.role]
      <4> HIDE DEF r
      <4> QED BY <2>1, <2>2, <3>1
    <3> HIDE DEF r, New
    <3> QED
      BY <2>1, <3>2 DEF Profile, r
  <2>3. CASE ~(Old(p) # {} /\ r.role = "unknown")
    <3> HIDE DEF r
    <3>1. New(r) = r
      BY <2>1, <2>3
    <3> HIDE DEF New
    <3> QED
      BY <3>1 DEF r
  <2> QED
    BY <2>2, <2>3
<1>6. ASSUME NEW q \in Profile, Copied(q) = Copied(p) PROVE Copied(New(q)) = Copied(New(p))
  <2>1. q.id = p.id /\ q.name = p.name /\ q.role = p.role /\ q.modules = p.modules
    BY <1>6 DEF Copied, Profile
  <2>2. Old(q) = Old(p)
    BY <1>2, <2>1
  <2>3. /\ New(q).id = New(p).id /\ New(q).name = New(p).name
        /\ New(q).role = New(p).role /\ New(q).modules = New(p).modules
    BY <1>4, <2>1, <2>2
  <2>4. New(q) \in Profile /\ New(p) \in Profile
    BY <1>4
  <2> HIDE DEF New
  <2> QED
    BY <2>3, <2>4 DEF Copied, Profile
<1> HIDE DEF New
<1> QED
  BY <1>1, <1>4, <1>5, <1>6

(* A migration takes the older profiles, or keeps ids and names and what   *)
(* the list says.                                                          *)
LEMMA MigrateKeeps ==
    ASSUME legacy \in Seq(Profile), NEW roll \in Seq(Profile)
    PROVE  /\ Migrate(roll) \in Seq(Profile)
           /\ roll = <<>> => Migrate(roll) = legacy
           /\ roll # <<>> =>
                /\ DOMAIN Migrate(roll) = DOMAIN roll
                /\ \A i \in DOMAIN roll : /\ Migrate(roll)[i] = Recover(roll[i])
                                          /\ Migrate(roll)[i].id = roll[i].id
                                          /\ Migrate(roll)[i].name = roll[i].name
                /\ ContentOf(Migrate(roll)) = ContentOf(roll)
                /\ DistinctIds(roll) => DistinctIds(Migrate(roll))
                /\ OneDefault(roll) => OneDefault(Migrate(roll))
                /\ IdsOf(Migrate(roll)) = IdsOf(roll)
<1>1. CASE roll = <<>>
  BY <1>1 DEF Migrate
<1>2. CASE roll # <<>>
  <2>1. /\ Migrate(roll) = [i \in DOMAIN roll |-> Recover(roll[i])]
        /\ DOMAIN roll = 1..Len(roll) /\ Len(roll) \in Nat
        /\ \A i \in DOMAIN roll : roll[i] \in Profile
    BY <1>2 DEF Migrate
  <2>2. \A i \in DOMAIN roll :
          /\ Recover(roll[i]) \in Profile
          /\ Recover(roll[i]).id = roll[i].id /\ Recover(roll[i]).name = roll[i].name
          /\ Recover(Recover(roll[i])) = Recover(roll[i])
    BY <2>1, RecoverKeeps
  <2>3. DOMAIN Migrate(roll) = DOMAIN roll
        /\ \A i \in DOMAIN roll : Migrate(roll)[i] = Recover(roll[i])
    BY <2>1
  <2>4. Migrate(roll) \in Seq(Profile)
    <3>1. Migrate(roll) \in [1..Len(roll) -> Profile]
      BY <2>1, <2>2
    <3> QED
      BY <2>1, <3>1, SeqDef
  <2>5. ContentOf(Migrate(roll)) = ContentOf(roll)
    BY <2>2, <2>3 DEF ContentOf
  <2>6. IdsOf(Migrate(roll)) = IdsOf(roll)
    BY <2>2, <2>3 DEF IdsOf
  <2>7. /\ DistinctIds(roll) => DistinctIds(Migrate(roll))
        /\ OneDefault(roll) => OneDefault(Migrate(roll))
    BY <2>2, <2>3 DEF DistinctIds, OneDefault
  <2> QED
    BY <1>2, <2>2, <2>3, <2>4, <2>5, <2>6, <2>7
<1> QED
  BY <1>1, <1>2

(* The newest of some profiles is one of them.                             *)
LEMMA NewestIs ==
    ASSUME NEW roll \in Seq(Profile), NEW some \in SUBSET DOMAIN roll, some # {}
    PROVE  \E i \in some : Newest(roll, some) = roll[i]
<1> DEFINE Times == {roll[i].at : i \in some}
           late == {i \in some : \A j \in some : roll[j].at <= roll[i].at}
<1>1. MaxSaves \in Nat /\ Times \in SUBSET (0..MaxSaves) /\ Times # {}
  <2>1. \A i \in some : roll[i] \in Profile
    OBVIOUS
  <2>2. \A i \in some : roll[i].at \in 0..MaxSaves
    BY <2>1 DEF Profile
  <2> QED
    BY <2>2, SavesAssumption
<1>2. Max(Times) \in Times /\ \A y \in Times : Max(Times) >= y
  <2> HIDE DEF Times
  <2> QED
    BY <1>1, MaxIsGreatest
<1>3. PICK i \in some : roll[i].at = Max(Times)
  BY <1>2
<1>4. \A j \in some : roll[j].at \in Times /\ roll[j].at \in Int /\ roll[i].at \in Int
  BY <1>1, <1>3
<1>5. \A j \in some : roll[j].at <= roll[i].at
  <2> HIDE DEF Times
  <2> QED
    BY <1>2, <1>3, <1>4
<1>6. late # {} /\ late \in SUBSET (1..Len(roll)) /\ Len(roll) \in Nat
  BY <1>5
<1>7. Earliest(late) \in late
  <2> HIDE DEF late
  <2> QED
    BY <1>6, EarliestIs
<1>8. Newest(roll, some) = roll[Earliest(late)]
  BY DEF Newest
<1> DEFINE first == Earliest(late)
<1>9. first \in some /\ Newest(roll, some) = roll[first]
  BY <1>7, <1>8
<1> HIDE DEF first
<1> QED
  BY <1>9

(* The same of a list of places.                                           *)
LEMMA FilteredPlaces ==
    ASSUME NEW n \in Nat, NEW places \in Seq(1..n), Len(places) = n,
           \A k \in 1..n : places[k] = k,
           NEW fitted \in SUBSET (1..n)
    PROVE  /\ Filtered(places, fitted) \in Seq(1..n)
           /\ \A i \in DOMAIN Filtered(places, fitted) : Filtered(places, fitted)[i] \in fitted
           /\ \A i, j \in DOMAIN Filtered(places, fitted) :
                Filtered(places, fitted)[i] = Filtered(places, fitted)[j] => i = j
           /\ \A k \in fitted :
                \E i \in DOMAIN Filtered(places, fitted) : Filtered(places, fitted)[i] = k
<1> DEFINE S == 1..n
           some == Filtered(places, fitted)
<1>1. places \in Seq(S) /\ DOMAIN places = 1..n
  OBVIOUS
<1>2. \A k \in fitted : k \in 1..n
  OBVIOUS
<1> HIDE DEF S
<1>3. some \in Seq(S)
  BY <1>1, FilteredKeeps
<1>4. PICK at \in [DOMAIN some -> DOMAIN places] :
        /\ \A i, j \in DOMAIN some : at[i] = at[j] => i = j
        /\ \A i \in DOMAIN some : some[i] = places[at[i]] /\ places[at[i]] \in fitted
        /\ \A k \in DOMAIN places : places[k] \in fitted => \E i \in DOMAIN some : at[i] = k
  BY <1>1, FilteredKeeps
<1> HIDE DEF some
<1>5. \A i \in DOMAIN some : at[i] \in 1..n /\ some[i] = at[i]
  BY <1>1, <1>4
<1>6. \A i \in DOMAIN some : some[i] \in fitted
  BY <1>4
<1>7. \A i, j \in DOMAIN some : some[i] = some[j] => i = j
  BY <1>4, <1>5
<1>8. \A k \in fitted : \E i \in DOMAIN some : some[i] = k
  BY <1>1, <1>2, <1>4, <1>5
<1> QED
  BY <1>3, <1>6, <1>7, <1>8 DEF some, S

(* The profiles of a list by id: a list without duplicates stays as it is. *)
LEMMA UniqueKeeps ==
    ASSUME NEW roll \in Seq(Profile)
    PROVE  /\ Unique(roll) \in Seq(Profile) /\ DistinctIds(Unique(roll))
           /\ \A n \in DOMAIN Unique(roll) : \E k \in DOMAIN roll : Unique(roll)[n] = roll[k]
           /\ IdsOf(Unique(roll)) = IdsOf(roll)
           /\ DistinctIds(roll) => Unique(roll) = roll
<1> DEFINE places == [i \in DOMAIN roll |-> i]
           fitted == {i \in DOMAIN roll : \A j \in 1..(i - 1) : roll[j].id # roll[i].id}
           firsts == Filtered(places, fitted)
           Like(k) == {i \in DOMAIN roll : roll[i].id = roll[k].id}
           some == Unique(roll)
<1>1. /\ DOMAIN roll = 1..Len(roll) /\ Len(roll) \in Nat
      /\ \A i \in DOMAIN roll : roll[i] \in Profile
  OBVIOUS
<1>2. some = [n \in DOMAIN firsts |-> Newest(roll, Like(firsts[n]))]
  BY DEF Unique
<1>3. /\ DOMAIN places = 1..Len(roll) /\ Len(places) = Len(roll)
      /\ places \in Seq(1..Len(roll)) /\ \A k \in DOMAIN places : places[k] = k
  <2>1. places \in [1..Len(roll) -> 1..Len(roll)]
    BY <1>1
  <2>2. places \in Seq(1..Len(roll))
    BY <1>1, <2>1, SeqDef
  <2> QED
    BY <1>1, <2>1, <2>2
<1> HIDE DEF places
<1>4. fitted \in SUBSET (1..Len(roll))
  BY <1>1
<1>5. /\ firsts \in Seq(1..Len(roll))
      /\ \A i, j \in DOMAIN firsts : firsts[i] = firsts[j] => i = j
      /\ \A i \in DOMAIN firsts : firsts[i] \in fitted
      /\ \A k \in fitted : \E i \in DOMAIN firsts : firsts[i] = k
  <2> DEFINE N == Len(roll)
  <2>1. /\ N \in Nat /\ places \in Seq(1..N) /\ Len(places) = N /\ fitted \in SUBSET (1..N)
        /\ \A k \in 1..N : places[k] = k
    BY <1>1, <1>3, <1>4
  <2> HIDE DEF fitted, N
  <2>2. /\ Filtered(places, fitted) \in Seq(1..N)
        /\ \A i \in DOMAIN Filtered(places, fitted) : Filtered(places, fitted)[i] \in fitted
        /\ \A i, j \in DOMAIN Filtered(places, fitted) :
             Filtered(places, fitted)[i] = Filtered(places, fitted)[j] => i = j
        /\ \A k \in fitted :
             \E i \in DOMAIN Filtered(places, fitted) : Filtered(places, fitted)[i] = k
    BY <2>1, FilteredPlaces
  <2> QED
    BY <2>2 DEF N
<1>7. \A k \in DOMAIN roll : \E i \in Like(k) : Newest(roll, Like(k)) = roll[i]
  <2> TAKE k \in DOMAIN roll
  <2>1. Like(k) \in SUBSET DOMAIN roll /\ Like(k) # {}
    OBVIOUS
  <2> HIDE DEF Like
  <2> QED
    BY <2>1, NewestIs
<1>8. /\ DOMAIN firsts = 1..Len(firsts) /\ Len(firsts) \in Nat
      /\ \A n \in DOMAIN firsts : firsts[n] \in DOMAIN roll
  <2> HIDE DEF firsts
  <2> QED
    BY <1>1, <1>5
<1>9. /\ \A k \in fitted : k \in DOMAIN roll
      /\ \A i, k \in fitted : roll[i].id = roll[k].id => i = k
  <2> SUFFICES ASSUME NEW i \in fitted, NEW k \in fitted, roll[i].id = roll[k].id PROVE i = k
    OBVIOUS
  <2>1. i \in 1..Len(roll) /\ k \in 1..Len(roll)
    BY <1>1
  <2>2. i < k => i \in 1..(k - 1)
    BY <2>1
  <2>3. k < i => k \in 1..(i - 1)
    BY <2>1
  <2> QED
    BY <2>1, <2>2, <2>3
<1> HIDE DEF firsts
<1>10. /\ DOMAIN some = DOMAIN firsts
       /\ \A n \in DOMAIN some : some[n] = Newest(roll, Like(firsts[n]))
  BY <1>2
<1>11. \A n \in DOMAIN some : \E k \in DOMAIN roll : some[n] = roll[k]
                                                     /\ roll[k].id = roll[firsts[n]].id
  BY <1>7, <1>8, <1>10
<1>12. \A n \in DOMAIN some : some[n] \in Profile /\ some[n].id = roll[firsts[n]].id
  BY <1>1, <1>11
<1>13. some \in Seq(Profile)
  <2>1. some \in [1..Len(firsts) -> Profile]
    BY <1>2, <1>8, <1>10, <1>12
  <2> QED
    BY <1>8, <2>1, SeqDef
<1> HIDE DEF some
<1>14. DistinctIds(some)
  <2> SUFFICES ASSUME NEW i \in DOMAIN some, NEW j \in DOMAIN some, some[i].id = some[j].id
               PROVE  i = j
    BY DEF DistinctIds
  <2>1. firsts[i] = firsts[j]
    <3> HIDE DEF fitted
    <3>1. firsts[i] \in fitted /\ firsts[j] \in fitted
      BY <1>5, <1>10
    <3>2. roll[firsts[i]].id = roll[firsts[j]].id
      BY <1>12
    <3> QED
      BY <1>9, <3>1, <3>2
  <2> HIDE DEF fitted
  <2> QED
    BY <1>5, <1>10, <2>1
<1>15. \A k \in DOMAIN roll : \E i \in fitted : roll[i].id = roll[k].id
  <2> TAKE k \in DOMAIN roll
  <2>1. /\ Like(k) \in SUBSET (1..Len(roll)) /\ Like(k) # {}
        /\ \A i \in DOMAIN roll : i \in Like(k) <=> roll[i].id = roll[k].id
    BY <1>1
  <2> DEFINE first == Earliest(Like(k))
  <2>2. first \in Like(k) /\ \A j \in Like(k) : first <= j
    <3> HIDE DEF Like
    <3> QED
      BY <1>1, <2>1, EarliestIs
  <2> HIDE DEF first, Like
  <2>3. first \in DOMAIN roll /\ first \in 1..Len(roll) /\ roll[first].id = roll[k].id
    BY <1>1, <2>1, <2>2
  <2>4. ASSUME NEW j \in 1..(first - 1), roll[j].id = roll[first].id PROVE FALSE
    <3>1. j \in DOMAIN roll /\ j < first
      BY <1>1, <2>3
    <3>2. j \in Like(k)
      BY <2>1, <2>3, <2>4, <3>1
    <3>3. first <= j /\ first \in Int /\ j \in Int
      BY <2>2, <2>3, <3>2
    <3> QED
      BY <3>1, <3>3
  <2>5. first \in fitted
    BY <2>3, <2>4
  <2> QED
    BY <2>3, <2>5
<1>16. IdsOf(some) = IdsOf(roll)
  <2>1. \A n \in DOMAIN some : some[n].id \in IdsOf(roll)
    BY <1>8, <1>10, <1>12 DEF IdsOf
  <2>2. \A k \in DOMAIN roll : roll[k].id \in IdsOf(some)
    <3> TAKE k \in DOMAIN roll
    <3>1. PICK i \in fitted : roll[i].id = roll[k].id
      BY <1>15
    <3>2. PICK n \in DOMAIN firsts : firsts[n] = i
      BY <1>5
    <3> QED
      BY <1>10, <1>12, <3>1, <3>2 DEF IdsOf
  <2> QED
    BY <2>1, <2>2 DEF IdsOf
<1>17. ASSUME DistinctIds(roll) PROVE some = roll
  <2>1. \A k \in DOMAIN places : places[k] \in fitted
    <3>1. \A k \in DOMAIN roll : k \in fitted
      <4> SUFFICES ASSUME NEW k \in DOMAIN roll, NEW j \in 1..(k - 1) PROVE roll[j].id # roll[k].id
        OBVIOUS
      <4>1. j \in DOMAIN roll /\ j # k
        BY <1>1
      <4> QED
        BY <1>17, <4>1 DEF DistinctIds
    <3> QED
      BY <1>1, <1>3, <3>1
  <2>2. firsts = places
    <3> DEFINE S == 1..Len(roll)
    <3>1. places \in Seq(S)
      BY <1>3
    <3> HIDE DEF fitted, S
    <3>2. Filtered(places, fitted) = places
      BY <2>1, <3>1, FilteredAll
    <3> QED
      BY <3>2 DEF firsts
  <2>3. DOMAIN some = DOMAIN roll /\ \A n \in DOMAIN roll : firsts[n] = n
    BY <1>1, <1>3, <1>10, <2>2
  <2>4. \A n \in DOMAIN roll : some[n] = roll[n]
    <3> TAKE n \in DOMAIN roll
    <3>1. PICK i \in DOMAIN roll : some[n] = roll[i] /\ roll[i].id = roll[n].id
      BY <1>11, <2>3
    <3> QED
      BY <1>17, <3>1 DEF DistinctIds
  <2> QED
    BY <1>1, <1>13, <2>3, <2>4
<1> QED
  BY <1>11, <1>13, <1>14, <1>16, <1>17 DEF some

(* Of the profiles of a list those with a name of their own stay, and one  *)
(* with the default name: the active one if it has it.                     *)
LEMMA DedupeKeeps ==
    ASSUME NEW roll \in Seq(Profile), NEW current
    PROVE  /\ Dedupe(roll, current) \in Seq(Profile)
           /\ DistinctIds(Dedupe(roll, current)) /\ OneDefault(Dedupe(roll, current))
           /\ \A n \in DOMAIN Dedupe(roll, current) :
                \E k \in DOMAIN roll : Dedupe(roll, current)[n] = roll[k]
           /\ roll # <<>> => Dedupe(roll, current) # <<>>
           /\ current \in IdsOf(roll) => current \in IdsOf(Dedupe(roll, current))
           /\ DistinctIds(roll) => \A k \in DOMAIN roll :
                \/ roll[k].id \in IdsOf(Dedupe(roll, current))
                \/ /\ roll[k].name = "default"
                   /\ \E n \in DOMAIN Dedupe(roll, current) :
                        Dedupe(roll, current)[n].name = "default"
           /\ DistinctIds(roll) /\ OneDefault(roll) => Dedupe(roll, current) = roll
<1> DEFINE some == Unique(roll)
           defaults == {i \in DOMAIN some : some[i].name = "default"}
           ofActive == {i \in defaults : some[i].id = current}
           keep == IF ofActive # {} THEN some[Earliest(ofActive)] ELSE Newest(some, defaults)
           fitted == {p \in Profile : p.name # "default" \/ p.id = keep.id}
           end == Dedupe(roll, current)
<1>1. /\ some \in Seq(Profile) /\ DistinctIds(some)
      /\ \A n \in DOMAIN some : \E k \in DOMAIN roll : some[n] = roll[k]
      /\ IdsOf(some) = IdsOf(roll)
      /\ DistinctIds(roll) => some = roll
  BY UniqueKeeps
<1>2. end = IF Cardinality(defaults) <= 1 THEN some ELSE Filtered(some, fitted)
  BY DEF Dedupe
<1> HIDE DEF some
<1>3. /\ DOMAIN some = 1..Len(some) /\ Len(some) \in Nat
      /\ \A n \in DOMAIN some : some[n] \in Profile
  BY <1>1
<1>4. IsFiniteSet(defaults)
  <2>1. IsFiniteSet(1..Len(some))
    BY <1>3, FS_Interval
  <2>2. defaults \subseteq 1..Len(some)
    BY <1>3
  <2> HIDE DEF defaults
  <2> QED
    BY <2>1, <2>2, FS_Subset
<1>5. Cardinality(defaults) <= 1 <=> OneDefault(some)
  <2>1. Cardinality(defaults) <= 1 <=> \A i, j \in defaults : i = j
    <3> HIDE DEF defaults
    <3> QED
      BY <1>4, AtMostOne
  <2>2. (\A i, j \in defaults : i = j) <=> OneDefault(some)
    BY DEF OneDefault
  <2> QED
    BY <2>1, <2>2
<1>6. roll # <<>> => some # <<>>
  <2> SUFFICES ASSUME roll # <<>>, some = <<>> PROVE FALSE
    OBVIOUS
  <2>1. roll[1].id \in IdsOf(roll)
    BY DEF IdsOf
  <2>2. IdsOf(some) = {}
    BY <1>3 DEF IdsOf
  <2> QED
    BY <1>1, <2>1, <2>2
<1>7. CASE OneDefault(some)
  <2>1. end = some
    BY <1>2, <1>5, <1>7
  <2>2. DistinctIds(roll) => \A k \in DOMAIN roll : roll[k].id \in IdsOf(some)
    BY <1>1 DEF IdsOf
  <2> QED
    BY <1>1, <1>6, <1>7, <2>1, <2>2
<1>8. CASE ~OneDefault(some)
  <2>1. end = Filtered(some, fitted)
    BY <1>2, <1>5, <1>8
  <2>2. defaults # {}
    BY <1>8 DEF OneDefault
  <2>3. \E k \in defaults : keep = some[k] /\ (ofActive # {} => some[k].id = current)
    <3>1. CASE ofActive # {}
      <4>1. ofActive \in SUBSET (1..Len(some))
        BY <1>3
      <4>2. Earliest(ofActive) \in ofActive
        <5> HIDE DEF ofActive
        <5> QED
          BY <1>3, <3>1, <4>1, EarliestIs
      <4> DEFINE first == Earliest(ofActive)
      <4>3. first \in defaults /\ some[first].id = current /\ keep = some[first]
        BY <3>1, <4>2
      <4> HIDE DEF first, keep, ofActive, defaults
      <4> QED
        BY <4>3
    <3>2. CASE ofActive = {}
      <4>1. keep = Newest(some, defaults)
        BY <3>2
      <4>2. defaults \in SUBSET DOMAIN some
        OBVIOUS
      <4>3. \E k \in defaults : Newest(some, defaults) = some[k]
        <5> HIDE DEF defaults
        <5> QED
          BY <1>1, <2>2, <4>2, NewestIs
      <4> HIDE DEF keep, ofActive, defaults
      <4> QED
        BY <3>2, <4>1, <4>3
    <3> QED
      BY <3>1, <3>2
  <2>4. PICK k0 \in defaults : keep = some[k0] /\ (ofActive # {} => some[k0].id = current)
    BY <2>3
  <2>5. k0 \in DOMAIN some /\ keep.name = "default" /\ keep = some[k0] /\ keep \in fitted
    <3>1. k0 \in DOMAIN some /\ some[k0].name = "default" /\ some[k0] \in Profile
      BY <1>3, <2>4
    <3> HIDE DEF keep
    <3> QED
      BY <2>4, <3>1
  <2>6. current \in IdsOf(some) =>
          \E n \in DOMAIN some : some[n].id = current /\ some[n] \in fitted
    <3> SUFFICES ASSUME NEW n \in DOMAIN some, some[n].id = current PROVE some[n] \in fitted
      BY DEF IdsOf
    <3>1. some[n] \in Profile
      BY <1>3
    <3>2. CASE some[n].name # "default"
      BY <3>1, <3>2
    <3>3. CASE some[n].name = "default"
      <4>1. n \in ofActive
        BY <3>3
      <4>2. keep.id = current
        <5> HIDE DEF keep, ofActive
        <5> QED
          BY <2>4, <4>1
      <4> HIDE DEF keep
      <4> QED
        BY <3>1, <4>2
    <3> QED
      BY <3>2, <3>3
  <2>7. /\ end \in Seq(Profile) /\ DistinctIds(end)
        /\ \A i \in DOMAIN end : end[i] \in fitted /\ \E k \in DOMAIN some : end[i] = some[k]
        /\ \A k \in DOMAIN some : some[k] \in fitted => \E i \in DOMAIN end : end[i] = some[k]
    <3> HIDE DEF fitted, end
    <3> QED
      BY <1>1, <2>1, FilteredList
  <2>8. \A i \in DOMAIN end : end[i].name = "default" => end[i].id = keep.id
    <3> HIDE DEF end, keep
    <3> QED
      BY <2>7
  <2>9. \A k \in DOMAIN some : some[k] \in fitted \/ some[k].name = "default"
    <3> HIDE DEF keep
    <3> QED
      BY <1>3
  <2> HIDE DEF end, keep, fitted, defaults, ofActive
  <2>10. OneDefault(end)
    BY <2>7, <2>8 DEF OneDefault, DistinctIds
  <2>11. PICK n0 \in DOMAIN end : end[n0] = keep
    BY <2>5, <2>7
  <2>12. end # <<>> /\ end[n0].name = "default"
    BY <2>5, <2>11
  <2>13. current \in IdsOf(some) => current \in IdsOf(end)
    BY <2>6, <2>7 DEF IdsOf
  <2>14. \A i \in DOMAIN end : \E k \in DOMAIN roll : end[i] = roll[k]
    BY <1>1, <2>7
  <2>15. \A k \in DOMAIN some : some[k].id \in IdsOf(end) \/ some[k].name = "default"
    BY <2>7, <2>9 DEF IdsOf
  <2>16. DistinctIds(roll) => \A k \in DOMAIN roll :
           \/ roll[k].id \in IdsOf(end)
           \/ roll[k].name = "default" /\ \E n \in DOMAIN end : end[n].name = "default"
    BY <1>1, <2>12, <2>15
  <2> QED
    BY <1>1, <1>8, <2>7, <2>10, <2>12, <2>13, <2>14, <2>16 DEF end
<1> QED
  BY <1>7, <1>8

(* A reading of a list.                                                    *)
LEMMA ListKeeps ==
    ASSUME legacy \in Seq(Profile), NEW roll \in Seq(Profile), NEW current
    PROVE  /\ List(roll, current) \in Seq(Profile)
           /\ DistinctIds(List(roll, current)) /\ OneDefault(List(roll, current))
           /\ List(roll, current) = <<>> => roll = <<>> /\ legacy = <<>>
           /\ MigrateActive(roll, current) \in IdsOf(IF roll = <<>> THEN legacy ELSE roll) =>
                MigrateActive(roll, current) \in IdsOf(List(roll, current))
           /\ roll = <<>> => IdsOf(List(roll, current)) \subseteq IdsOf(legacy)
           /\ roll # <<>> =>
                /\ MigrateActive(roll, current) = current
                /\ \A n \in DOMAIN List(roll, current) : \E k \in DOMAIN roll :
                     /\ List(roll, current)[n].id = roll[k].id
                     /\ List(roll, current)[n].name = roll[k].name
                /\ IdsOf(List(roll, current)) \subseteq IdsOf(roll)
                /\ DistinctIds(roll) => \A k \in DOMAIN roll :
                     \/ roll[k].id \in IdsOf(List(roll, current))
                     \/ /\ roll[k].name = "default"
                        /\ \E n \in DOMAIN List(roll, current) :
                             List(roll, current)[n].name = "default"
                /\ DistinctIds(roll) /\ OneDefault(roll) =>
                     /\ List(roll, current) = Migrate(roll)
                     /\ ContentOf(List(roll, current)) = ContentOf(roll)
                     /\ IdsOf(List(roll, current)) = IdsOf(roll)
<1> DEFINE mid == Migrate(roll)
           act == MigrateActive(roll, current)
           end == List(roll, current)
<1>1. /\ mid \in Seq(Profile)
      /\ roll = <<>> => mid = legacy
      /\ roll # <<>> => /\ DOMAIN mid = DOMAIN roll
                        /\ \A i \in DOMAIN roll : mid[i].id = roll[i].id /\ mid[i].name = roll[i].name
                        /\ ContentOf(mid) = ContentOf(roll)
                        /\ DistinctIds(roll) => DistinctIds(mid)
                        /\ OneDefault(roll) => OneDefault(mid)
                        /\ IdsOf(mid) = IdsOf(roll)
  BY MigrateKeeps
<1>2. end = Dedupe(mid, act) /\ (roll # <<>> => act = current)
  BY DEF List, MigrateActive
<1> HIDE DEF mid, act, end
<1>3. /\ end \in Seq(Profile) /\ DistinctIds(end) /\ OneDefault(end)
      /\ \A n \in DOMAIN end : \E k \in DOMAIN mid : end[n] = mid[k]
      /\ mid # <<>> => end # <<>>
      /\ act \in IdsOf(mid) => act \in IdsOf(end)
      /\ DistinctIds(mid) => \A k \in DOMAIN mid :
           \/ mid[k].id \in IdsOf(end)
           \/ mid[k].name = "default" /\ \E n \in DOMAIN end : end[n].name = "default"
      /\ DistinctIds(mid) /\ OneDefault(mid) => end = mid
  <2>1. mid \in Seq(Profile)
    BY <1>1
  <2>2. /\ Dedupe(mid, act) \in Seq(Profile)
        /\ DistinctIds(Dedupe(mid, act)) /\ OneDefault(Dedupe(mid, act))
        /\ \A n \in DOMAIN Dedupe(mid, act) :
             \E k \in DOMAIN mid : Dedupe(mid, act)[n] = mid[k]
        /\ mid # <<>> => Dedupe(mid, act) # <<>>
        /\ act \in IdsOf(mid) => act \in IdsOf(Dedupe(mid, act))
        /\ DistinctIds(mid) => \A k \in DOMAIN mid :
             \/ mid[k].id \in IdsOf(Dedupe(mid, act))
             \/ /\ mid[k].name = "default"
                /\ \E n \in DOMAIN Dedupe(mid, act) : Dedupe(mid, act)[n].name = "default"
        /\ DistinctIds(mid) /\ OneDefault(mid) => Dedupe(mid, act) = mid
    BY <2>1, DedupeKeeps
  <2>3. end = Dedupe(mid, act)
    BY <1>2
  <2> QED
    BY <2>2, <2>3
<1>4. IdsOf(end) \subseteq IdsOf(mid)
  BY <1>3 DEF IdsOf
<1>5. end = <<>> => roll = <<>> /\ legacy = <<>>
  <2>1. mid = <<>> => roll = <<>>
    <3> SUFFICES ASSUME mid = <<>>, roll # <<>> PROVE FALSE
      OBVIOUS
    <3>1. 1 \in DOMAIN roll /\ 1 \notin DOMAIN mid
      OBVIOUS
    <3> QED
      BY <1>1, <3>1
  <2> QED
    BY <1>1, <1>3, <2>1
<1>6. CASE roll = <<>>
  BY <1>1, <1>3, <1>4, <1>5, <1>6 DEF end, act
<1>7. CASE roll # <<>>
  <2>1. \A n \in DOMAIN end : \E k \in DOMAIN roll :
          end[n].id = roll[k].id /\ end[n].name = roll[k].name
    BY <1>1, <1>3, <1>7
  <2>2. DistinctIds(roll) => \A k \in DOMAIN roll :
          \/ roll[k].id \in IdsOf(end)
          \/ roll[k].name = "default" /\ \E n \in DOMAIN end : end[n].name = "default"
    BY <1>1, <1>3, <1>7
  <2>3. DistinctIds(roll) /\ OneDefault(roll) =>
          end = mid /\ ContentOf(end) = ContentOf(roll) /\ IdsOf(end) = IdsOf(roll)
    BY <1>1, <1>3, <1>7
  <2> QED
    BY <1>1, <1>2, <1>3, <1>4, <1>5, <1>7, <2>1, <2>2, <2>3 DEF end, mid, act
<1> QED
  BY <1>6, <1>7

(* The list of localStorage after a save, before it is read again: no      *)
(* profile but the saved one changes its name, and a profile saved as it   *)
(* was leaves what the list says.                                          *)
LEMMA AfterKeeps ==
    ASSUME legacy \in Seq(Profile), stored \in Seq(Profile), DistinctIds(stored),
           stored = <<>> => legacy = <<>>, saves + 1 \in 1..MaxSaves, NEW p \in Profile
    PROVE  /\ After(p) \in Seq(Profile) /\ DistinctIds(After(p)) /\ After(p) # <<>>
           /\ p.id \in IdsOf(After(p)) /\ IdsOf(After(p)) \subseteq IdsOf(stored) \cup {p.id}
           /\ \A i \in DOMAIN stored :
                /\ i \in DOMAIN After(p) /\ After(p)[i].id = stored[i].id
                /\ stored[i].id # p.id => After(p)[i].name = stored[i].name
           /\ (OneDefault(stored) /\ \E i \in DOMAIN stored : Copied(stored[i]) = Copied(p)) =>
                OneDefault(After(p)) /\ ContentOf(After(p)) = ContentOf(stored)
<1> DEFINE mid == Migrate(stored)
           next == [p EXCEPT !.at = saves + 1]
           end == After(p)
<1>1. /\ mid \in Seq(Profile) /\ DOMAIN mid = DOMAIN stored
      /\ \A i \in DOMAIN stored : mid[i].id = stored[i].id /\ mid[i].name = stored[i].name
      /\ DistinctIds(mid) /\ IdsOf(mid) = IdsOf(stored)
  <2>1. CASE stored # <<>>
    BY <2>1, MigrateKeeps
  <2>2. CASE stored = <<>>
    <3>1. mid = stored
      BY <2>2, MigrateKeeps
    <3> QED
      BY <2>2, <3>1
  <2> QED
    BY <2>1, <2>2
<1>2. \A i \in DOMAIN stored : mid[i] = Recover(stored[i])
  <2>1. CASE stored # <<>>
    BY <2>1, MigrateKeeps
  <2>2. CASE stored = <<>>
    BY <2>2
  <2> QED
    BY <2>1, <2>2
<1>3. /\ next \in Profile /\ next.id = p.id /\ next.name = p.name
      /\ Copied(next) = Copied(p)
  <2>1. saves + 1 \in 0..MaxSaves
    BY SavesAssumption
  <2> QED
    BY <2>1 DEF Profile, Copied
<1>4. end = IF p.id \in IdsOf(mid)
            THEN [i \in DOMAIN mid |-> IF mid[i].id = p.id THEN next ELSE mid[i]]
            ELSE Append(mid, next)
  BY DEF After
<1> HIDE DEF mid, next, end
<1>5. DOMAIN mid = 1..Len(mid) /\ Len(mid) \in Nat /\ \A i \in DOMAIN mid : mid[i] \in Profile
  BY <1>1
<1>6. CASE p.id \in IdsOf(mid)
  <2>1. /\ DOMAIN end = DOMAIN mid
        /\ \A i \in DOMAIN mid : end[i] = IF mid[i].id = p.id THEN next ELSE mid[i]
    BY <1>4, <1>6
  <2>2. end \in Seq(Profile)
    <3>1. end = [i \in 1..Len(mid) |-> IF mid[i].id = p.id THEN next ELSE mid[i]]
      BY <1>4, <1>5, <1>6
    <3>2. end \in [1..Len(mid) -> Profile]
      BY <1>3, <1>5, <3>1
    <3> QED
      BY <1>5, <3>2, SeqDef
  <2>3. \A i \in DOMAIN mid : end[i].id = mid[i].id
    BY <1>3, <2>1
  <2>4. DistinctIds(end) /\ IdsOf(end) = IdsOf(mid)
    BY <1>1, <2>1, <2>3 DEF DistinctIds, IdsOf
  <2>5. end # <<>>
    <3>1. IdsOf(end) # {}
      BY <1>6, <2>4
    <3>2. end = <<>> => IdsOf(end) = {}
      BY DEF IdsOf
    <3> QED
      BY <3>1, <3>2
  <2>6. ASSUME OneDefault(stored), NEW k \in DOMAIN stored, Copied(stored[k]) = Copied(p)
        PROVE  OneDefault(end) /\ ContentOf(end) = ContentOf(stored)
    <3>1. stored[k] \in Profile /\ stored[k].id = p.id /\ stored[k].name = p.name
      <4>1. stored[k] \in Profile
        OBVIOUS
      <4> QED
        BY <2>6, <4>1 DEF Copied, Profile
    <3>2. \A i \in DOMAIN stored : stored[i].id = p.id => i = k
      BY <3>1 DEF DistinctIds
    <3>3. \A i \in DOMAIN stored : end[i].name = stored[i].name
      BY <1>1, <1>3, <2>1, <3>1, <3>2
    <3>4. OneDefault(end)
      BY <1>1, <2>1, <2>6, <3>3 DEF OneDefault
    <3>5. ASSUME NEW i \in DOMAIN stored
          PROVE  Copied(Recover(end[i])) = Copied(Recover(stored[i]))
      <4>1. CASE i = k
        <5>1. end[i] = next
          BY <1>1, <2>1, <3>1, <4>1
        <5>2. Copied(next) = Copied(stored[i]) /\ stored[i] \in Profile
          BY <1>3, <2>6, <3>1, <4>1
        <5> QED
          BY <1>3, <5>1, <5>2, RecoverKeeps
      <4>2. CASE i # k
        <5>1. end[i] = Recover(stored[i])
          BY <1>1, <1>2, <2>1, <3>2, <4>2
        <5>2. stored[i] \in Profile
          OBVIOUS
        <5>3. Recover(Recover(stored[i])) = Recover(stored[i])
          BY <5>2, RecoverKeeps
        <5> QED
          BY <5>1, <5>3
      <4> QED
        BY <4>1, <4>2
    <3>6. ContentOf(end) = ContentOf(stored)
      BY <1>1, <2>1, <3>5 DEF ContentOf
    <3> QED
      BY <3>4, <3>6
  <2>7. p.id \in IdsOf(end) /\ IdsOf(end) \subseteq IdsOf(stored) \cup {p.id}
    BY <1>1, <1>6, <2>4
  <2>8. \A i \in DOMAIN stored :
          /\ i \in DOMAIN end /\ end[i].id = stored[i].id
          /\ stored[i].id # p.id => end[i].name = stored[i].name
    BY <1>1, <2>1, <2>3
  <2> QED
    BY <2>2, <2>4, <2>5, <2>6, <2>7, <2>8 DEF end
<1>7. CASE p.id \notin IdsOf(mid)
  <2>1. end = Append(mid, next)
    BY <1>4, <1>7
  <2>2. /\ end \in Seq(Profile) /\ Len(end) = Len(mid) + 1 /\ DOMAIN end = 1..(Len(mid) + 1)
        /\ \A i \in DOMAIN mid : end[i] = mid[i]
        /\ end[Len(mid) + 1] = next
    BY <1>1, <1>3, <1>5, <2>1
  <2>3. \A i \in DOMAIN end : i \in DOMAIN mid \/ i = Len(mid) + 1
    BY <1>5, <2>2
  <2>4. \A i \in DOMAIN mid : mid[i].id # p.id
    BY <1>7 DEF IdsOf
  <2>5. DistinctIds(end)
    <3> SUFFICES ASSUME NEW i \in DOMAIN end, NEW j \in DOMAIN end, end[i].id = end[j].id
                 PROVE  i = j
      BY DEF DistinctIds
    <3>1. CASE i \in DOMAIN mid /\ j \in DOMAIN mid
      BY <1>1, <2>2, <3>1 DEF DistinctIds
    <3>2. CASE i \in DOMAIN mid /\ j = Len(mid) + 1
      BY <1>3, <2>2, <2>4, <3>2
    <3>3. CASE j \in DOMAIN mid /\ i = Len(mid) + 1
      BY <1>3, <2>2, <2>4, <3>3
    <3> QED
      BY <2>3, <3>1, <3>2, <3>3
  <2>6. end # <<>> /\ Len(mid) + 1 \in DOMAIN end
    BY <1>5, <2>2
  <2>7. p.id \in IdsOf(end)
    BY <1>3, <2>2, <2>6 DEF IdsOf
  <2>8. \A i \in DOMAIN mid : mid[i].id \in IdsOf(mid)
    BY DEF IdsOf
  <2>9. \A i \in DOMAIN end : end[i].id \in IdsOf(mid) \cup {p.id}
    BY <1>3, <2>2, <2>3, <2>8
  <2>10. IdsOf(end) \subseteq IdsOf(stored) \cup {p.id}
    BY <1>1, <2>9 DEF IdsOf
  <2>11. \A i \in DOMAIN stored : Copied(stored[i]) # Copied(p)
    <3> TAKE i \in DOMAIN stored
    <3>1. stored[i] \in Profile /\ stored[i].id # p.id
      BY <1>1, <2>4
    <3> QED
      BY <3>1 DEF Copied, Profile
  <2>12. \A i \in DOMAIN mid : i \in DOMAIN end
    BY <1>5, <2>2
  <2>13. \A i \in DOMAIN stored :
           /\ i \in DOMAIN end /\ end[i].id = stored[i].id /\ end[i].name = stored[i].name
    BY <1>1, <2>2, <2>12
  <2> QED
    BY <2>2, <2>5, <2>6, <2>7, <2>10, <2>11, <2>13 DEF end
<1> QED
  BY <1>6, <1>7

(* What is in localStorage, what the dialog has of it, and what the        *)
(* selector and the editor have.                                           *)
StoreFits ==
    /\ stored \in Seq(Profile) /\ legacy \in Seq(Profile)
    /\ {activeId, legacyActive} \subseteq Ids \cup {NoProfile}
    /\ saves \in 1..MaxSaves /\ astray \in BOOLEAN
    /\ DistinctIds(stored) /\ (stored = <<>> => legacy = <<>>)
    /\ ActiveIsListed /\ RemovedStaysRemoved

DialogFits ==
    /\ memo \in Seq(Profile) /\ chosen \in Ids \cup {NoProfile}
    /\ dialog \in BOOLEAN /\ outdated \in BOOLEAN
    /\ removed \cap IdsOf(memo) \subseteq IdsOf(legacy)
    /\ dialog /\ ~outdated /\ (editor = NoProfile \/ (~selectionChanged /\ ~pendingChanged)) =>
         OneDefault(stored) /\ ContentOf(memo) = ContentOf(stored)

ToolsFit ==
    /\ selector = NoProfile \/ selector \in [base : Profile, modules : 0..1]
    /\ selector = NoProfile \/ editor = NoProfile
    /\ selector # NoProfile => selector.base.id \notin removed \ IdsOf(legacy)
    /\ {editor, pendingSave} \subseteq Profile \cup {NoProfile} /\ accountIds \subseteq Ids
    /\ selectionChanged \in BOOLEAN /\ pendingChanged \in BOOLEAN
    /\ pendingSave = NoProfile => ~pendingChanged

ProfilesParts == StoreFits /\ DialogFits /\ ToolsFit

(* No step drops a profile but as NothingVanishes says.                    *)
NoneVanishes ==
    \A i \in DOMAIN stored :
       \/ stored[i].id \in IdsOf(stored') \cup removed'
       \/ /\ stored[i].name = "default"
          /\ \/ \E j \in DOMAIN stored' : stored'[j].name = "default"
             \/ \E j \in DOMAIN stored \ {i} :
                  stored[j].name = "default" /\ stored[j].id \in removed'

LEMMA ReadKeeps ==
    ASSUME StoreFits, Read
    PROVE  /\ StoreFits' /\ NoneVanishes /\ OneDefault(stored')
           /\ IdsOf(stored') \subseteq IdsOf(stored)
           /\ OneDefault(stored) => ContentOf(stored') = ContentOf(stored)
           /\ activeId' = activeId /\ UNCHANGED <<legacy, removed>>
<1>1. /\ stored \in Seq(Profile) /\ legacy \in Seq(Profile) /\ DistinctIds(stored)
      /\ (stored = <<>> => legacy = <<>>)
  BY DEF StoreFits
<1>2. /\ stored' = List(stored, activeId) /\ activeId' = MigrateActive(stored, activeId)
      /\ UNCHANGED <<saves, removed, astray, legacy, legacyActive>>
  BY DEF Read, ListedProfiles, ListedActive, keyVars
<1>3. activeId' = activeId
  BY <1>1, <1>2 DEF MigrateActive
<1>4. CASE stored = <<>>
  <2>1. stored' = <<>>
    <3>1. /\ List(stored, activeId) \in Seq(Profile)
          /\ IdsOf(List(stored, activeId)) \subseteq IdsOf(legacy)
      BY <1>1, <1>4, ListKeeps
    <3>2. IdsOf(legacy) = {}
      BY <1>1, <1>4 DEF IdsOf
    <3>3. stored' \in Seq(Profile) /\ IdsOf(stored') = {}
      BY <1>2, <3>1, <3>2
    <3>4. DOMAIN stored' = {}
      BY <3>3 DEF IdsOf
    <3> QED
      BY <3>3, <3>4
  <2>2. OneDefault(stored') /\ NoneVanishes
    BY <1>4, <2>1 DEF OneDefault, NoneVanishes
  <2>3. StoreFits'
    BY <1>2, <1>3, <1>4, <2>1 DEF StoreFits, ActiveIsListed, RemovedStaysRemoved
  <2> QED
    BY <1>2, <1>3, <1>4, <2>1, <2>2, <2>3
<1>5. CASE stored # <<>>
  <2> DEFINE end == List(stored, activeId)
  <2>1. /\ end \in Seq(Profile) /\ DistinctIds(end) /\ OneDefault(end) /\ end # <<>>
        /\ MigrateActive(stored, activeId) \in IdsOf(stored) =>
             MigrateActive(stored, activeId) \in IdsOf(end)
        /\ IdsOf(end) \subseteq IdsOf(stored)
        /\ \A k \in DOMAIN stored :
             \/ stored[k].id \in IdsOf(end)
             \/ stored[k].name = "default" /\ \E n \in DOMAIN end : end[n].name = "default"
        /\ OneDefault(stored) => ContentOf(end) = ContentOf(stored)
    BY <1>1, <1>5, ListKeeps
  <2>2. stored' = end
    BY <1>2
  <2> HIDE DEF end
  <2>3. activeId \in IdsOf(stored) => activeId' \in IdsOf(stored')
    BY <1>2, <1>3, <2>1, <2>2
  <2>4. NoneVanishes
    BY <2>1, <2>2 DEF NoneVanishes
  <2>5. ActiveIsListed'
    BY <1>2, <1>3, <2>3 DEF StoreFits, ActiveIsListed
  <2>6. RemovedStaysRemoved'
    BY <1>2, <2>1, <2>2 DEF StoreFits, RemovedStaysRemoved
  <2>7. StoreFits'
    BY <1>2, <1>3, <2>1, <2>2, <2>5, <2>6 DEF StoreFits
  <2> QED
    BY <1>2, <1>3, <2>1, <2>2, <2>4, <2>7
<1> QED
  BY <1>4, <1>5

LEMMA SaveKeeps ==
    ASSUME StoreFits, NEW p \in Profile, p.id \notin removed \ IdsOf(legacy), SaveProfile(p)
    PROVE  /\ StoreFits' /\ NoneVanishes /\ OneDefault(stored')
           /\ UNCHANGED <<legacy, removed>>
<1>1. /\ stored \in Seq(Profile) /\ legacy \in Seq(Profile) /\ DistinctIds(stored)
      /\ (stored = <<>> => legacy = <<>>)
  BY DEF StoreFits
<1>2. /\ saves < MaxSaves /\ saves' = saves + 1 /\ activeId' = p.id /\ astray' = FALSE
      /\ UNCHANGED <<legacy, legacyActive, removed>> /\ stored' = List(After(p), p.id)
  BY DEF SaveProfile, Stamp, keyVars
<1>3. saves + 1 \in 1..MaxSaves /\ p.id \in Ids
  <2>1. saves \in 1..MaxSaves
    BY DEF StoreFits
  <2> QED
    BY <1>2, <2>1, SavesAssumption DEF Profile
<1> DEFINE mid == After(p)
           end == List(mid, p.id)
<1>4. /\ mid \in Seq(Profile) /\ DistinctIds(mid) /\ mid # <<>>
      /\ p.id \in IdsOf(mid) /\ IdsOf(mid) \subseteq IdsOf(stored) \cup {p.id}
      /\ \A i \in DOMAIN stored :
           /\ i \in DOMAIN mid /\ mid[i].id = stored[i].id
           /\ stored[i].id # p.id => mid[i].name = stored[i].name
  BY <1>1, <1>3, AfterKeeps
<1> HIDE DEF mid
<1>5. /\ end \in Seq(Profile) /\ DistinctIds(end) /\ OneDefault(end) /\ end # <<>>
      /\ MigrateActive(mid, p.id) = p.id
      /\ MigrateActive(mid, p.id) \in IdsOf(mid) => MigrateActive(mid, p.id) \in IdsOf(end)
      /\ IdsOf(end) \subseteq IdsOf(mid)
      /\ \A k \in DOMAIN mid :
           \/ mid[k].id \in IdsOf(end)
           \/ mid[k].name = "default" /\ \E n \in DOMAIN end : end[n].name = "default"
  BY <1>1, <1>4, ListKeeps
<1>6. stored' = end
  BY <1>2 DEF mid
<1> HIDE DEF end
<1>7. p.id \in IdsOf(end)
  BY <1>4, <1>5
<1>8. NoneVanishes
  BY <1>4, <1>5, <1>6, <1>7 DEF NoneVanishes
<1>9. RemovedStaysRemoved'
  BY <1>2, <1>4, <1>5, <1>6 DEF StoreFits, RemovedStaysRemoved
<1>10. ActiveIsListed'
  BY <1>2, <1>6, <1>7 DEF ActiveIsListed
<1>11. StoreFits'
  BY <1>2, <1>3, <1>5, <1>6, <1>9, <1>10 DEF StoreFits
<1> QED
  BY <1>2, <1>5, <1>6, <1>8, <1>11

(* The dialog after it read the list again.                                *)
LEMMA MemoKeeps ==
    ASSUME StoreFits', OneDefault(stored'), RefreshMemo, dialog' \in BOOLEAN,
           chosen' \in Ids \cup {NoProfile}
    PROVE  DialogFits'
<1>1. memo' = stored' /\ outdated' = FALSE
  BY DEF RefreshMemo
<1>2. ContentOf(memo)' = ContentOf(stored)'
  BY <1>1
<1>3. OneDefault(stored)'
  BY DEF OneDefault
<1>4. memo' \in Seq(Profile) /\ (removed \cap IdsOf(memo) \subseteq IdsOf(legacy))'
  BY <1>1 DEF StoreFits, RemovedStaysRemoved
<1>5. dialog' \in BOOLEAN /\ outdated' \in BOOLEAN /\ chosen' \in Ids \cup {NoProfile}
  BY <1>1
<1> QED
  BY <1>2, <1>3, <1>4, <1>5 DEF DialogFits

LEMMA EditorKeeps ==
    ASSUME ToolsFit, EditorOpens, selector' = NoProfile, UNCHANGED <<legacy, removed>>
    PROVE  ToolsFit'
<1>1. /\ \E p \in Profile : editor' = p
      /\ accountIds' = IF stored' # <<>> THEN {editor'.id} ELSE Ids
      /\ selectionChanged' = FALSE /\ pendingSave' = pendingSave
      /\ pendingChanged' = pendingChanged
  BY DEF EditorOpens
<1>2. editor' \in Profile /\ accountIds' \subseteq Ids
  BY <1>1 DEF Profile
<1> QED
  BY <1>1, <1>2 DEF ToolsFit

(* The profile the dialog works with is one of its list.                   *)
LEMMA SelectedIs ==
    ASSUME DialogFits, memo # <<>>
    PROVE  /\ SelectedProfile \in Profile
           /\ SelectedProfile.id \notin removed \ IdsOf(legacy)
<1>1. memo \in Seq(Profile) /\ removed \cap IdsOf(memo) \subseteq IdsOf(legacy)
  BY DEF DialogFits
<1>2. \E i \in DOMAIN memo : SelectedProfile = memo[i]
  <2>1. CASE chosen \in IdsOf(memo)
    BY <1>1, <2>1, WithIdIsFound DEF SelectedProfile
  <2>2. CASE chosen \notin IdsOf(memo)
    <3>1. 1 \in DOMAIN memo
      BY <1>1
    <3> QED
      BY <2>2, <3>1 DEF SelectedProfile
  <2> QED
    BY <2>1, <2>2
<1>3. PICK i \in DOMAIN memo : SelectedProfile = memo[i]
  BY <1>2
<1>4. memo[i] \in Profile /\ memo[i].id \in IdsOf(memo)
  BY <1>1 DEF IdsOf
<1> QED
  BY <1>1, <1>3, <1>4

LEMMA MaterializeKeeps ==
    ASSUME StoreFits, DialogFits, Materialize, dialog' \in BOOLEAN
    PROVE  /\ StoreFits' /\ NoneVanishes /\ DialogFits'
           /\ selector' = selector /\ selector = NoProfile /\ UNCHANGED <<legacy, removed>>
<1>1. /\ memo # <<>> /\ SaveProfile(SelectedProfile) /\ RefreshMemo
      /\ chosen' = chosen /\ selector' = selector /\ selector = NoProfile
  BY DEF Materialize, OnTop
<1>2. StoreFits' /\ NoneVanishes /\ OneDefault(stored') /\ UNCHANGED <<legacy, removed>>
  BY <1>1, SelectedIs, SaveKeeps
<1>3. chosen' \in Ids \cup {NoProfile}
  BY <1>1 DEF DialogFits
<1>4. DialogFits'
  BY <1>1, <1>2, <1>3, MemoKeeps
<1> QED
  BY <1>1, <1>2, <1>4

(* The list without a removed profile.                                     *)
LEMMA DeleteKeeps ==
    ASSUME StoreFits, DialogFits, DeleteSelected
    PROVE  StoreFits' /\ NoneVanishes /\ DialogFits'
<1> DEFINE id == SelectedProfile.id
           fresh == List(stored, activeId)
           others == {p \in Profile : p.id # id}
           remaining == Filtered(fresh, others)
           next == IF remaining # <<>> THEN remaining[1].id
                   ELSE IF activeId = id THEN NoProfile ELSE activeId
           end == List(remaining, next)
<1>1. /\ stored \in Seq(Profile) /\ legacy \in Seq(Profile) /\ DistinctIds(stored)
      /\ (stored = <<>> => legacy = <<>>)
      /\ activeId \in Ids \cup {NoProfile} /\ legacyActive \in Ids \cup {NoProfile}
      /\ saves \in 1..MaxSaves /\ astray \in BOOLEAN
      /\ ActiveIsListed /\ RemovedStaysRemoved
  BY DEF StoreFits
<1>2. MigrateActive(stored, activeId) = activeId
  BY <1>1 DEF MigrateActive
<1>3. /\ memo # <<>> /\ removed' = removed \cup {id}
      /\ chosen' = IF remaining # <<>> THEN remaining[1].id ELSE NoProfile
      /\ stored' = end /\ activeId' = MigrateActive(remaining, next)
      /\ astray' = (astray /\ activeId' = activeId)
      /\ RefreshMemo /\ UNCHANGED <<saves, legacy, legacyActive, dialog>>
  BY <1>2 DEF DeleteSelected, ListedProfiles, ListedActive, keyVars
<1>4. id \in Ids
  BY <1>3, SelectedIs DEF Profile
<1> HIDE DEF id
<1>0. \A p : p \in others <=> p \in Profile /\ p.id # id
  OBVIOUS
<1> HIDE DEF others
<1>5. fresh \in Seq(Profile) /\ DistinctIds(fresh) /\ OneDefault(fresh)
  BY <1>1, ListKeeps
<1>6. stored # <<>> =>
        /\ \A n \in DOMAIN fresh : \E k \in DOMAIN stored :
             fresh[n].id = stored[k].id /\ fresh[n].name = stored[k].name
        /\ \A k \in DOMAIN stored :
             \/ stored[k].id \in IdsOf(fresh)
             \/ stored[k].name = "default" /\ \E n \in DOMAIN fresh : fresh[n].name = "default"
        /\ activeId \in IdsOf(stored) => activeId \in IdsOf(fresh)
  BY <1>1, <1>2, ListKeeps
<1> HIDE DEF fresh
<1>7. /\ remaining \in Seq(Profile) /\ DistinctIds(remaining)
      /\ \A i \in DOMAIN remaining : /\ remaining[i] \in others
                                     /\ \E k \in DOMAIN fresh : remaining[i] = fresh[k]
      /\ \A k \in DOMAIN fresh : fresh[k] \in others =>
           \E i \in DOMAIN remaining : remaining[i] = fresh[k]
  BY <1>5, FilteredList
<1> HIDE DEF remaining
<1>8. OneDefault(remaining)
  BY <1>5, <1>7 DEF OneDefault, DistinctIds
<1>9. \A k \in DOMAIN fresh : fresh[k].id = id \/ \E i \in DOMAIN remaining : remaining[i] = fresh[k]
  <2>1. \A k \in DOMAIN fresh : fresh[k] \in Profile
    BY <1>5
  <2> QED
    BY <1>7, <1>0, <2>1
<1>10. remaining # <<>> => /\ 1 \in DOMAIN remaining /\ next = remaining[1].id
                           /\ next \in Ids /\ next \in IdsOf(remaining)
  <2> SUFFICES ASSUME remaining # <<>>
               PROVE  1 \in DOMAIN remaining /\ remaining[1].id \in Ids /\ remaining[1].id \in IdsOf(remaining)
    OBVIOUS
  <2>1. 1 \in DOMAIN remaining
    BY <1>7
  <2>2. remaining[1] \in Profile
    BY <1>7, <2>1
  <2> QED
    BY <2>1, <2>2 DEF Profile, IdsOf
<1>11. next \in Ids \cup {NoProfile} /\ (remaining = <<>> => next = IF activeId = id THEN NoProfile ELSE activeId)
  BY <1>1, <1>10
<1> HIDE DEF next
<1>12. /\ end \in Seq(Profile) /\ DistinctIds(end) /\ OneDefault(end)
       /\ (end = <<>> => legacy = <<>>)
       /\ MigrateActive(remaining, next) \in IdsOf(IF remaining = <<>> THEN legacy ELSE remaining) =>
            MigrateActive(remaining, next) \in IdsOf(end)
       /\ remaining = <<>> => IdsOf(end) \subseteq IdsOf(legacy)
  BY <1>1, <1>7, ListKeeps
<1>13. remaining # <<>> =>
         /\ MigrateActive(remaining, next) = next
         /\ end = Migrate(remaining) /\ IdsOf(end) = IdsOf(remaining)
  BY <1>1, <1>7, <1>8, ListKeeps
<1> HIDE DEF end
<1>14. remaining # <<>> => \A i \in DOMAIN remaining :
          i \in DOMAIN end /\ end[i].name = remaining[i].name
  BY <1>1, <1>7, <1>13, MigrateKeeps
<1>15. /\ activeId' \in Ids \cup {NoProfile}
       /\ remaining = <<>> => activeId' \in {next, legacyActive}
  BY <1>1, <1>3, <1>11, <1>13 DEF MigrateActive
<1>16. chosen' \in Ids \cup {NoProfile}
  BY <1>3, <1>10
<1>17. id \notin IdsOf(remaining)
  BY <1>7, <1>0 DEF IdsOf
<1>18. RemovedStaysRemoved'
  <2>1. CASE remaining = <<>>
    BY <1>3, <1>12, <2>1 DEF RemovedStaysRemoved
  <2>2. CASE remaining # <<>>
    <3>1. stored # <<>> => IdsOf(remaining) \subseteq IdsOf(stored)
      BY <1>6, <1>7 DEF IdsOf
    <3>2. stored # <<>>
      <4> SUFFICES ASSUME stored = <<>> PROVE FALSE
        OBVIOUS
      <4>1. IdsOf(fresh) \subseteq IdsOf(legacy) /\ legacy = <<>>
        BY <1>1, ListKeeps DEF fresh
      <4>2. IdsOf(legacy) = {}
        BY <4>1 DEF IdsOf
      <4>3. PICK k \in DOMAIN fresh : remaining[1] = fresh[k]
        BY <1>7, <1>10, <2>2
      <4> QED
        BY <4>1, <4>2, <4>3 DEF IdsOf
    <3> QED
      BY <1>1, <1>3, <1>13, <1>17, <2>2, <3>1, <3>2 DEF RemovedStaysRemoved
  <2> QED
    BY <2>1, <2>2
<1>19. ActiveIsListed'
  <2>1. CASE remaining # <<>>
    BY <1>3, <1>10, <1>13, <2>1 DEF ActiveIsListed
  <2>2. CASE remaining = <<>> /\ activeId' = legacyActive /\ activeId' # next
    <3>1. activeId' = MigrateActive(remaining, next)
      BY <1>3
    <3>2. legacyActive \in IdsOf(legacy) => activeId' \in IdsOf(stored')
      BY <1>3, <1>12, <2>2, <3>1
    <3> QED
      BY <1>3, <2>2, <3>2 DEF ActiveIsListed
  <2>3. CASE remaining = <<>> /\ activeId' = next
    <3>1. CASE activeId = id
      BY <1>11, <2>3, <3>1 DEF ActiveIsListed
    <3>2. CASE activeId # id
      <4>1. activeId' = activeId
        BY <1>11, <2>3, <3>2
      <4>2. activeId \notin IdsOf(stored)
        <5> SUFFICES ASSUME activeId \in IdsOf(stored) PROVE FALSE
          OBVIOUS
        <5>1. stored # <<>>
          BY DEF IdsOf
        <5>2. PICK k \in DOMAIN fresh : fresh[k].id = activeId
          BY <1>6, <5>1 DEF IdsOf
        <5>3. DOMAIN remaining = {}
          BY <2>3
        <5> QED
          BY <1>9, <3>2, <5>2, <5>3
      <4> QED
        BY <1>1, <1>3, <4>1, <4>2 DEF ActiveIsListed
    <3> QED
      BY <3>1, <3>2
  <2> QED
    BY <1>15, <2>1, <2>2, <2>3
<1>20. NoneVanishes
  <2> SUFFICES ASSUME NEW i \in DOMAIN stored, stored[i].id \notin IdsOf(stored') \cup removed'
               PROVE  /\ stored[i].name = "default"
                      /\ \/ \E j \in DOMAIN stored' : stored'[j].name = "default"
                         \/ \E j \in DOMAIN stored \ {i} :
                              stored[j].name = "default" /\ stored[j].id \in removed'
    BY DEF NoneVanishes
  <2>1. stored # <<>>
    OBVIOUS
  <2>2. \A k \in DOMAIN fresh : fresh[k].id = id \/ \E n \in DOMAIN end :
          end[n].id = fresh[k].id /\ end[n].name = fresh[k].name
    <3> SUFFICES ASSUME NEW k \in DOMAIN fresh, NEW n \in DOMAIN remaining, remaining[n] = fresh[k]
                 PROVE  n \in DOMAIN end /\ end[n].id = fresh[k].id /\ end[n].name = fresh[k].name
      BY <1>9
    <3>1. remaining # <<>>
      OBVIOUS
    <3>2. end[n].id = remaining[n].id
      BY <1>1, <1>7, <1>13, <3>1, MigrateKeeps
    <3> QED
      BY <1>14, <3>1, <3>2
  <2>3. stored[i].id \notin IdsOf(fresh)
    <3> SUFFICES ASSUME NEW k \in DOMAIN fresh, fresh[k].id = stored[i].id PROVE FALSE
      BY DEF IdsOf
    <3>1. stored[i].id # id
      BY <1>3
    <3> QED
      BY <1>3, <2>2, <3>1 DEF IdsOf
  <2>4. stored[i].name = "default" /\ \E n \in DOMAIN fresh : fresh[n].name = "default"
    BY <1>6, <2>1, <2>3
  <2>5. PICK n \in DOMAIN fresh : fresh[n].name = "default"
    BY <2>4
  <2>6. PICK j \in DOMAIN stored : fresh[n].id = stored[j].id /\ fresh[n].name = stored[j].name
    BY <1>6, <2>1
  <2>7. CASE fresh[n].id = id
    <3>1. j # i
      BY <2>3, <2>6 DEF IdsOf
    <3> QED
      BY <1>3, <2>4, <2>5, <2>6, <2>7, <3>1
  <2>8. CASE fresh[n].id # id
    BY <1>3, <2>2, <2>4, <2>5, <2>8
  <2> QED
    BY <2>7, <2>8
<1>21. StoreFits'
  BY <1>1, <1>3, <1>12, <1>15, <1>18, <1>19 DEF StoreFits
<1>22. DialogFits'
  <2>1. OneDefault(stored') /\ dialog' \in BOOLEAN
    BY <1>3, <1>12 DEF DialogFits
  <2> QED
    BY <1>3, <1>16, <1>21, <2>1, MemoKeeps
<1> QED
  BY <1>20, <1>21, <1>22

(* The dialog while nothing of its own is changed.                         *)
LEMMA DialogStays ==
    ASSUME DialogFits, UNCHANGED <<stored, legacy, removed>>, UNCHANGED <<memo, dialog, outdated>>,
           chosen' \in Ids \cup {NoProfile},
           (editor' = NoProfile \/ (~selectionChanged' /\ ~pendingChanged')) =>
             (editor = NoProfile \/ (~selectionChanged /\ ~pendingChanged))
    PROVE  DialogFits'
<1>1. ContentOf(memo)' = ContentOf(memo) /\ ContentOf(stored)' = ContentOf(stored)
  BY DEF ContentOf, Recover, Copied
<1>2. OneDefault(stored)' = OneDefault(stored)
  BY DEF OneDefault
<1>3. (removed \cap IdsOf(memo) \subseteq IdsOf(legacy))'
  BY DEF DialogFits, IdsOf
<1> QED
  BY <1>1, <1>2, <1>3 DEF DialogFits

LEMMA ProfilesStep ==
    ASSUME ProfilesParts, [ProfilesNext]_profVars
    PROVE  ProfilesParts' /\ (NoneVanishes \/ UNCHANGED profVars)
<1> USE DEF ProfilesParts
<1>1. /\ dialog \in BOOLEAN /\ chosen \in Ids \cup {NoProfile} /\ memo \in Seq(Profile)
      /\ outdated \in BOOLEAN
  BY DEF DialogFits
<1>2. UNCHANGED <<stored, activeId, saves, removed, astray, legacy, legacyActive>> =>
        StoreFits' /\ NoneVanishes
  <2> SUFFICES ASSUME UNCHANGED <<stored, activeId, saves, removed, astray, legacy, legacyActive>>
               PROVE  StoreFits' /\ NoneVanishes
    OBVIOUS
  <2>1. NoneVanishes
    BY DEF NoneVanishes, IdsOf
  <2>2. StoreFits'
    BY DEF StoreFits, ActiveIsListed, RemovedStaysRemoved, DistinctIds, IdsOf
  <2> QED
    BY <2>1, <2>2
<1>3. ASSUME EvidenceArrives PROVE ProfilesParts' /\ NoneVanishes
  <2>1. /\ ~dialog /\ Read /\ UNCHANGED <<dialog, memo, outdated, selector, editor>>
        /\ UNCHANGED <<accountIds, pendingSave, pendingChanged, selectionChanged>>
        /\ \E p \in Profile : chosen' = IF p.id \in IdsOf(stored') THEN p.id ELSE NoProfile
    BY <1>3 DEF EvidenceArrives, editorVars
  <2>2. StoreFits' /\ NoneVanishes /\ UNCHANGED <<legacy, removed>>
    BY <2>1, ReadKeeps
  <2>3. chosen' \in Ids \cup {NoProfile}
    BY <2>1 DEF Profile
  <2>4. DialogFits'
    BY <2>1, <2>2, <2>3 DEF DialogFits, IdsOf
  <2>5. ToolsFit'
    BY <2>1, <2>2 DEF ToolsFit, IdsOf
  <2> QED
    BY <2>2, <2>4, <2>5
<1>4. ASSUME OpenDialog \/ CloseContextDialog PROVE ProfilesParts' /\ NoneVanishes
  <2>1. /\ Read /\ RefreshMemo /\ dialog' \in BOOLEAN /\ UNCHANGED <<chosen, selector, editor>>
        /\ UNCHANGED <<accountIds, pendingSave, pendingChanged, selectionChanged>>
    BY <1>4 DEF OpenDialog, CloseContextDialog, editorVars
  <2>2. StoreFits' /\ NoneVanishes /\ OneDefault(stored') /\ UNCHANGED <<legacy, removed>>
    BY <2>1, ReadKeeps
  <2>3. DialogFits'
    BY <1>1, <2>1, <2>2, MemoKeeps
  <2>4. ToolsFit'
    BY <2>1, <2>2 DEF ToolsFit, IdsOf
  <2> QED
    BY <2>2, <2>3, <2>4
<1>5. ASSUME StartAnalysisWith PROVE ProfilesParts' /\ NoneVanishes
  <2>1. /\ Materialize /\ dialog' \in BOOLEAN /\ UNCHANGED editor
        /\ UNCHANGED <<accountIds, pendingSave, pendingChanged, selectionChanged>>
    BY <1>5 DEF StartAnalysisWith, editorVars
  <2>2. /\ StoreFits' /\ NoneVanishes /\ DialogFits'
        /\ selector' = selector /\ UNCHANGED <<legacy, removed>>
    BY <2>1, MaterializeKeeps
  <2>3. ToolsFit'
    BY <2>1, <2>2 DEF ToolsFit, IdsOf
  <2> QED
    BY <2>2, <2>3
<1>6. ASSUME EditSelected PROVE ProfilesParts' /\ NoneVanishes
  <2>1. Materialize /\ EditorOpens /\ dialog' \in BOOLEAN
    BY <1>1, <1>6 DEF EditSelected
  <2>2. /\ StoreFits' /\ NoneVanishes /\ DialogFits'
        /\ selector' = NoProfile /\ UNCHANGED <<legacy, removed>>
    BY <2>1, MaterializeKeeps
  <2> QED
    BY <2>1, <2>2, EditorKeeps
<1>7. ASSUME DeleteSelected PROVE ProfilesParts' /\ NoneVanishes
  <2>1. StoreFits' /\ NoneVanishes /\ DialogFits'
    BY <1>7, DeleteKeeps
  <2>2. /\ selector = NoProfile /\ UNCHANGED <<selector, editor>>
        /\ UNCHANGED <<accountIds, pendingSave, pendingChanged, selectionChanged>>
    BY <1>7 DEF DeleteSelected, OnTop, editorVars
  <2>3. ToolsFit'
    BY <2>2 DEF ToolsFit
  <2> QED
    BY <2>1, <2>3
<1>8. ASSUME OpenSelector PROVE ProfilesParts' /\ NoneVanishes
  <2>1. /\ editor = NoProfile /\ Read /\ UNCHANGED <<dialog, memo, chosen, outdated, editor>>
        /\ UNCHANGED <<accountIds, pendingSave, pendingChanged, selectionChanged>>
    BY <1>8 DEF OpenSelector, dialogVars, editorVars
  <2>2. PICK p \in Profile : /\ ActiveProfile(stored', activeId', p)
                             /\ selector' = [base |-> p, modules |-> p.modules]
    BY <1>8 DEF OpenSelector
  <2>3. /\ StoreFits' /\ NoneVanishes /\ OneDefault(stored')
        /\ IdsOf(stored') \subseteq IdsOf(stored)
        /\ OneDefault(stored) => ContentOf(stored') = ContentOf(stored)
        /\ UNCHANGED <<legacy, removed>>
    BY <2>1, ReadKeeps
  <2>4. DialogFits'
    <3>1. dialog /\ ~outdated => OneDefault(stored) /\ ContentOf(memo) = ContentOf(stored)
      BY <2>1 DEF DialogFits
    <3>2. ContentOf(memo)' = ContentOf(memo) /\ ContentOf(stored)' = ContentOf(stored')
      BY <2>1, <2>3 DEF ContentOf, Recover, Copied
    <3>3. OneDefault(stored)'
      BY <2>3 DEF OneDefault
    <3>4. (removed \cap IdsOf(memo) \subseteq IdsOf(legacy))'
      BY <2>1, <2>3 DEF DialogFits, IdsOf
    <3> QED
      BY <1>1, <2>1, <2>3, <3>1, <3>2, <3>3, <3>4 DEF DialogFits
  <2>5. p.id \notin removed \ IdsOf(legacy)
    <3>1. stored' \in Seq(Profile)
      BY <2>3 DEF StoreFits
    <3>2. CASE p.id \in IdsOf(stored')
      BY <2>3, <3>2 DEF StoreFits, RemovedStaysRemoved
    <3>3. CASE p.id \notin IdsOf(stored')
      <4> DEFINE id == IF activeId' # NoProfile THEN activeId' ELSE legacyActive
      <4>1. id \notin IdsOf(stored')
        <5> SUFFICES ASSUME id \in IdsOf(stored') PROVE FALSE
          OBVIOUS
        <5>1. p = Copied(WithId(stored', id))
          BY <2>2 DEF ActiveProfile
        <5> HIDE DEF id
        <5>2. WithId(stored', id) \in Profile /\ WithId(stored', id).id = id
          BY <3>1, WithIdIsFound
        <5>3. p.id = id
          BY <5>1, <5>2 DEF Copied, Profile
        <5> QED
          BY <3>3, <5>3
      <4>2. stored' = <<>>
        <5> SUFFICES ASSUME stored' # <<>> PROVE FALSE
          OBVIOUS
        <5>1. p = Copied(stored'[1])
          BY <2>2, <4>1 DEF ActiveProfile
        <5>2. 1 \in DOMAIN stored' /\ stored'[1] \in Profile
          BY <3>1
        <5>3. p.id = stored'[1].id
          BY <5>1, <5>2 DEF Copied, Profile
        <5> QED
          BY <3>3, <5>2, <5>3 DEF IdsOf
      <4> QED
        BY <2>2, <4>1, <4>2 DEF ActiveProfile
    <3> QED
      BY <3>2, <3>3
  <2>6. ToolsFit'
    <3>1. selector' \in [base : Profile, modules : 0..1] /\ selector'.base = p
      BY <2>2 DEF Profile
    <3>2. (selector.base.id \notin removed \ IdsOf(legacy))'
      BY <2>3, <2>5, <3>1 DEF IdsOf
    <3> QED
      BY <2>1, <3>1, <3>2 DEF ToolsFit
  <2> QED
    BY <2>3, <2>4, <2>6
<1>9. ASSUME ToggleModules PROVE ProfilesParts' /\ NoneVanishes
  <2>1. /\ selector # NoProfile /\ selector' = [selector EXCEPT !.modules = 1 - @]
        /\ UNCHANGED <<stored, activeId, saves, removed, astray, legacy, legacyActive>>
        /\ UNCHANGED <<dialog, memo, chosen, outdated, editor>>
        /\ UNCHANGED <<accountIds, pendingSave, pendingChanged, selectionChanged>>
    BY <1>9 DEF ToggleModules, keyVars, dialogVars, editorVars
  <2>2. DialogFits'
    BY <1>1, <2>1, DialogStays
  <2>3. selector \in [base : Profile, modules : 0..1]
    BY <2>1 DEF ToolsFit
  <2>4. selector' \in [base : Profile, modules : 0..1] /\ selector'.base = selector.base
    BY <2>1, <2>3
  <2>5. ToolsFit'
    BY <2>1, <2>4 DEF ToolsFit, IdsOf
  <2> QED
    BY <1>2, <2>1, <2>2, <2>5
<1>10. ASSUME selector # NoProfile
       PROVE  /\ SelectorProfile \in Profile /\ SelectorProfile.id = selector.base.id
              /\ SelectorProfile.id \notin removed \ IdsOf(legacy)
  <2>1. selector \in [base : Profile, modules : 0..1]
    BY <1>10 DEF ToolsFit
  <2>2. SelectorProfile \in Profile /\ SelectorProfile.id = selector.base.id
    BY <2>1 DEF SelectorProfile, Profile
  <2> QED
    BY <1>10, <2>2 DEF ToolsFit
<1>11. ASSUME SaveSelection PROVE ProfilesParts' /\ NoneVanishes
  <2>1. /\ selector # NoProfile /\ selector' = NoProfile
        /\ UNCHANGED <<dialog, chosen, editor>>
        /\ UNCHANGED <<accountIds, pendingSave, pendingChanged, selectionChanged>>
    BY <1>11 DEF SaveSelection, editorVars
  <2>2. ToolsFit'
    BY <2>1 DEF ToolsFit
  <2>3. CASE SelectionChanged
    <3>1. SaveProfile(SelectorProfile) /\ RefreshMemo
      BY <1>11, <2>3 DEF SaveSelection
    <3>2. StoreFits' /\ NoneVanishes /\ OneDefault(stored')
      BY <1>10, <2>1, <3>1, SaveKeeps
    <3>3. DialogFits'
      BY <1>1, <2>1, <3>1, <3>2, MemoKeeps
    <3> QED
      BY <2>2, <3>2, <3>3
  <2>4. CASE ~SelectionChanged
    <3>1. /\ UNCHANGED <<stored, activeId, saves, removed, astray, legacy, legacyActive>>
          /\ UNCHANGED <<memo, outdated>>
      BY <1>11, <2>4 DEF SaveSelection, keyVars
    <3>2. DialogFits'
      BY <1>1, <2>1, <3>1, DialogStays
    <3> QED
      BY <1>2, <2>2, <3>1, <3>2
  <2> QED
    BY <2>3, <2>4
<1>12. ASSUME CloseSelector PROVE ProfilesParts' /\ NoneVanishes
  <2>1. /\ selector' = NoProfile
        /\ UNCHANGED <<stored, activeId, saves, removed, astray, legacy, legacyActive>>
        /\ UNCHANGED <<dialog, memo, chosen, outdated, editor>>
        /\ UNCHANGED <<accountIds, pendingSave, pendingChanged, selectionChanged>>
    BY <1>12 DEF CloseSelector, keyVars, dialogVars, editorVars
  <2>2. DialogFits'
    BY <1>1, <2>1, DialogStays
  <2>3. ToolsFit'
    BY <2>1 DEF ToolsFit
  <2> QED
    BY <1>2, <2>1, <2>2, <2>3
<1>13. ASSUME Read, editor = NoProfile, UNCHANGED <<memo, dialog, chosen>>,
              (dialog /\ ~outdated' => ~outdated), outdated' \in BOOLEAN
       PROVE  DialogFits'
  <2>1. dialog /\ ~outdated => OneDefault(stored) /\ ContentOf(memo) = ContentOf(stored)
    BY <1>13 DEF DialogFits
  <2>2. /\ OneDefault(stored') /\ UNCHANGED <<legacy, removed>>
        /\ OneDefault(stored) => ContentOf(stored') = ContentOf(stored)
    BY <1>13, ReadKeeps
  <2>3. ContentOf(memo)' = ContentOf(memo) /\ ContentOf(stored)' = ContentOf(stored')
    BY <1>13, <2>2 DEF ContentOf, Recover, Copied
  <2>4. OneDefault(stored)' /\ (removed \cap IdsOf(memo) \subseteq IdsOf(legacy))'
    BY <1>13, <2>2 DEF DialogFits, OneDefault, IdsOf
  <2> QED
    BY <1>1, <1>13, <2>1, <2>2, <2>3, <2>4 DEF DialogFits
<1>14. ASSUME LeaveForContext PROVE ProfilesParts' /\ NoneVanishes
  <2>1. /\ selector # NoProfile /\ selector' = NoProfile /\ EditorOpens
        /\ UNCHANGED <<dialog, memo, chosen>> /\ editor = NoProfile
    BY <1>14 DEF LeaveForContext, ToolsFit
  <2>2. CASE SelectionChanged
    <3>1. SaveProfile(SelectorProfile) /\ outdated' = TRUE
      BY <1>14, <2>2 DEF LeaveForContext
    <3>2. StoreFits' /\ NoneVanishes /\ UNCHANGED <<legacy, removed>>
      BY <1>10, <2>1, <3>1, SaveKeeps
    <3>3. DialogFits'
      BY <1>1, <2>1, <3>1, <3>2 DEF DialogFits, IdsOf
    <3> QED
      BY <2>1, <3>2, <3>3, EditorKeeps
  <2>3. CASE ~SelectionChanged
    <3>1. Read /\ outdated' = outdated
      BY <1>14, <2>3 DEF LeaveForContext
    <3>2. StoreFits' /\ NoneVanishes /\ UNCHANGED <<legacy, removed>>
      BY <3>1, ReadKeeps
    <3>3. DialogFits'
      BY <1>1, <1>13, <2>1, <3>1
    <3> QED
      BY <2>1, <3>2, <3>3, EditorKeeps
  <2> QED
    BY <2>2, <2>3
<1>15. ASSUME OpenProfileEditor PROVE ProfilesParts' /\ NoneVanishes
  <2>1. /\ Read /\ EditorOpens /\ editor = NoProfile /\ selector' = NoProfile
        /\ UNCHANGED <<dialog, memo, chosen, outdated>>
    BY <1>15 DEF OpenProfileEditor, dialogVars
  <2>2. StoreFits' /\ NoneVanishes /\ UNCHANGED <<legacy, removed>>
    BY <2>1, ReadKeeps
  <2>3. DialogFits'
    BY <1>1, <1>13, <2>1
  <2> QED
    BY <2>1, <2>2, <2>3, EditorKeeps
<1>16. ASSUME NEW p \in Brought, ShowAccountCopy(p) PROVE ProfilesParts' /\ NoneVanishes
  <2>1. /\ editor # NoProfile /\ editor' = p /\ p \in Profile \ {NoProfile} /\ accountIds' = {}
        /\ UNCHANGED <<stored, activeId, saves, removed, astray, legacy, legacyActive>>
        /\ UNCHANGED <<dialog, memo, chosen, outdated, selector>>
        /\ UNCHANGED <<pendingSave, pendingChanged, selectionChanged>>
    BY <1>16, BroughtAssumption, NoProfileAssumption DEF ShowAccountCopy, keyVars, dialogVars
  <2>2. DialogFits'
    <3>1. editor' # NoProfile
      BY <2>1
    <3> QED
      BY <1>1, <2>1, <3>1, DialogStays
  <2>3. ToolsFit'
    BY <2>1 DEF ToolsFit
  <2> QED
    BY <1>2, <2>1, <2>2, <2>3
<1>17. ASSUME SaveEdits PROVE ProfilesParts' /\ NoneVanishes
  <2>1. /\ pendingSave # NoProfile /\ pendingSave' = NoProfile /\ pendingChanged' = FALSE
        /\ selectionChanged' = (selectionChanged \/ pendingChanged)
        /\ editor' = IF editor = NoProfile THEN NoProfile ELSE pendingSave
        /\ Read /\ UNCHANGED <<dialog, memo, chosen, outdated, selector, accountIds>>
    BY <1>17 DEF SaveEdits, dialogVars
  <2>2. /\ StoreFits' /\ NoneVanishes /\ OneDefault(stored') /\ UNCHANGED <<legacy, removed>>
        /\ OneDefault(stored) => ContentOf(stored') = ContentOf(stored)
    BY <2>1, ReadKeeps
  <2>3. DialogFits'
    <3>1. editor' = NoProfile <=> editor = NoProfile
      BY <2>1
    <3>2. dialog /\ ~outdated /\ (editor' = NoProfile \/ (~selectionChanged' /\ ~pendingChanged')) =>
            OneDefault(stored) /\ ContentOf(memo) = ContentOf(stored)
      BY <2>1, <3>1 DEF DialogFits
    <3>3. ContentOf(memo)' = ContentOf(memo) /\ ContentOf(stored)' = ContentOf(stored')
      BY <2>1, <2>2 DEF ContentOf, Recover, Copied
    <3>4. OneDefault(stored)' /\ (removed \cap IdsOf(memo) \subseteq IdsOf(legacy))'
      BY <2>1, <2>2 DEF DialogFits, OneDefault, IdsOf
    <3> QED
      BY <1>1, <2>1, <2>2, <3>2, <3>3, <3>4 DEF DialogFits
  <2>4. ToolsFit'
    <3>1. selectionChanged' \in BOOLEAN
      BY <2>1 DEF ToolsFit
    <3> QED
      BY <2>1, <2>2, <3>1 DEF ToolsFit, IdsOf
  <2> QED
    BY <2>2, <2>3, <2>4
<1>18. ASSUME CloseEditor PROVE ProfilesParts' /\ NoneVanishes
  <2>1. /\ editor # NoProfile /\ editor' = NoProfile /\ accountIds' = {}
        /\ UNCHANGED <<dialog, chosen, selector>>
        /\ UNCHANGED <<pendingSave, pendingChanged, selectionChanged>>
    BY <1>18 DEF CloseEditor
  <2>2. ToolsFit'
    BY <2>1 DEF ToolsFit
  <2>3. CASE selectionChanged
    <3>1. Read /\ RefreshMemo
      BY <1>18, <2>3 DEF CloseEditor
    <3>2. StoreFits' /\ NoneVanishes /\ OneDefault(stored')
      BY <3>1, ReadKeeps
    <3>3. DialogFits'
      BY <1>1, <2>1, <3>1, <3>2, MemoKeeps
    <3> QED
      BY <2>2, <3>2, <3>3
  <2>4. CASE ~selectionChanged
    <3>1. /\ outdated' = (outdated \/ pendingChanged) /\ memo' = memo
          /\ UNCHANGED <<stored, activeId, saves, removed, astray, legacy, legacyActive>>
      BY <1>18, <2>4 DEF CloseEditor, keyVars
    <3>2. outdated' \in BOOLEAN /\ (~outdated' => ~outdated /\ ~pendingChanged)
      BY <1>1, <3>1 DEF ToolsFit
    <3>3. dialog /\ ~outdated' => OneDefault(stored) /\ ContentOf(memo) = ContentOf(stored)
      BY <2>4, <3>2 DEF DialogFits
    <3>4. /\ ContentOf(memo)' = ContentOf(memo) /\ ContentOf(stored)' = ContentOf(stored)
          /\ OneDefault(stored)' = OneDefault(stored)
      BY <3>1 DEF ContentOf, Recover, Copied, OneDefault
    <3>5. (removed \cap IdsOf(memo) \subseteq IdsOf(legacy))'
      BY <3>1 DEF DialogFits, IdsOf
    <3>6. DialogFits'
      BY <1>1, <2>1, <3>1, <3>2, <3>3, <3>4, <3>5 DEF DialogFits
    <3> QED
      BY <1>2, <2>2, <3>1, <3>6
  <2> QED
    BY <2>3, <2>4
<1>19. ASSUME NEW id \in Ids, SelectProfile(id) PROVE ProfilesParts' /\ NoneVanishes
  <2>1. /\ id \in IdsOf(memo) /\ chosen' = id /\ activeId' = id
        /\ astray' = (id \notin IdsOf(stored))
        /\ UNCHANGED <<stored, saves, removed, legacy, legacyActive, dialog, memo, outdated>>
        /\ UNCHANGED <<selector, editor, accountIds, pendingSave, pendingChanged, selectionChanged>>
    BY <1>19 DEF SelectProfile, keyVars, editorVars
  <2>2. DialogFits'
    BY <1>1, <2>1, DialogStays
  <2>3. ToolsFit'
    BY <2>1 DEF ToolsFit, IdsOf
  <2>4. NoneVanishes
    BY <2>1 DEF NoneVanishes, IdsOf
  <2>5. astray' \in BOOLEAN /\ activeId' \in Ids
    BY <2>1
  <2>6. ActiveIsListed' /\ RemovedStaysRemoved'
    BY <2>1 DEF ActiveIsListed, StoreFits, RemovedStaysRemoved, IdsOf
  <2>7. StoreFits'
    BY <2>1, <2>5, <2>6 DEF StoreFits, DistinctIds
  <2> QED
    BY <2>2, <2>3, <2>4, <2>7
<1>20. ASSUME NEW id \in Ids, CreateContext(id) PROVE ProfilesParts' /\ NoneVanishes
  <2> DEFINE p == [id |-> id, name |-> "own", role |-> "unknown", modules |-> 0, at |-> 0]
  <2>1. /\ OnTop /\ id \notin removed /\ SaveProfile(p) /\ RefreshMemo /\ chosen' = id
        /\ EditorOpens /\ UNCHANGED <<dialog, selector>>
    BY <1>20 DEF CreateContext
  <2>2. p \in Profile /\ p.id = id
    BY SavesAssumption DEF Profile
  <2> HIDE DEF p
  <2>3. StoreFits' /\ NoneVanishes /\ OneDefault(stored') /\ UNCHANGED <<legacy, removed>>
    BY <2>1, <2>2, SaveKeeps
  <2>4. DialogFits'
    BY <1>1, <2>1, <2>3, MemoKeeps
  <2>5. ToolsFit'
    BY <2>1, <2>3, EditorKeeps DEF OnTop
  <2> QED
    BY <2>3, <2>4, <2>5
<1>21. ASSUME NEW p \in Profile, SaveEdited(p) PROVE ProfilesParts' /\ NoneVanishes
  <2>1. /\ editor # NoProfile /\ pendingSave = NoProfile /\ p.at = 0
        /\ saves < MaxSaves /\ saves' = saves + 1 /\ activeId' = p.id /\ astray' = FALSE
        /\ UNCHANGED <<legacy, legacyActive>>
        /\ stored' = After(p) /\ removed' = removed \ {p.id}
        /\ pendingSave' = p /\ pendingChanged' = (p # editor)
        /\ outdated' = \/ outdated
                       \/ p = editor /\ \A i \in DOMAIN stored : Copied(stored[i]) # p
        /\ UNCHANGED <<dialog, memo, chosen, selector, editor, accountIds, selectionChanged>>
    BY <1>21 DEF SaveEdited, Stamp, keyVars
  <2>2. /\ stored \in Seq(Profile) /\ legacy \in Seq(Profile) /\ DistinctIds(stored)
        /\ (stored = <<>> => legacy = <<>>) /\ saves \in 1..MaxSaves
    BY DEF StoreFits
  <2>3. saves + 1 \in 1..MaxSaves
    BY <2>1, <2>2, SavesAssumption
  <2>4. /\ stored' \in Seq(Profile) /\ DistinctIds(stored') /\ stored' # <<>>
        /\ p.id \in IdsOf(stored') /\ IdsOf(stored') \subseteq IdsOf(stored) \cup {p.id}
        /\ \A i \in DOMAIN stored : i \in DOMAIN stored' /\ stored'[i].id = stored[i].id
        /\ (OneDefault(stored) /\ \E i \in DOMAIN stored : Copied(stored[i]) = Copied(p)) =>
             OneDefault(stored') /\ ContentOf(stored') = ContentOf(stored)
    BY <2>1, <2>2, <2>3, AfterKeeps
  <2>5. Copied(p) = p
    BY <2>1 DEF Copied, Profile
  <2>6. NoneVanishes
    BY <2>4 DEF NoneVanishes, IdsOf
  <2>7. RemovedStaysRemoved' /\ ActiveIsListed'
    BY <2>1, <2>4 DEF StoreFits, RemovedStaysRemoved, ActiveIsListed
  <2>8. StoreFits'
    <3>1. p.id \in Ids
      BY DEF Profile
    <3> QED
      BY <2>1, <2>2, <2>3, <2>4, <2>7, <3>1 DEF StoreFits
  <2>9. ToolsFit'
    <3>1. pendingChanged' \in BOOLEAN /\ pendingSave' \in Profile /\ p # NoProfile
      BY <2>1, NoProfileAssumption
    <3>2. selector = NoProfile
      BY <2>1 DEF ToolsFit
    <3> QED
      BY <2>1, <3>1, <3>2 DEF ToolsFit
  <2>10. ASSUME dialog', ~outdated', ~selectionChanged', ~pendingChanged'
         PROVE  OneDefault(stored') /\ ContentOf(memo) = ContentOf(stored')
    <3>1. ~outdated /\ p = editor /\ \E i \in DOMAIN stored : Copied(stored[i]) = p
      BY <2>1, <2>10
    <3>2. ~pendingChanged /\ ~selectionChanged /\ dialog
      BY <2>1, <2>10 DEF ToolsFit
    <3>3. OneDefault(stored) /\ ContentOf(memo) = ContentOf(stored)
      BY <3>1, <3>2 DEF DialogFits
    <3> QED
      BY <2>4, <2>5, <3>1, <3>3
  <2>11. DialogFits'
    <3>1. ContentOf(memo)' = ContentOf(memo) /\ ContentOf(stored)' = ContentOf(stored')
      BY <2>1 DEF ContentOf, Recover, Copied
    <3>2. outdated' \in BOOLEAN /\ OneDefault(stored)' = OneDefault(stored')
      BY <1>1, <2>1 DEF OneDefault
    <3>3. (removed \cap IdsOf(memo) \subseteq IdsOf(legacy))'
      BY <2>1 DEF DialogFits, IdsOf
    <3> QED
      BY <1>1, <2>1, <2>10, <3>1, <3>2, <3>3 DEF DialogFits
  <2> QED
    BY <2>6, <2>8, <2>9, <2>11
<1>22. ASSUME UNCHANGED profVars PROVE ProfilesParts'
  <2>1. /\ UNCHANGED <<stored, activeId, saves, removed, astray, legacy, legacyActive>>
        /\ UNCHANGED <<dialog, memo, chosen, outdated, selector, editor>>
        /\ UNCHANGED <<accountIds, pendingSave, pendingChanged, selectionChanged>>
    BY <1>22 DEF profVars, keyVars, dialogVars, editorVars
  <2>2. DialogFits'
    BY <1>1, <2>1, DialogStays
  <2>3. ToolsFit'
    BY <2>1 DEF ToolsFit, IdsOf
  <2> QED
    BY <1>2, <2>1, <2>2, <2>3
<1> HIDE DEF ProfilesParts
<1> QED
  BY <1>3, <1>4, <1>5, <1>6, <1>7, <1>8, <1>9, <1>11, <1>12, <1>14, <1>15, <1>16, <1>17, <1>18,
     <1>19, <1>20, <1>21, <1>22 DEF ProfilesNext

LEMMA ProfilesInitially == ProfilesInit => ProfilesParts
<1> SUFFICES ASSUME ProfilesInit PROVE ProfilesParts
  OBVIOUS
<1>1. /\ legacy \in Leftovers /\ legacyActive \in Ids \cup {NoProfile}
      /\ activeId = MigrateActive(<<>>, NoProfile)
      /\ stored = List(List(<<>>, NoProfile), activeId)
      /\ saves = 1 /\ removed = {} /\ astray = FALSE
      /\ dialog = FALSE /\ memo = stored /\ chosen = NoProfile /\ outdated = FALSE
      /\ selector = NoProfile /\ editor = NoProfile /\ accountIds = {}
      /\ pendingSave = NoProfile /\ pendingChanged = FALSE /\ selectionChanged = FALSE
  BY DEF ProfilesInit
<1>2. legacy \in Seq(Profile) /\ <<>> \in Seq(Profile)
  BY <1>1, LeftoversAssumption
<1> DEFINE mid == List(<<>>, NoProfile)
           end == List(mid, activeId)
<1>3. /\ mid \in Seq(Profile) /\ DistinctIds(mid)
      /\ mid = <<>> => legacy = <<>>
      /\ MigrateActive(<<>>, NoProfile) \in IdsOf(legacy) =>
           MigrateActive(<<>>, NoProfile) \in IdsOf(mid)
  BY <1>2, ListKeeps
<1> HIDE DEF mid
<1>4. /\ end \in Seq(Profile) /\ DistinctIds(end)
      /\ end = <<>> => mid = <<>> /\ legacy = <<>>
      /\ MigrateActive(mid, activeId) \in IdsOf(IF mid = <<>> THEN legacy ELSE mid) =>
           MigrateActive(mid, activeId) \in IdsOf(end)
      /\ mid # <<>> => MigrateActive(mid, activeId) = activeId
  BY <1>2, <1>3, ListKeeps
<1>5. stored = end
  BY <1>1 DEF mid
<1> HIDE DEF end
<1>6. activeId \in {NoProfile, legacyActive}
  BY <1>1 DEF MigrateActive
<1>7. activeId \in IdsOf(legacy) => activeId \in IdsOf(stored)
  <2>1. legacy # <<>> => mid # <<>>
    BY <1>3
  <2>2. legacy = <<>> => IdsOf(legacy) = {}
    BY DEF IdsOf
  <2> QED
    BY <1>1, <1>3, <1>4, <1>5, <2>1, <2>2
<1>8. ActiveIsListed
  BY <1>6, <1>7 DEF ActiveIsListed
<1>9. StoreFits
  <2>1. saves \in 1..MaxSaves /\ astray \in BOOLEAN
    <3>1. saves \in 1..MaxSaves
      BY <1>1, SavesAssumption
    <3>2. astray \in BOOLEAN
      BY <1>1
    <3> QED
      BY <3>1, <3>2
  <2>2. RemovedStaysRemoved
    BY <1>1 DEF RemovedStaysRemoved
  <2>3. {activeId, legacyActive} \subseteq Ids \cup {NoProfile}
    BY <1>1, <1>6
  <2>4. stored \in Seq(Profile) /\ DistinctIds(stored) /\ (stored = <<>> => legacy = <<>>)
    BY <1>4, <1>5
  <2> QED
    BY <1>2, <1>8, <2>1, <2>2, <2>3, <2>4 DEF StoreFits
<1>10. DialogFits
  BY <1>1, <1>4, <1>5 DEF DialogFits
<1>11. ToolsFit
  BY <1>1 DEF ToolsFit
<1> QED
  BY <1>9, <1>10, <1>11 DEF ProfilesParts

(* The active profile is listed, the dialog works on what is stored unless *)
(* App was not told of a save, and a removed profile stays removed, in     *)
(* spite of saves, migrations and duplicates; the type invariant with it.  *)
THEOREM ProfilesInvariant == ProfilesSpec => []ProfilesInv
<1>1. ProfilesParts /\ [ProfilesNext]_profVars => ProfilesParts'
  BY ProfilesStep
<1>2. ProfilesParts => ProfilesInv
  BY DEF ProfilesParts, StoreFits, DialogFits, ToolsFit, ProfilesInv, ProfilesTypeOK,
         DialogIsCurrent, OnTop
<1> QED
  BY ProfilesInitially, <1>1, <1>2, PTL DEF ProfilesSpec

(* No profile vanishes from the browser's list but one the user removes,   *)
(* or one of two with the default name.                                    *)
THEOREM ProfilesStay == ProfilesSpec => NothingVanishes
<1>1. ProfilesParts /\ [ProfilesNext]_profVars => ProfilesParts'
  BY ProfilesStep
<1>2. ProfilesParts /\ [ProfilesNext]_profVars => [NoneVanishes]_profVars
  BY ProfilesStep
<1> QED
  BY ProfilesInitially, <1>1, <1>2, PTL DEF ProfilesSpec, NothingVanishes, NoneVanishes

-----------------------------------------------------------------------------
(* Questions to the map. What the form holds is typed (QueryTypeOK), and   *)
(* QueryInv follows: the loop of the search is followed hop by hop against *)
(* the walks of the reference, first over all communications, then over    *)
(* those that matched.                                                     *)

(* What a search holds before its first hop, and after one more.           *)
SeedsOnly(seeds) == [reached |-> seeds, frontier |-> seeds, selected |-> {}]

AfterHop(links, old, q) ==
    [reached  |-> old.reached \cup Neighbours(links, old.frontier, q),
     frontier |-> Neighbours(links, old.frontier, q) \ old.reached,
     selected |-> old.selected \cup Leads(links, old.frontier, q)]

(* The recursion of a search has a solution.                               *)
LEMMA LevelsAre ==
    ASSUME NEW links, NEW seeds, NEW q, q.hops \in Nat
    PROVE  /\ Levels(links, seeds, q)[0] = SeedsOnly(seeds)
           /\ \A n \in 1..q.hops : Levels(links, seeds, q)[n] =
                                      AfterHop(links, Levels(links, seeds, q)[n - 1], q)
<1> DEFINE Initial == SeedsOnly(seeds)
           Hop(old) == AfterHop(links, old, q)
           Solves(f, k) == f = [n \in 0..k |-> IF n = 0 THEN Initial ELSE Hop(f[n - 1])]
           Q == {k \in Nat : \E f : Solves(f, k)}
<1> HIDE DEF Initial, Hop
<1>1. 0 \in Q
  <2> DEFINE f == [n \in {0} |-> Initial]
  <2>1. Solves(f, 0)
    OBVIOUS
  <2> QED
    BY <2>1
<1>2. ASSUME NEW k \in 0..(q.hops - 1), k \in Q PROVE k + 1 \in Q
  <2>1. PICK f : Solves(f, k)
    BY <1>2
  <2> DEFINE g == [n \in 0..(k + 1) |-> IF n <= k THEN f[n] ELSE Hop(f[n - 1])]
  <2>2. \A n \in 0..(k + 1) : n # 0 => n - 1 \in 0..k
    OBVIOUS
  <2>3. \A n \in 0..k : g[n] = f[n]
    OBVIOUS
  <2>4. \A n \in 0..(k + 1) : g[n] = IF n = 0 THEN Initial ELSE Hop(g[n - 1])
    <3> TAKE n \in 0..(k + 1)
    <3>1. CASE n \in 0..k
      <4>1. g[n] = f[n] /\ (n # 0 => g[n - 1] = f[n - 1])
        BY <2>2, <2>3, <3>1
      <4>2. f[n] = IF n = 0 THEN Initial ELSE Hop(f[n - 1])
        <5> HIDE DEF g
        <5> QED BY <2>1, <3>1
      <4> QED
        <5> HIDE DEF g
        <5> QED BY <4>1, <4>2
    <3>2. CASE n = k + 1
      <4>1. g[n - 1] = f[n - 1] /\ n # 0
        BY <2>2, <2>3, <3>2
      <4>2. g[n] = Hop(f[n - 1])
        BY <3>2
      <4> QED
        <5> HIDE DEF g
        <5> QED BY <4>1, <4>2
    <3> QED
      BY <3>1, <3>2
  <2>5. Solves(g, k + 1)
    <3>1. g = [n \in 0..(k + 1) |-> g[n]]
      OBVIOUS
    <3> HIDE DEF g
    <3> QED
      BY <3>1, <2>4
  <2>6. k + 1 \in Nat
    OBVIOUS
  <2> HIDE DEF g, Solves
  <2> QED
    BY <2>5, <2>6
<1>3. 0..q.hops \subseteq Q
  <2> HIDE DEF Q
  <2> QED
    BY <1>1, <1>2, Upward
<1> DEFINE level == CHOOSE f : Solves(f, q.hops)
<1>4. Solves(level, q.hops)
  <2>1. q.hops \in Q
    BY <1>3
  <2>2. \E f : Solves(f, q.hops)
    <3> HIDE DEF Solves
    <3> QED
      BY <2>1
  <2> HIDE DEF Solves
  <2> QED
    BY <2>2
<1>5. Levels(links, seeds, q) = level
  BY DEF Levels, Initial, Hop, SeedsOnly, AfterHop
<1> HIDE DEF level
<1>6. \A n \in 0..q.hops : level[n] = IF n = 0 THEN Initial ELSE Hop(level[n - 1])
  BY <1>4
<1> HIDE DEF Solves
<1>7. level[0] = Initial
  BY <1>6
<1>8. \A n \in 1..q.hops : level[n] = Hop(level[n - 1])
  BY <1>6
<1> QED
  BY <1>5, <1>7, <1>8 DEF Initial, Hop

(* One communication of links takes the search from a to b, and a walk of  *)
(* n of them from a seed to last: Linked and Walk, over any links.         *)
Crosses(links, a, b, q) ==
    \E e \in links :
        \/ q.direction # "inbound" /\ e.source = a /\ e.target = b
        \/ q.direction # "outbound" /\ e.target = a /\ e.source = b

WalkOver(links, seeds, n, last, q) ==
    \E w \in [0..n -> Devices] :
        /\ w[0] \in seeds /\ w[n] = last
        /\ \A i \in 1..n : Crosses(links, w[i - 1], w[i], q)

StepOver(links, e, seeds, n, q) ==
    \/ q.direction # "inbound" /\ WalkOver(links, seeds, n, e.source, q)
    \/ q.direction # "outbound" /\ WalkOver(links, seeds, n, e.target, q)

KnownEnds(links, seeds) ==
    seeds \subseteq Devices /\ \A e \in links : {e.source, e.target} \subseteq Devices

(* A walk goes on by one communication.                                    *)
LEMMA WalkGoesOn ==
    ASSUME NEW links, NEW seeds, NEW q, KnownEnds(links, seeds)
    PROVE  /\ \A d : WalkOver(links, seeds, 0, d, q) <=> d \in seeds
           /\ \A n \in Nat : \A d : WalkOver(links, seeds, n + 1, d, q) <=>
                 \E c : WalkOver(links, seeds, n, c, q) /\ Crosses(links, c, d, q)
<1>1. ASSUME NEW d PROVE WalkOver(links, seeds, 0, d, q) <=> d \in seeds
  <2>1. ASSUME d \in seeds PROVE WalkOver(links, seeds, 0, d, q)
    <3> DEFINE w == [i \in 0..0 |-> d]
    <3>1. w \in [0..0 -> Devices] /\ w[0] = d /\ 1..0 = {}
      BY <2>1 DEF KnownEnds
    <3> HIDE DEF w
    <3> QED
      BY <2>1, <3>1 DEF WalkOver
  <2> QED
    BY <2>1 DEF WalkOver
<1>2. ASSUME NEW n \in Nat, NEW d, WalkOver(links, seeds, n + 1, d, q)
      PROVE  \E c : WalkOver(links, seeds, n, c, q) /\ Crosses(links, c, d, q)
  <2>1. PICK w \in [0..(n + 1) -> Devices] :
               /\ w[0] \in seeds /\ w[n + 1] = d
               /\ \A i \in 1..(n + 1) : Crosses(links, w[i - 1], w[i], q)
    BY <1>2 DEF WalkOver
  <2> DEFINE v == [i \in 0..n |-> w[i]]
  <2>2. v \in [0..n -> Devices] /\ \A i \in 0..n : v[i] = w[i]
    OBVIOUS
  <2>3. \A i \in 1..n : Crosses(links, v[i - 1], v[i], q)
    <3> TAKE i \in 1..n
    <3>1. i - 1 \in 0..n /\ i \in 0..n /\ i \in 1..(n + 1)
      OBVIOUS
    <3> HIDE DEF v
    <3> QED
      BY <2>1, <2>2, <3>1
  <2>4. WalkOver(links, seeds, n, w[n], q)
    <3>1. v[0] \in seeds /\ v[n] = w[n]
      BY <2>1, <2>2
    <3> HIDE DEF v
    <3> QED
      BY <2>2, <2>3, <3>1 DEF WalkOver
  <2>5. Crosses(links, w[n], d, q)
    <3>1. n + 1 \in 1..(n + 1) /\ (n + 1) - 1 = n
      OBVIOUS
    <3> QED
      BY <2>1, <3>1
  <2> QED
    BY <2>4, <2>5
<1>3. ASSUME NEW n \in Nat, NEW c, NEW d, WalkOver(links, seeds, n, c, q),
             Crosses(links, c, d, q)
      PROVE  WalkOver(links, seeds, n + 1, d, q)
  <2>1. PICK w \in [0..n -> Devices] :
               /\ w[0] \in seeds /\ w[n] = c
               /\ \A i \in 1..n : Crosses(links, w[i - 1], w[i], q)
    BY <1>3 DEF WalkOver
  <2>2. d \in Devices
    BY <1>3 DEF Crosses, KnownEnds
  <2> DEFINE v == [i \in 0..(n + 1) |-> IF i <= n THEN w[i] ELSE d]
  <2>3. /\ v \in [0..(n + 1) -> Devices]
        /\ \A i \in 0..n : v[i] = w[i]
        /\ v[n + 1] = d
    BY <2>2
  <2>4. \A i \in 1..(n + 1) : Crosses(links, v[i - 1], v[i], q)
    <3> TAKE i \in 1..(n + 1)
    <3>1. CASE i \in 1..n
      <4>1. i - 1 \in 0..n /\ i \in 0..n
        BY <3>1
      <4> HIDE DEF v
      <4> QED
        BY <2>1, <2>3, <3>1, <4>1
    <3>2. CASE i = n + 1
      <4>1. i - 1 = n /\ n \in 0..n
        BY <3>2
      <4>2. v[i - 1] = c /\ v[i] = d
        BY <2>1, <2>3, <3>2, <4>1
      <4> HIDE DEF v
      <4> QED
        BY <1>3, <4>2
    <3> QED
      BY <3>1, <3>2
  <2>5. v[0] \in seeds
    <3>1. 0 \in 0..n
      OBVIOUS
    <3> HIDE DEF v
    <3> QED
      BY <2>1, <2>3, <3>1
  <2> HIDE DEF v
  <2> QED
    BY <2>3, <2>4, <2>5 DEF WalkOver
<1> QED
  BY <1>1, <1>2, <1>3

(* What a search holds after n hops, in terms of walks.                    *)
HoldsWalks(level, links, seeds, n, q) ==
    /\ \A d : d \in level.reached <=> \E k \in 0..n : WalkOver(links, seeds, k, d, q)
    /\ \A d : d \in level.frontier <=> /\ WalkOver(links, seeds, n, d, q)
                                       /\ \A k \in 0..(n - 1) : ~WalkOver(links, seeds, k, d, q)
    /\ \A e : e \in level.selected <=> /\ e \in links
                                       /\ \E k \in 0..(n - 1) : StepOver(links, e, seeds, k, q)

(* A hop of the loop keeps it so.                                          *)
LEMMA HopHoldsWalks ==
    ASSUME NEW links, NEW seeds, NEW q, KnownEnds(links, seeds), NEW n \in Nat, NEW old,
           HoldsWalks(old, links, seeds, n, q), NEW new,
           new = AfterHop(links, old, q)
    PROVE  HoldsWalks(new, links, seeds, n + 1, q)
<1> DEFINE Reaches(k, d) == WalkOver(links, seeds, k, d, q)
           Link(a, b) == Crosses(links, a, b, q)
           Next(d) == d \in Neighbours(links, old.frontier, q)
<1>1. \A d : Next(d) <=> \E c \in old.frontier : Link(c, d)
  BY DEF Neighbours, Forward, Reversed, Crosses
<1>2. /\ \A d : d \in old.reached <=> \E k \in 0..n : Reaches(k, d)
      /\ \A d : d \in old.frontier <=> Reaches(n, d) /\ \A k \in 0..(n - 1) : ~Reaches(k, d)
      /\ \A e : e \in old.selected <=>
                  e \in links /\ \E k \in 0..(n - 1) : StepOver(links, e, seeds, k, q)
  BY DEF HoldsWalks
<1>3. \A k \in Nat : \A d : Reaches(k + 1, d) <=> \E c : Reaches(k, c) /\ Link(c, d)
  BY WalkGoesOn
<1> HIDE DEF Reaches, Link, Next
<1>4. \A c : Reaches(n, c) => c \in old.frontier \/ \E k \in 0..(n - 1) : Reaches(k, c)
  BY <1>2
<1>5. \A d : Reaches(n + 1, d) => Next(d) \/ d \in old.reached
  <2> SUFFICES ASSUME NEW d, Reaches(n + 1, d), ~Next(d) PROVE d \in old.reached
    OBVIOUS
  <2>1. PICK c : Reaches(n, c) /\ Link(c, d)
    BY <1>3
  <2>2. PICK k \in 0..(n - 1) : Reaches(k, c)
    BY <1>1, <1>4, <2>1
  <2>3. k \in Nat /\ k + 1 \in 0..n
    OBVIOUS
  <2>4. Reaches(k + 1, d)
    BY <1>3, <2>1, <2>2, <2>3
  <2> QED
    BY <1>2, <2>3, <2>4
<1>6. \A d : Next(d) => Reaches(n + 1, d)
  BY <1>1, <1>2, <1>3
<1>7. 0..(n + 1) = (0..n) \cup {n + 1} /\ (n + 1) - 1 = n
  OBVIOUS
<1>8. \A d : d \in new.reached <=> \E k \in 0..(n + 1) : Reaches(k, d)
  <2>1. \A d : d \in new.reached <=> d \in old.reached \/ Next(d)
    BY DEF Next, AfterHop
  <2> QED
    BY <2>1, <1>2, <1>5, <1>6, <1>7
<1>9. \A d : d \in new.frontier <=>
                Reaches(n + 1, d) /\ \A k \in 0..((n + 1) - 1) : ~Reaches(k, d)
  <2>1. \A d : d \in new.frontier <=> Next(d) /\ d \notin old.reached
    BY DEF Next, AfterHop
  <2> QED
    BY <2>1, <1>2, <1>5, <1>6, <1>7
<1>10. \A e : e \in new.selected <=>
            e \in links /\ \E k \in 0..((n + 1) - 1) : StepOver(links, e, seeds, k, q)
  <2> DEFINE Steps(e, k) == StepOver(links, e, seeds, k, q)
             Outward == q.direction # "inbound"
             Inward == q.direction # "outbound"
             Leaves(e) == \/ Outward /\ e.source \in old.frontier
                          \/ Inward /\ e.target \in old.frontier
  <2>1. \A e : e \in new.selected <=> e \in old.selected \/ (e \in links /\ Leaves(e))
    BY DEF AfterHop, Leads, Forward, Reversed
  <2>2. \A e, k : Steps(e, k) <=> (\/ Outward /\ Reaches(k, e.source)
                                   \/ Inward /\ Reaches(k, e.target))
    BY DEF StepOver, Reaches
  <2>3. 0..n = (0..(n - 1)) \cup {n}
    OBVIOUS
  <2>4. \A e : Leaves(e) => Steps(e, n)
    BY <1>2, <2>2
  <2>5. \A e : Steps(e, n) => Leaves(e) \/ \E k \in 0..(n - 1) : Steps(e, k)
    <3> HIDE DEF Outward, Inward, Steps
    <3> QED
      BY <1>4, <2>2
  <2>6. \A e : e \in old.selected <=> e \in links /\ \E k \in 0..(n - 1) : Steps(e, k)
    BY <1>2
  <2> HIDE DEF Steps, Leaves
  <2>7. \A e : e \in new.selected <=> e \in links /\ \E k \in 0..n : Steps(e, k)
    BY <2>1, <2>3, <2>4, <2>5, <2>6
  <2> QED
    BY <1>7, <2>7 DEF Steps
<1> QED
  BY <1>8, <1>9, <1>10 DEF HoldsWalks, Reaches

(* So the loop finds what walks reach, hop by hop.                         *)
LEMMA SearchHoldsWalks ==
    ASSUME NEW links, NEW seeds, NEW q, q.hops \in Nat, KnownEnds(links, seeds)
    PROVE  \A n \in 0..q.hops : HoldsWalks(Levels(links, seeds, q)[n], links, seeds, n, q)
<1> DEFINE level(n) == Levels(links, seeds, q)[n]
           Q == {n \in 0..q.hops : HoldsWalks(level(n), links, seeds, n, q)}
<1>1. 0 \in Q
  <2>1. level(0) = [reached |-> seeds, frontier |-> seeds, selected |-> {}]
    BY LevelsAre DEF SeedsOnly
  <2>2. \A d : WalkOver(links, seeds, 0, d, q) <=> d \in seeds
    BY WalkGoesOn
  <2>3. 0..0 = {0} /\ 0..(0 - 1) = {}
    OBVIOUS
  <2> HIDE DEF level
  <2>4. HoldsWalks(level(0), links, seeds, 0, q)
    BY <2>1, <2>2, <2>3 DEF HoldsWalks
  <2> QED
    BY <2>4
<1>2. ASSUME NEW n \in 0..(q.hops - 1), n \in Q PROVE n + 1 \in Q
  <2>1. n + 1 \in 1..q.hops /\ (n + 1) - 1 = n /\ n \in Nat /\ n + 1 \in 0..q.hops
    OBVIOUS
  <2>2. level(n + 1) = AfterHop(links, level(n), q)
    <3>1. \A m \in 1..q.hops : level(m) = AfterHop(links, level(m - 1), q)
      BY LevelsAre
    <3> HIDE DEF level
    <3> QED
      BY <2>1, <3>1
  <2>3. HoldsWalks(level(n), links, seeds, n, q)
    BY <1>2
  <2> HIDE DEF level
  <2>4. HoldsWalks(level(n + 1), links, seeds, n + 1, q)
    BY <2>1, <2>2, <2>3, HopHoldsWalks
  <2> QED
    BY <2>1, <2>4
<1>3. 0..q.hops \subseteq Q
  <2> HIDE DEF Q
  <2> QED
    BY <1>1, <1>2, Upward
<1> QED
  BY <1>3

(* The question that is asked, in the types of its form.                   *)
QueryTypeOK ==
    /\ graph \in Graphs
    /\ question.start \in Devices \cup {Anything}
    /\ question.hops \in 1..MaxHops
    /\ resultPage \in Nat

(* The devices of a search are those of the report.                        *)
LEMMA EndsAreKnown ==
    ASSUME QueryTypeOK
    PROVE  /\ KnownEnds(Eligible(question), Seeds(question, drawn))
           /\ IsFiniteSet(Eligible(question))
           /\ question.hops \in Nat
<1>1. Eligible(question) \subseteq graph
  BY DEF Eligible
<1>2. IsFiniteSet(graph) /\ \A e \in graph : {e.source, e.target} \subseteq Devices
  BY GraphsAssumption DEF QueryTypeOK
<1>3. Ends(Eligible(question)) \subseteq Devices
  BY <1>1, <1>2 DEF Ends
<1>4. Seeds(question, drawn) \subseteq Devices
  BY <1>3 DEF Seeds, QueryTypeOK
<1>5. IsFiniteSet(Eligible(question))
  BY <1>1, <1>2, FS_Subset
<1>6. question.hops \in Nat
  BY TopologySizes DEF QueryTypeOK
<1> QED
  BY <1>1, <1>2, <1>4, <1>5, <1>6 DEF KnownEnds

(* What is matched is what walks over the communications take.             *)
LEMMA MatchingIsWalked ==
    ASSUME QueryTypeOK
    PROVE  \A e : e \in Matching(question, drawn) <=>
              /\ e \in Eligible(question)
              /\ \E n \in 0..(question.hops - 1) :
                   StepOver(Eligible(question), e, Seeds(question, drawn), n, question)
<1>1. question.hops \in 0..question.hops
  BY EndsAreKnown
<1>2. HoldsWalks(Levels(Eligible(question), Seeds(question, drawn), question)[question.hops],
                 Eligible(question), Seeds(question, drawn), question.hops, question)
  BY <1>1, EndsAreKnown, SearchHoldsWalks
<1> QED
  BY <1>2 DEF HoldsWalks, Matching

(* The reference of the model, over the communications it admits.          *)
LEMMA StepsAreOver ==
    \A e, seeds, n : StepAfter(e, seeds, n, question) <=>
                       StepOver(Eligible(question), e, seeds, n, question)
<1>1. \A a, b : Linked(a, b, question) <=> Crosses(Eligible(question), a, b, question)
  BY DEF Linked, Crosses
<1>2. \A seeds, n, last : Walk(seeds, n, last, question) <=>
                            WalkOver(Eligible(question), seeds, n, last, question)
  BY <1>1 DEF Walk, WalkOver
<1> QED
  BY <1>2 DEF StepAfter, StepOver

(* The search finds what the reference finds.                              *)
LEMMA SearchFollows ==
    ASSUME QueryTypeOK PROVE SearchFollowsCommunications
<1> SUFFICES ASSUME asked
             PROVE  Results = {e \in Eligible(question) :
                                 \E n \in 0..(question.hops - 1) :
                                    StepAfter(e, Seeds(question, drawn), n, question)}
  BY DEF SearchFollowsCommunications
<1>1. Results = Matching(question, drawn)
  BY DEF Results
<1> QED
  BY <1>1, MatchingIsWalked, StepsAreOver

(* Walks of the search from a named device lie within what it matched: the *)
(* second search, over the matches, takes the same.                        *)
LEMMA WalksAreMatched ==
    ASSUME QueryTypeOK, question.start # Anything,
           NEW links, links = Matching(question, drawn),
           NEW seeds, seeds = {question.start}
    PROVE  /\ KnownEnds(links, seeds)
           /\ \A k \in 0..(question.hops - 1) : \A e :
                 StepOver(links, e, seeds, k, question) <=>
                    StepOver(Eligible(question), e, seeds, k, question)
<1> DEFINE All == Eligible(question)
           Top == question.hops - 1
           Same(k) == \A d : WalkOver(links, seeds, k, d, question) <=>
                               WalkOver(All, seeds, k, d, question)
           Q == {k \in 0..Top : Same(k)}
<1>1. seeds = Seeds(question, drawn) /\ question.hops \in Nat /\ Top \in Nat
  BY TopologySizes DEF Seeds, QueryTypeOK
<1>2. \A e : e \in links <=> e \in All /\ \E n \in 0..Top : StepOver(All, e, seeds, n, question)
  BY <1>1, MatchingIsWalked
<1>3. KnownEnds(links, seeds) /\ KnownEnds(All, seeds)
  BY <1>1, <1>2, EndsAreKnown DEF KnownEnds
<1>4. \A k \in 0..Top : \A c, d : WalkOver(All, seeds, k, c, question) =>
         (Crosses(links, c, d, question) <=> Crosses(All, c, d, question))
  <2> SUFFICES ASSUME NEW k \in 0..Top, NEW c, NEW d, WalkOver(All, seeds, k, c, question)
               PROVE  Crosses(links, c, d, question) <=> Crosses(All, c, d, question)
    OBVIOUS
  <2>1. \A e \in All : \/ question.direction # "inbound" /\ e.source = c
                       \/ question.direction # "outbound" /\ e.target = c
                       => e \in links
    BY <1>2 DEF StepOver
  <2> QED
    BY <1>2, <2>1 DEF Crosses
<1>5. Same(0)
  BY <1>3, WalkGoesOn
<1>6. ASSUME NEW k \in 0..(Top - 1), Same(k) PROVE Same(k + 1)
  <2>1. k \in Nat /\ k \in 0..Top
    BY <1>1
  <2>2. \A d : WalkOver(links, seeds, k + 1, d, question) <=>
          \E c : WalkOver(links, seeds, k, c, question) /\ Crosses(links, c, d, question)
    BY <1>3, <2>1, WalkGoesOn
  <2>3. \A d : WalkOver(All, seeds, k + 1, d, question) <=>
          \E c : WalkOver(All, seeds, k, c, question) /\ Crosses(All, c, d, question)
    BY <1>3, <2>1, WalkGoesOn
  <2> QED
    BY <1>4, <1>6, <2>1, <2>2, <2>3
<1>7. 0..Top \subseteq Q
  <2>1. 0 \in Q
    BY <1>1, <1>5
  <2>2. \A k \in 0..(Top - 1) : k \in Q => k + 1 \in Q
    <3> TAKE k \in 0..(Top - 1)
    <3>1. k + 1 \in 0..Top
      BY <1>1
    <3> HIDE DEF Same
    <3> QED
      BY <1>6, <3>1
  <2> HIDE DEF Q, Top
  <2> QED
    BY <1>1, <2>1, <2>2, Upward
<1>8. \A k \in 0..Top : \A e : StepOver(links, e, seeds, k, question) <=>
                             StepOver(All, e, seeds, k, question)
  BY <1>7 DEF StepOver
<1> QED
  BY <1>3, <1>8

(* Every result is labelled, with the first hop that takes it.             *)
LEMMA HopsFollow ==
    ASSUME QueryTypeOK PROVE HopsAreShortest
<1> SUFFICES ASSUME asked, question.start # Anything
             PROVE  LET depth == HopDepths(question, drawn)
                    IN /\ DOMAIN depth = Results
                       /\ \A e \in Results :
                            /\ StepAfter(e, {question.start}, depth[e] - 1, question)
                            /\ \A n \in 0..(depth[e] - 2) :
                                 ~StepAfter(e, {question.start}, n, question)
  BY DEF HopsAreShortest
<1> DEFINE links == Matching(question, drawn)
           seeds == {question.start}
           Top == question.hops
           Step(e, k) == StepAfter(e, seeds, k, question)
           found(n) == Levels(links, seeds, question)[n].selected
           Hops(e) == {n \in 1..Top : e \in found(n)}
           depth == HopDepths(question, drawn)
<1>1. Top \in Nat /\ Top > 0
  BY TopologySizes DEF QueryTypeOK
<1>2. Results = links
  BY DEF Results
<1>3. \A e : e \in links <=>
               e \in Eligible(question) /\ \E k \in 0..(Top - 1) : Step(e, k)
  BY MatchingIsWalked, StepsAreOver DEF Seeds
<1>4. \A n \in 0..Top : \A e : e \in found(n) <=>
                              e \in links /\ \E k \in 0..(n - 1) : Step(e, k)
  <2> TAKE n \in 0..Top
  <2> TAKE e
  <2>1. KnownEnds(links, seeds) /\ \A k \in 0..(Top - 1) :
          StepOver(links, e, seeds, k, question) <=> Step(e, k)
    BY WalksAreMatched, StepsAreOver
  <2>2. HoldsWalks(Levels(links, seeds, question)[n], links, seeds, n, question)
    <3> HIDE DEF links, seeds
    <3> QED
      BY <1>1, <2>1, SearchHoldsWalks
  <2>3. e \in found(n) <=> e \in links /\ \E k \in 0..(n - 1) :
                                            StepOver(links, e, seeds, k, question)
    <3> HIDE DEF links, seeds
    <3> QED
      BY <2>2 DEF HoldsWalks
  <2>4. 0..(n - 1) \subseteq 0..(Top - 1)
    BY <1>1
  <2> HIDE DEF links, seeds, found, Step
  <2> QED
    BY <2>1, <2>3, <2>4
<1>5. found(Top) = links
  <2>1. Top \in 0..Top
    BY <1>1
  <2>2. \A e : e \in found(Top) <=> e \in links
    <3> HIDE DEF links, found, Step, Top
    <3> QED
      BY <1>1, <1>3, <1>4, <2>1
  <2> HIDE DEF links, found
  <2> QED
    BY <2>2
<1>6. depth = [e \in links |-> Min(Hops(e))]
  <2>1. depth = [e \in found(Top) |-> Min(Hops(e))]
    BY DEF HopDepths
  <2> HIDE DEF depth, found, Hops, links
  <2> QED
    BY <1>5, <2>1
<1>7. ASSUME NEW e \in links
      PROVE  Step(e, Min(Hops(e)) - 1) /\ \A n \in 0..(Min(Hops(e)) - 2) : ~Step(e, n)
  <2> HIDE DEF links, Step, found, seeds, Top
  <2>1. PICK k \in 0..(Top - 1) : Step(e, k)
    BY <1>3
  <2>2. k \in 0..((k + 1) - 1) /\ k + 1 \in 0..Top /\ k + 1 \in 1..Top
    BY <1>1
  <2>3. k + 1 \in Hops(e)
    BY <1>4, <2>1, <2>2
  <2>4. Hops(e) \in SUBSET (0..Top)
    BY <1>1
  <2>5. Min(Hops(e)) \in Hops(e) /\ \A y \in Hops(e) : Min(Hops(e)) <= y
    <3> HIDE DEF Hops
    <3> QED
      BY <1>1, <2>3, <2>4, MinIsLeast
  <2> DEFINE m == Min(Hops(e))
  <2>6. m \in 1..Top /\ m \in 0..Top /\ e \in found(m)
    BY <1>1, <2>5
  <2>7. \A n \in 0..(m - 2) : ~Step(e, n)
    <3> SUFFICES ASSUME NEW n \in 0..(m - 2), Step(e, n) PROVE FALSE
      OBVIOUS
    <3> HIDE DEF m
    <3>1. n + 1 \in 1..Top /\ n + 1 \in 0..Top /\ n \in 0..((n + 1) - 1) /\ n + 1 < m
      BY <1>1, <2>6
    <3>2. n + 1 \in Hops(e)
      BY <1>4, <3>1
    <3> HIDE DEF Hops
    <3> QED
      BY <2>5, <2>6, <3>1, <3>2 DEF m
  <2> HIDE DEF m, Hops
  <2>8. PICK j \in 0..(m - 1) : Step(e, j)
    BY <1>4, <2>6
  <2>9. j = m - 1
    BY <2>6, <2>7, <2>8
  <2> QED
    BY <2>7, <2>8, <2>9 DEF m
<1> HIDE DEF depth, links, Hops, Step
<1>8. DOMAIN depth = links /\ \A e \in links : depth[e] = Min(Hops(e))
  BY <1>6
<1> QED
  BY <1>2, <1>7, <1>8 DEF depth, Step

(* The last page of an answer begins before its last result.               *)
LEMMA PageHolds ==
    ASSUME NEW size \in Nat, size > 0, NEW count \in Nat, count > 0, NEW page \in Int
    PROVE  LET pages == (count + size - 1) \div size
           IN  pages >= 1 /\ (page <= pages - 1 => page * size < count)
<1> DEFINE pages == (count + size - 1) \div size
<1>1. pages \in Int /\ pages * size <= count + size - 1 /\ count + size - 1 < (pages + 1) * size
  OBVIOUS
<1> HIDE DEF pages
<1>2. pages >= 1
  <2> SUFFICES ASSUME pages <= 0 PROVE FALSE
    BY <1>1
  <2>1. pages + 1 <= 1
    BY <1>1
  <2>2. (pages + 1) * size <= 1 * size
    BY <2>1, <1>1
  <2> QED
    BY <1>1, <2>2
<1>3. ASSUME page <= pages - 1 PROVE page * size < count
  <2>1. page * size <= (pages - 1) * size
    BY <1>3, <1>1
  <2>2. (pages - 1) * size = pages * size - size
    BY <1>1
  <2> QED
    BY <2>1, <2>2, <1>1
<1> QED
  BY <1>2, <1>3 DEF pages

(* The size of an answer, and the page that is shown of it.                *)
LEMMA PagesAreCounted ==
    ASSUME QueryTypeOK
    PROVE  /\ Cardinality(Results) \in Nat /\ (Results # {} => Cardinality(Results) > 0)
           /\ PageCount \in Nat /\ PageCount >= 1
           /\ PageCount = 1 \/ PageCount = (Cardinality(Results) + PageSize - 1) \div PageSize
           /\ (Cardinality(Results) + PageSize - 1) \div PageSize <= PageCount
           /\ EffectivePage \in Nat /\ EffectivePage <= PageCount - 1
<1>1. IsFiniteSet(Results)
  <2>1. Results \subseteq Eligible(question)
    BY MatchingIsWalked DEF Results
  <2> QED
    BY <2>1, EndsAreKnown, FS_Subset
<1>2. Cardinality(Results) \in Nat /\ (Results # {} => Cardinality(Results) > 0)
  BY <1>1, FS_CardinalityType, FS_EmptySet
<1> DEFINE pages == (Cardinality(Results) + PageSize - 1) \div PageSize
<1>3. pages \in Nat
  BY <1>2, TopologySizes
<1>4. PageCount \in {1, pages} /\ \A y \in {1, pages} : PageCount >= y
  <2>1. pages + 1 \in Nat /\ {1, pages} \in SUBSET (0..(pages + 1))
    <3> HIDE DEF pages
    <3> QED BY <1>3
  <2> HIDE DEF pages
  <2>2. Max({1, pages}) \in {1, pages} /\ \A y \in {1, pages} : Max({1, pages}) >= y
    BY <2>1, MaxIsGreatest
  <2> QED
    BY <2>2 DEF PageCount, pages
<1>5. EffectivePage \in {resultPage, PageCount - 1} /\ EffectivePage <= PageCount - 1
  <2> DEFINE both == {resultPage, PageCount - 1}
  <2>1. resultPage \in Nat /\ PageCount - 1 \in Nat /\ PageCount \in Nat
    BY <1>3, <1>4 DEF QueryTypeOK
  <2>2. resultPage + PageCount \in Nat /\ both \in SUBSET (0..(resultPage + PageCount))
    <3>1. \A r \in Nat, p \in Nat : p - 1 \in Nat => p - 1 \in 0..(r + p) /\ r \in 0..(r + p)
      OBVIOUS
    <3> QED
      BY <2>1, <3>1
  <2>3. Min(both) \in both /\ \A y \in both : Min(both) <= y
    <3>1. both # {}
      OBVIOUS
    <3> HIDE DEF both
    <3> QED
      BY <2>2, <3>1, MinIsLeast
  <2> QED
    BY <2>3 DEF EffectivePage
<1> HIDE DEF pages
<1> QED
  BY <1>2, <1>3, <1>4, <1>5 DEF QueryTypeOK, pages

(* The page shown of an answer has results.                                *)
LEMMA PagesFollow ==
    ASSUME QueryTypeOK PROVE PageHasResults
<1> SUFFICES ASSUME Results # {} PROVE EffectivePage * PageSize < Cardinality(Results)
  BY DEF PageHasResults
<1> DEFINE count == Cardinality(Results)
           pages == (count + PageSize - 1) \div PageSize
<1>1. count \in Nat /\ count > 0 /\ EffectivePage \in Int /\ PageSize \in Nat /\ PageSize > 0
  BY PagesAreCounted, TopologySizes
<1>2. pages >= 1 /\ (EffectivePage <= pages - 1 => EffectivePage * PageSize < count)
  <2> HIDE DEF count
  <2> QED
    BY <1>1, PageHolds
<1>3. PageCount = 1 \/ PageCount = pages
  BY PagesAreCounted
<1>4. EffectivePage <= PageCount - 1 /\ EffectivePage \in Nat /\ pages <= PageCount
  BY PagesAreCounted
<1>5. pages \in Int
  BY <1>1
<1> HIDE DEF pages, count
<1>6. EffectivePage <= pages - 1
  BY <1>1, <1>2, <1>3, <1>4, <1>5
<1> QED
  BY <1>2, <1>6 DEF count

(* The form opens typed, and every field it sets keeps it so.              *)
LEMMA QueryInitially == TopologyQueryInit => QueryTypeOK
  BY TopologySizes DEF TopologyQueryInit, QueryTypeOK, OpenQuestion

LEMMA QueryStep == QueryTypeOK /\ [TopologyQueryNext]_topologyQueryVars => QueryTypeOK'
<1> SUFFICES ASSUME QueryTypeOK, [TopologyQueryNext]_topologyQueryVars PROVE QueryTypeOK'
  OBVIOUS
<1> USE DEF QueryTypeOK
<1>1. ASSUME NEW d \in Devices \cup {Anything}, NameDevice(d) PROVE QueryTypeOK'
  BY <1>1 DEF NameDevice, Ask
<1>2. ASSUME NEW s \in Subjects, ChooseSubject(s) PROVE QueryTypeOK'
  BY <1>2 DEF ChooseSubject, Ask
<1>3. ASSUME NEW n \in 1..MaxHops, ChooseHops(n) PROVE QueryTypeOK'
  BY <1>3 DEF ChooseHops, Ask
<1>4. ASSUME NEW c \in Classes \cup {Anything}, ChooseClass(c) PROVE QueryTypeOK'
  BY <1>4 DEF ChooseClass, Ask
<1>5. ASSUME NEW d \in Directions, ChooseDirection(d) PROVE QueryTypeOK'
  BY <1>5 DEF ChooseDirection, Ask
<1>6. ASSUME NEW r \in Roles \cup {Anything}, ChooseRole(r) PROVE QueryTypeOK'
  BY <1>6 DEF ChooseRole, Ask
<1>7. ASSUME ToggleAnswer PROVE QueryTypeOK'
  BY <1>7 DEF ToggleAnswer
<1>8. ASSUME TurnResults PROVE QueryTypeOK'
  <2>1. resultPage' \in Nat
    <3>1. resultPage + PageCount + 1 \in Nat /\ PageCount - 1 \in Nat /\ PageCount \in Nat
      BY PagesAreCounted
    <3> DEFINE back == {0, resultPage - 1}
               on == {PageCount - 1, resultPage + 1}
    <3>2. on \in SUBSET (0..(resultPage + PageCount + 1)) /\ on # {}
      BY <3>1
    <3>3. Min(on) \in on
      <4> HIDE DEF on
      <4> QED
        BY <3>1, <3>2, MinIsLeast
    <3>4. Max(back) \in Nat
      <4>1. CASE resultPage = 0
        <5>1. 0 \in back /\ \A y \in back : 0 >= y
          BY <4>1
        <5>2. Max(back) \in back /\ \A y \in back : Max(back) >= y
          <6> HIDE DEF back
          <6> QED
            BY <5>1 DEF Max
        <5> QED
          BY <5>1, <5>2
      <4>2. CASE resultPage # 0
        <5>1. back \in SUBSET (0..resultPage) /\ back # {}
          BY <4>2
        <5>2. Max(back) \in back
          <6> HIDE DEF back
          <6> QED
            BY <5>1, MaxIsGreatest
        <5> QED
          BY <4>2, <5>2
      <4> QED
        BY <4>1, <4>2
    <3>5. Min(on) \in Nat
      BY <3>1, <3>3
    <3> QED
      BY <1>8, <3>4, <3>5 DEF TurnResults
  <2> QED
    BY <1>8, <2>1 DEF TurnResults
<1>9. ASSUME NEW those \in SUBSET Devices, DrawDevices(those) PROVE QueryTypeOK'
  BY <1>9 DEF DrawDevices
<1>10. CASE UNCHANGED topologyQueryVars
  BY <1>10 DEF topologyQueryVars
<1> QED
  BY <1>1, <1>2, <1>3, <1>4, <1>5, <1>6, <1>7, <1>8, <1>9, <1>10 DEF TopologyQueryNext

(* The search finds exactly what walks of the length asked for take, labels *)
(* each result with its shortest walk and shows a page that has results,   *)
(* for any graph of any size.                                              *)
THEOREM QueryInvariant == TopologyQuerySpec => []QueryInv
<1>1. QueryTypeOK => QueryInv
  BY SearchFollows, HopsFollow, PagesFollow DEF QueryInv
<1> QED
  BY QueryInitially, QueryStep, <1>1, PTL DEF TopologyQuerySpec

-----------------------------------------------------------------------------
(* The overview of clusters. The state needs only its types and the page   *)
(* of the inspector (ClustersParts); that the links bound match the        *)
(* clusters bound follows from the sums (SumIs, SumAdds), the sorted lists *)
(* (SortedIs) and the bisection (BisectionFinds) alone.                    *)

(* An order that tells any two members of S apart.                         *)
Orders(S, order) ==
    /\ \A x \in S : <<x, x>> \notin order
    /\ \A x, y \in S : x # y => <<x, y>> \in order \/ <<y, x>> \in order
    /\ \A x, y, z \in S : <<x, y>> \in order /\ <<y, z>> \in order => <<x, z>> \in order

(* A sorted set has each of its members once, in the order: the place of   *)
(* one is the number of those before it.                                   *)
LEMMA SortedIs ==
    ASSUME NEW S, IsFiniteSet(S), NEW order, Orders(S, order)
    PROVE  /\ Cardinality(S) \in Nat
           /\ Sorted(S, order) \in [1..Cardinality(S) -> S]
           /\ \A x \in S : \E i \in 1..Cardinality(S) : Sorted(S, order)[i] = x
           /\ \A i, j \in 1..Cardinality(S) :
                 i < j => <<Sorted(S, order)[i], Sorted(S, order)[j]>> \in order
<1> DEFINE n == Cardinality(S)
           s == Sorted(S, order)
           Below(x) == {y \in S : <<y, x>> \in order}
           rank == [x \in S |-> Cardinality(Below(x)) + 1]
<1>0. s = [i \in 1..n |-> CHOOSE x \in S : Cardinality(Below(x)) = i - 1]
  BY DEF Sorted
<1>1. n \in Nat
  BY FS_CardinalityType
<1>2. \A x \in S : IsFiniteSet(Below(x)) /\ Cardinality(Below(x)) \in Nat
  BY FS_Subset, FS_CardinalityType
<1>3. ASSUME NEW x \in S PROVE rank[x] \in 1..n
  <2>1. Below(x) \subseteq S \ {x}
    BY DEF Orders
  <2>2. IsFiniteSet(S \ {x}) /\ Cardinality(S \ {x}) = n - 1
    BY FS_RemoveElement
  <2>3. Cardinality(Below(x)) <= n - 1
    BY <2>1, <2>2, FS_Subset
  <2>4. rank[x] = Cardinality(Below(x)) + 1
    OBVIOUS
  <2> HIDE DEF rank, Below
  <2> QED
    BY <1>1, <1>2, <2>3, <2>4
<1>4. ASSUME NEW x \in S, NEW y \in S, <<x, y>> \in order PROVE rank[x] < rank[y]
  <2>1. Below(x) \subseteq Below(y) /\ x \in Below(y) /\ x \notin Below(x)
    BY <1>4 DEF Orders
  <2>2. Cardinality(Below(x)) <= Cardinality(Below(y))
        /\ Cardinality(Below(x)) # Cardinality(Below(y))
    <3> HIDE DEF Below
    <3> QED
      BY <1>2, <2>1, FS_Subset
  <2>3. rank[x] = Cardinality(Below(x)) + 1 /\ rank[y] = Cardinality(Below(y)) + 1
    OBVIOUS
  <2> HIDE DEF rank, Below
  <2> QED
    BY <1>2, <2>2, <2>3
<1>5. \A x, y \in S : rank[x] = rank[y] => x = y
  <2> SUFFICES ASSUME NEW x \in S, NEW y \in S, rank[x] = rank[y], x # y PROVE FALSE
    OBVIOUS
  <2>1. rank[x] < rank[y] \/ rank[y] < rank[x]
    <3> HIDE DEF rank
    <3> QED
      BY <1>4 DEF Orders
  <2> HIDE DEF rank
  <2>2. rank[x] \in 1..n /\ rank[y] \in 1..n
    BY <1>3
  <2> QED
    BY <1>1, <2>1, <2>2
<1>6. rank \in Surjection(S, 1..n)
  <2>1. rank \in [S -> 1..n]
    <3>1. rank = [x \in S |-> rank[x]]
      OBVIOUS
    <3> HIDE DEF rank
    <3> QED
      BY <1>3, <3>1
  <2>2. rank \in Injection(S, 1..n)
    <3> HIDE DEF rank
    <3> QED
      BY <1>5, <2>1 DEF Injection, IsInjective
  <2>3. IsFiniteSet(1..n) /\ Cardinality(1..n) = n
    BY <1>1, FS_Interval
  <2> HIDE DEF rank
  <2> QED
    BY <2>2, <2>3, FS_Injection
<1>7. ASSUME NEW i \in 1..n PROVE s[i] \in S /\ rank[s[i]] = i
  <2>1. \E x \in S : rank[x] = i
    <3> HIDE DEF rank
    <3> QED
      BY <1>6 DEF Surjection
  <2>2. \E x \in S : Cardinality(Below(x)) = i - 1
    <3>1. \A x \in S : rank[x] = Cardinality(Below(x)) + 1
      OBVIOUS
    <3> HIDE DEF rank, Below
    <3> QED
      BY <1>2, <2>1, <3>1
  <2>3. s[i] = CHOOSE x \in S : Cardinality(Below(x)) = i - 1
    <3> HIDE DEF s, Below, n
    <3> QED
      BY <1>0
  <2>4. s[i] \in S /\ Cardinality(Below(s[i])) = i - 1
    <3> HIDE DEF s, Below
    <3> QED
      BY <2>2, <2>3
  <2>5. rank[s[i]] = Cardinality(Below(s[i])) + 1
    <3> HIDE DEF s, Below
    <3> QED
      BY <2>4
  <2> HIDE DEF s, Below, rank
  <2> QED
    BY <1>1, <2>4, <2>5
<1>8. s \in [1..n -> S]
  <2>1. s = [i \in 1..n |-> s[i]]
    <3> HIDE DEF s, Below, n
    <3> QED
      BY <1>0
  <2> HIDE DEF s, n
  <2> QED
    BY <1>7, <2>1
<1> HIDE DEF rank, s
<1>9. \A x \in S : \E i \in 1..n : s[i] = x
  <2> TAKE x \in S
  <2>1. rank[x] \in 1..n
    BY <1>3
  <2>2. s[rank[x]] \in S /\ rank[s[rank[x]]] = rank[x]
    BY <1>7, <2>1
  <2> QED
    BY <1>5, <2>1, <2>2
<1>10. \A i, j \in 1..n : i < j => <<s[i], s[j]>> \in order
  <2> SUFFICES ASSUME NEW i \in 1..n, NEW j \in 1..n, i < j, <<s[i], s[j]>> \notin order
               PROVE  FALSE
    OBVIOUS
  <2>1. s[i] \in S /\ s[j] \in S /\ rank[s[i]] = i /\ rank[s[j]] = j
    BY <1>7
  <2>2. s[i] # s[j]
    BY <2>1
  <2>3. rank[s[j]] < rank[s[i]]
    BY <1>4, <2>1, <2>2 DEF Orders
  <2> QED
    BY <1>1, <2>1, <2>3
<1> HIDE DEF n
<1> QED
  BY <1>1, <1>8, <1>9, <1>10 DEF s, n

(* The sum of the counts, as the model takes it.                           *)
Sum(S) == MapThenSumSet(LAMBDA e : e.count, S)

(* A unit for each count of a member: the sum is how many there are.       *)
Units(S) == {u \in S \X Nat : u[2] \in 1..u[1].count}

Counted(S) == IsFiniteSet(S) /\ \A e \in S : e.count \in Nat

(* A single member has as many as it counts.                               *)
LEMMA UnitsOfOne ==
    ASSUME NEW x, x.count \in Nat
    PROVE  IsFiniteSet(Units({x})) /\ Cardinality(Units({x})) = x.count
<1>1. Units({x}) = {x} \X (1..x.count)
  BY DEF Units
<1>2. IsFiniteSet({x}) /\ Cardinality({x}) = 1
  BY FS_Singleton
<1>3. IsFiniteSet(1..x.count) /\ Cardinality(1..x.count) = x.count
  BY FS_Interval
<1>4. IsFiniteSet({x} \X (1..x.count)) /\ Cardinality({x} \X (1..x.count)) = 1 * x.count
  BY <1>2, <1>3, FS_Product
<1>5. 1 * x.count = x.count
  OBVIOUS
<1> QED
  BY <1>1, <1>4, <1>5

(* Units of different members are different.                               *)
LEMMA UnitsAdd ==
    ASSUME NEW S, NEW T, S \cap T = {}, IsFiniteSet(Units(S)), IsFiniteSet(Units(T))
    PROVE  /\ IsFiniteSet(Units(S \cup T))
           /\ Cardinality(Units(S)) \in Nat /\ Cardinality(Units(T)) \in Nat
           /\ Cardinality(Units(S \cup T)) = Cardinality(Units(S)) + Cardinality(Units(T))
<1>1. Units(S \cup T) = Units(S) \cup Units(T) /\ Units(S) \cap Units(T) = {}
  BY DEF Units
<1>2. Cardinality(Units(S)) \in Nat /\ Cardinality(Units(T)) \in Nat
  BY FS_CardinalityType
<1>3. Cardinality(Units(S) \cap Units(T)) = 0
  BY <1>1, FS_EmptySet
<1>4. /\ IsFiniteSet(Units(S) \cup Units(T))
      /\ Cardinality(Units(S) \cup Units(T)) =
           Cardinality(Units(S)) + Cardinality(Units(T)) - Cardinality(Units(S) \cap Units(T))
  BY FS_Union
<1>5. Cardinality(Units(S) \cup Units(T)) = Cardinality(Units(S)) + Cardinality(Units(T))
  BY <1>2, <1>3, <1>4
<1> QED
  BY <1>1, <1>2, <1>4, <1>5

(* A finite set has finitely many units.                                   *)
LEMMA UnitsAreFinite ==
    ASSUME NEW S, Counted(S) PROVE IsFiniteSet(Units(S))
<1> DEFINE n == Cardinality(S)
           Q == {k \in 0..n : \A T \in SUBSET S : Cardinality(T) = k => IsFiniteSet(Units(T))}
<1>1. n \in Nat
  BY FS_CardinalityType DEF Counted
<1>2. 0 \in Q
  <2>1. \A T \in SUBSET S : Cardinality(T) = 0 => T = {}
    BY FS_Subset, FS_EmptySet DEF Counted
  <2>2. Units({}) = {}
    BY DEF Units
  <2> QED
    BY <1>1, <2>1, <2>2, FS_EmptySet
<1>3. ASSUME NEW k \in 0..(n - 1), k \in Q PROVE k + 1 \in Q
  <2>1. k + 1 \in 0..n
    BY <1>1
  <2>2. ASSUME NEW T \in SUBSET S, Cardinality(T) = k + 1 PROVE IsFiniteSet(Units(T))
    <3>1. IsFiniteSet(T)
      BY FS_Subset DEF Counted
    <3>2. PICK x \in T : TRUE
      BY <2>2, <3>1, FS_EmptySet
    <3>3. IsFiniteSet(T \ {x}) /\ Cardinality(T \ {x}) = k
      BY <2>2, <3>1, <3>2, FS_RemoveElement
    <3>4. IsFiniteSet(Units(T \ {x})) /\ IsFiniteSet(Units({x}))
      <4>1. \A U \in SUBSET S : Cardinality(U) = k => IsFiniteSet(Units(U))
        BY <1>3
      <4>2. x.count \in Nat
        BY <3>2 DEF Counted
      <4> QED
        BY <3>3, <4>1, <4>2, UnitsOfOne
    <3>5. T = (T \ {x}) \cup {x} /\ (T \ {x}) \cap {x} = {}
      BY <3>2
    <3>6. IsFiniteSet(Units((T \ {x}) \cup {x}))
      BY <3>4, <3>5, UnitsAdd
    <3> QED
      BY <3>5, <3>6
  <2> QED
    BY <2>1, <2>2
<1>4. n \in Q
  <2>1. 0..n \subseteq Q
    <3> HIDE DEF Q, n
    <3> QED
      BY <1>1, <1>2, <1>3, Upward
  <2> QED
    BY <1>1, <2>1
<1> QED
  BY <1>4

(* The sum of the library takes the members one by one; in whatever order, *)
(* it comes to the units.                                                  *)
LEMMA SumIs ==
    ASSUME NEW S, Counted(S)
    PROVE  Sum(S) \in Nat /\ Sum(S) = Cardinality(Units(S))
<1> DEFINE first(T) == CHOOSE x \in T : TRUE
           Solves(f) == f = [s \in SUBSET S |->
                              IF s = {} THEN 0 ELSE first(s).count + f[s \ {first(s)}]]
           sums == [s \in SUBSET S |-> Cardinality(Units(s))]
           iter == CHOOSE f : Solves(f)
<1>1. \A T \in SUBSET S : IsFiniteSet(T) /\ Counted(T) /\ IsFiniteSet(Units(T))
  BY FS_Subset, UnitsAreFinite DEF Counted
<1>2. \A T \in SUBSET S : T # {} => first(T) \in T
  OBVIOUS
<1> HIDE DEF first
<1>3. ASSUME NEW T \in SUBSET S, NEW x \in T
      PROVE  /\ Cardinality(Units(T \ {x})) \in Nat
             /\ Cardinality(Units(T)) = x.count + Cardinality(Units(T \ {x}))
  <2>1. x.count \in Nat /\ IsFiniteSet(Units({x})) /\ Cardinality(Units({x})) = x.count
    BY UnitsOfOne DEF Counted
  <2>2. IsFiniteSet(Units(T \ {x}))
    BY <1>1
  <2>3. T = (T \ {x}) \cup {x} /\ (T \ {x}) \cap {x} = {}
    OBVIOUS
  <2>4. /\ Cardinality(Units(T \ {x})) \in Nat
        /\ Cardinality(Units((T \ {x}) \cup {x})) =
             Cardinality(Units(T \ {x})) + Cardinality(Units({x}))
    BY <2>1, <2>2, <2>3, UnitsAdd
  <2> QED
    BY <2>1, <2>3, <2>4
<1>4. Cardinality(Units({})) = 0
  <2>1. Units({}) = {}
    BY DEF Units
  <2> QED
    BY <2>1, FS_EmptySet
<1>5. Solves(sums)
  <2>1. \A s \in SUBSET S :
           sums[s] = IF s = {} THEN 0 ELSE first(s).count + sums[s \ {first(s)}]
    <3> TAKE s \in SUBSET S
    <3>1. sums[s] = Cardinality(Units(s))
      OBVIOUS
    <3>2. s # {} => sums[s \ {first(s)}] = Cardinality(Units(s \ {first(s)}))
      OBVIOUS
    <3> HIDE DEF sums
    <3> QED
      BY <1>2, <1>3, <1>4, <3>1, <3>2
  <2>2. sums = [s \in SUBSET S |-> sums[s]]
    OBVIOUS
  <2> HIDE DEF sums
  <2> QED
    BY <2>1, <2>2
<1>6. Solves(iter)
  <2> HIDE DEF Solves
  <2> QED
    BY <1>5
<1>7. Sum(S) = iter[S]
  BY DEF Sum, MapThenSumSet, MapThenFoldSet, first
<1> HIDE DEF iter
<1>8. \A s \in SUBSET S :
         iter[s] = IF s = {} THEN 0 ELSE first(s).count + iter[s \ {first(s)}]
  BY <1>6
<1> HIDE DEF Solves, sums
<1> DEFINE n == Cardinality(S)
           Q == {k \in 0..n : \A T \in SUBSET S :
                                Cardinality(T) = k => iter[T] = Cardinality(Units(T))}
<1>9. n \in Nat
  BY FS_CardinalityType DEF Counted
<1>10. 0 \in Q
  <2>1. \A T \in SUBSET S : Cardinality(T) = 0 => T = {}
    BY <1>1, FS_EmptySet
  <2>2. iter[{}] = Cardinality(Units({})) /\ 0 \in 0..n
    BY <1>4, <1>8, <1>9
  <2> QED
    BY <2>1, <2>2
<1>11. ASSUME NEW k \in 0..(n - 1), k \in Q PROVE k + 1 \in Q
  <2>1. k + 1 \in 0..n
    BY <1>9
  <2>2. ASSUME NEW T \in SUBSET S, Cardinality(T) = k + 1
        PROVE  iter[T] = Cardinality(Units(T))
    <3>1. T # {}
      BY <2>2, FS_EmptySet
    <3>2. first(T) \in T /\ T \ {first(T)} \in SUBSET S
      BY <1>2, <3>1
    <3>3. Cardinality(T \ {first(T)}) = k
      <4>1. Cardinality(T \ {first(T)}) = Cardinality(T) - 1
        BY <1>1, <3>2, FS_RemoveElement
      <4> QED
        BY <2>2, <4>1
    <3>4. iter[T \ {first(T)}] = Cardinality(Units(T \ {first(T)}))
      BY <1>11, <3>2, <3>3
    <3> QED
      BY <1>3, <1>8, <3>1, <3>2, <3>4
  <2> QED
    BY <2>1, <2>2
<1>12. n \in Q
  <2>1. 0..n \subseteq Q
    <3> HIDE DEF Q, n
    <3> QED
      BY <1>9, <1>10, <1>11, Upward
  <2> QED
    BY <1>9, <2>1
<1>13. iter[S] = Cardinality(Units(S))
  BY <1>12
<1>14. Cardinality(Units(S)) \in Nat
  BY UnitsAreFinite, FS_CardinalityType
<1> QED
  BY <1>7, <1>13, <1>14

(* Sums of disjoint sets add up.                                           *)
LEMMA SumAdds ==
    ASSUME NEW S, NEW T, Counted(S), Counted(T), S \cap T = {}
    PROVE  /\ Counted(S \cup T)
           /\ Sum(S) \in Nat /\ Sum(T) \in Nat
           /\ Sum(S \cup T) = Sum(S) + Sum(T)
<1>1. Counted(S \cup T)
  BY FS_Union DEF Counted
<1>2. IsFiniteSet(Units(S)) /\ IsFiniteSet(Units(T))
  BY UnitsAreFinite
<1> QED
  BY <1>1, <1>2, SumIs, UnitsAdd

(* The sum of one member is its count.                                     *)
LEMMA SumOfOne ==
    ASSUME NEW x, x.count \in Nat PROVE Counted({x}) /\ Sum({x}) = x.count
<1>1. Counted({x})
  BY FS_Singleton DEF Counted
<1> QED
  BY <1>1, SumIs, UnitsOfOne

(* The bisection of RenderedLinks, for the places that are early.          *)
Bisects(f, n, early) ==
    f = [span \in (0..n) \X (0..n) |->
           LET low == span[1]
               high == span[2]
               mid == (low + high) \div 2
           IN IF low >= high THEN low
              ELSE IF mid + 1 \in early THEN f[<<mid + 1, high>>] ELSE f[<<low, mid>>]]

(* Early places come before all others.                                    *)
Leading(n, early) == \A i, j \in 1..n : i < j /\ j \in early => i \in early

(* How many are early, and where a bisection of a part of them ends.       *)
Cut(n, early) == Max({0} \cup (early \cap (1..n)))

Clamped(cut, low, high) ==
    IF low >= high \/ cut < low THEN low ELSE IF cut > high THEN high ELSE cut

(* Early are the places up to the cut.                                     *)
LEMMA CutIs ==
    ASSUME NEW n \in Nat, NEW early, Leading(n, early)
    PROVE  Cut(n, early) \in 0..n /\ \A i \in 1..n : i \in early <=> i <= Cut(n, early)
<1> DEFINE places == {0} \cup (early \cap (1..n))
<1>1. Max(places) \in places /\ \A y \in places : Max(places) >= y
  <2>1. places \in SUBSET (0..n) /\ places # {}
    OBVIOUS
  <2> HIDE DEF places
  <2> QED
    BY <2>1, MaxIsGreatest
<1>2. Cut(n, early) \in places /\ \A y \in places : Cut(n, early) >= y
  BY <1>1 DEF Cut
<1> QED
  BY <1>2 DEF Leading

(* Half of a part.                                                         *)
LEMMA HalfIs ==
    ASSUME NEW low \in Nat, NEW high \in Nat, low < high
    PROVE  /\ (low + high) \div 2 \in Nat
           /\ low <= (low + high) \div 2 /\ (low + high) \div 2 < high
  OBVIOUS

(* The half that the bisection turns to ends where the whole does.         *)
LEMMA ClampedHalf ==
    ASSUME NEW n \in Nat, NEW early, Leading(n, early),
           NEW low \in 0..n, NEW high \in 0..n, low < high
    PROVE  LET mid == (low + high) \div 2
               cut == Cut(n, early)
           IN  /\ mid + 1 \in early => Clamped(cut, low, high) = Clamped(cut, mid + 1, high)
               /\ mid + 1 \notin early => Clamped(cut, low, high) = Clamped(cut, low, mid)
<1> DEFINE mid == (low + high) \div 2
           cut == Cut(n, early)
<1>1. mid \in Nat /\ low <= mid /\ mid < high
  BY HalfIs
<1> HIDE DEF mid
<1>2. cut \in 0..n /\ (mid + 1 \in early <=> mid + 1 <= cut)
  <2>1. mid + 1 \in 1..n
    BY <1>1
  <2> QED
    BY <2>1, CutIs
<1> HIDE DEF cut
<1> QED
  BY <1>1, <1>2 DEF Clamped, mid, cut

(* The recursion of the bisection has a solution ...                       *)
LEMMA BisectionIs ==
    ASSUME NEW n \in Nat, NEW early, Leading(n, early)
    PROVE  \E f : Bisects(f, n, early)
<1> DEFINE cut == Cut(n, early)
           Mid(span) == (span[1] + span[2]) \div 2
           f == [span \in (0..n) \X (0..n) |-> Clamped(cut, span[1], span[2])]
<1> HIDE DEF cut
<1>1. \A span \in (0..n) \X (0..n) :
        f[span] = IF span[1] >= span[2] THEN span[1]
                  ELSE IF Mid(span) + 1 \in early THEN f[<<Mid(span) + 1, span[2]>>]
                       ELSE f[<<span[1], Mid(span)>>]
  <2> TAKE span \in (0..n) \X (0..n)
  <2> DEFINE low == span[1]
             high == span[2]
             mid == (low + high) \div 2
  <2>1. low \in 0..n /\ high \in 0..n
    OBVIOUS
  <2>2. f[span] = Clamped(cut, low, high)
    OBVIOUS
  <2>3. CASE low >= high
    BY <2>2, <2>3 DEF Clamped
  <2>4. CASE low < high
    <3>1. mid \in Nat /\ low <= mid /\ mid < high
      <4> HIDE DEF low, high
      <4> QED
        BY <2>1, <2>4, HalfIs
    <3>2. <<mid + 1, high>> \in (0..n) \X (0..n) /\ <<low, mid>> \in (0..n) \X (0..n)
      <4> HIDE DEF low, high, mid
      <4> QED
        BY <2>1, <3>1
    <3>3. /\ f[<<mid + 1, high>>] = Clamped(cut, mid + 1, high)
          /\ f[<<low, mid>>] = Clamped(cut, low, mid)
      <4> HIDE DEF low, high, mid
      <4> QED
        BY <3>2
    <3>4. /\ mid + 1 \in early => Clamped(cut, low, high) = Clamped(cut, mid + 1, high)
          /\ mid + 1 \notin early => Clamped(cut, low, high) = Clamped(cut, low, mid)
      <4> HIDE DEF low, high
      <4> QED
        BY <2>1, <2>4, ClampedHalf DEF cut
    <3>5. ~(low >= high)
      <4> HIDE DEF low, high
      <4> QED
        BY <2>1, <2>4
    <3> HIDE DEF f
    <3> QED
      BY <2>2, <3>3, <3>4, <3>5
  <2>5. low < high \/ low >= high
    <3> HIDE DEF low, high
    <3> QED
      BY <2>1
  <2> HIDE DEF f
  <2> QED
    BY <2>3, <2>4, <2>5
<1>2. f = [span \in (0..n) \X (0..n) |-> f[span]]
  OBVIOUS
<1> HIDE DEF f
<1>3. Bisects(f, n, early)
  BY <1>1, <1>2 DEF Bisects
<1> QED
  BY <1>3

(* ... and any solution finds how many places are early.                   *)
LEMMA BisectionFinds ==
    ASSUME NEW n \in Nat, NEW early, Leading(n, early), NEW f, Bisects(f, n, early)
    PROVE  /\ f[<<0, n>>] \in 0..n
           /\ \A i \in 1..n : i \in early <=> i <= f[<<0, n>>]
<1> DEFINE cut == Cut(n, early)
           Q == {k \in 0..n : \A low, high \in 0..n :
                   high - low <= k => f[<<low, high>>] = Clamped(cut, low, high)}
<1>0. cut \in 0..n /\ \A i \in 1..n : i \in early <=> i <= cut
  BY CutIs
<1>1. \A low, high \in 0..n :
        f[<<low, high>>] = IF low >= high THEN low
                           ELSE IF (low + high) \div 2 + 1 \in early
                                THEN f[<<(low + high) \div 2 + 1, high>>]
                                ELSE f[<<low, (low + high) \div 2>>]
  BY DEF Bisects
<1>2. 0 \in Q
  <2>1. ASSUME NEW low \in 0..n, NEW high \in 0..n, high - low <= 0
        PROVE  f[<<low, high>>] = Clamped(cut, low, high)
    <3>1. low >= high
      BY <2>1
    <3> QED
      BY <1>1, <3>1 DEF Clamped
  <2> QED
    BY <2>1
<1>3. ASSUME NEW k \in 0..(n - 1), k \in Q PROVE k + 1 \in Q
  <2>1. ASSUME NEW low \in 0..n, NEW high \in 0..n, high - low <= k + 1
        PROVE  f[<<low, high>>] = Clamped(cut, low, high)
    <3>1. CASE low >= high
      BY <1>1, <3>1 DEF Clamped
    <3>2. CASE low < high
      <4> DEFINE mid == (low + high) \div 2
      <4>1. mid \in Nat /\ low <= mid /\ mid < high
        BY <3>2, HalfIs
      <4>2. /\ mid + 1 \in early => Clamped(cut, low, high) = Clamped(cut, mid + 1, high)
            /\ mid + 1 \notin early => Clamped(cut, low, high) = Clamped(cut, low, mid)
        BY <3>2, ClampedHalf
      <4>3. f[<<low, high>>] = IF mid + 1 \in early THEN f[<<mid + 1, high>>]
                                                    ELSE f[<<low, mid>>]
        <5>1. ~(low >= high)
          BY <3>2
        <5>2. f[<<low, high>>] = IF low >= high THEN low
                                 ELSE IF (low + high) \div 2 + 1 \in early
                                      THEN f[<<(low + high) \div 2 + 1, high>>]
                                      ELSE f[<<low, (low + high) \div 2>>]
          BY <1>1
        <5> QED
          BY <5>1, <5>2
      <4> HIDE DEF mid
      <4>4. /\ mid + 1 \in 0..n /\ mid \in 0..n
            /\ high - (mid + 1) <= k /\ mid - low <= k
        BY <2>1, <4>1
      <4>5. /\ f[<<mid + 1, high>>] = Clamped(cut, mid + 1, high)
            /\ f[<<low, mid>>] = Clamped(cut, low, mid)
        BY <1>3, <4>4
      <4> QED
        BY <4>2, <4>3, <4>5
    <3> QED
      BY <3>1, <3>2
  <2>2. k + 1 \in 0..n
    OBVIOUS
  <2> QED
    BY <2>1, <2>2
<1>4. n \in Q
  <2>1. 0..n \subseteq Q
    <3> HIDE DEF Q
    <3> QED
      BY <1>2, <1>3, Upward
  <2> QED
    BY <2>1
<1>5. f[<<0, n>>] = Clamped(cut, 0, n)
  BY <1>4
<1> HIDE DEF cut
<1> QED
  BY <1>0, <1>5 DEF Clamped

(* The state of the overview, in its types.                                *)
ClustersTypeOK ==
    /\ listed \subseteq ClusteredAssets
    /\ clusterKind \in GroupingKinds
    /\ renderLimit \in Nat \ {0}
    /\ inspectPage \in Nat

(* The clusters by their keys.                                             *)
ShownKeys == {Cluster(d) : d \in ShownAssets}

(* What is on screen is finite, and its clusters are numbers.              *)
LEMMA KeysAreKnown ==
    ASSUME ClustersTypeOK
    PROVE  /\ IsFiniteSet(ShownKeys) /\ ShownKeys \subseteq Nat \ {0}
           /\ Counted(ShownRelations)
           /\ \A e \in ShownRelations : PairOf(e) \in ShownKeys \X ShownKeys
<1>1. ShownAssets \subseteq ClusteredAssets
  BY DEF ShownAssets, ClustersTypeOK
<1>2. IsFiniteSet(ShownAssets)
  BY <1>1, ClustersAssumption, FS_Subset
<1>3. IsFiniteSet(ShownKeys)
  <2> DEFINE f == [d \in ShownAssets |-> Cluster(d)]
  <2>1. f \in Surjection(ShownAssets, ShownKeys)
    BY DEF Surjection, ShownKeys
  <2> HIDE DEF f
  <2> QED
    BY <1>2, <2>1, FS_Surjection
<1>4. ShownKeys \subseteq Nat \ {0}
  BY <1>1, ClustersAssumption DEF ShownKeys, Cluster, ClustersTypeOK, NoCluster
<1>5. Counted(ShownRelations)
  <2>1. ShownRelations \subseteq Relations
    BY DEF ShownRelations
  <2> QED
    BY <2>1, RelationsAssumption, FS_Subset DEF Counted
<1>6. \A e \in ShownRelations : PairOf(e) \in ShownKeys \X ShownKeys
  BY DEF ShownRelations, PairOf, ShownKeys
<1> QED
  BY <1>3, <1>4, <1>5, <1>6

(* What is known of a sorted list of a set.                                *)
ListsAll(s, S) ==
    /\ s \in Seq(S) /\ Len(s) = Cardinality(S) /\ Len(s) \in Nat /\ DOMAIN s = 1..Len(s)
    /\ \A x \in S : \E i \in 1..Len(s) : s[i] = x

(* A sorted set is such a list.                                            *)
LEMMA SortedLists ==
    ASSUME NEW S, IsFiniteSet(S), NEW order, Orders(S, order)
    PROVE  ListsAll(Sorted(S, order), S)
<1> DEFINE s == Sorted(S, order)
<1>1. /\ Cardinality(S) \in Nat
      /\ s \in [1..Cardinality(S) -> S]
      /\ \A x \in S : \E i \in 1..Cardinality(S) : s[i] = x
  BY SortedIs
<1> HIDE DEF s
<1>2. s \in Seq(S)
  BY <1>1, SeqDef
<1>3. Len(s) = Cardinality(S)
  BY <1>1, <1>2, LenProperties
<1> QED
  BY <1>1, <1>2, <1>3 DEF ListsAll, s

(* The clusters on screen, each once, in the order of their names.         *)
LEMMA ClustersAre ==
    ASSUME ClustersTypeOK
    PROVE  /\ ListsAll(Clusters, ShownKeys)
           /\ \A i, j \in 1..Len(Clusters) : Clusters[i] = Clusters[j] => i = j
<1> DEFINE order == {p \in ShownKeys \X ShownKeys : p[1] < p[2]}
<1>1. Clusters = Sorted(ShownKeys, order)
  BY DEF Clusters, ShownKeys
<1>2. IsFiniteSet(ShownKeys) /\ ShownKeys \subseteq Nat
  BY KeysAreKnown
<1>3. \A x, y : <<x, y>> \in order <=> x \in ShownKeys /\ y \in ShownKeys /\ x < y
  OBVIOUS
<1> HIDE DEF order
<1>4. Orders(ShownKeys, order)
  <2>1. \A x \in ShownKeys : ~(x < x)
    BY <1>2
  <2>2. \A x, y \in ShownKeys : x # y => x < y \/ y < x
    BY <1>2
  <2>3. \A x, y, z \in ShownKeys : x < y /\ y < z => x < z
    BY <1>2
  <2> QED
    BY <1>3, <2>1, <2>2, <2>3 DEF Orders
<1>5. ListsAll(Clusters, ShownKeys)
  BY <1>1, <1>2, <1>4, SortedLists
<1>6. \A i, j \in 1..Len(Clusters) : i < j => Clusters[i] < Clusters[j]
  <2>1. Len(Clusters) = Cardinality(ShownKeys)
    BY <1>5 DEF ListsAll
  <2>2. \A i, j \in 1..Cardinality(ShownKeys) :
          i < j => <<Sorted(ShownKeys, order)[i], Sorted(ShownKeys, order)[j]>> \in order
    BY <1>2, <1>4, SortedIs
  <2> QED
    BY <1>1, <1>3, <2>1, <2>2
<1>7. \A i \in 1..Len(Clusters) : Clusters[i] \in Nat
  BY <1>2, <1>5, ElementOfSeq DEF ListsAll
<1>8. \A i, j \in 1..Len(Clusters) : Clusters[i] = Clusters[j] => i = j
  <2> SUFFICES ASSUME NEW i \in 1..Len(Clusters), NEW j \in 1..Len(Clusters),
                      Clusters[i] = Clusters[j], i # j
               PROVE  FALSE
    OBVIOUS
  <2>1. Len(Clusters) \in Nat
    BY <1>5 DEF ListsAll
  <2>2. i < j \/ j < i
    BY <2>1
  <2>3. Clusters[i] < Clusters[j] \/ Clusters[j] < Clusters[i]
    BY <1>6, <2>2
  <2> QED
    BY <1>7, <2>3
<1> QED
  BY <1>5, <1>8

(* A prefix of a list.                                                     *)
LEMMA PrefixIs ==
    ASSUME NEW S, NEW s \in Seq(S), NEW m \in 0..Len(s)
    PROVE  ToSet(SubSeq(s, 1, m)) = {s[i] : i \in 1..m}
<1> DEFINE p == SubSeq(s, 1, m)
<1>1. DOMAIN p = 1..m /\ \A i \in 1..m : p[i] = s[i]
  OBVIOUS
<1> HIDE DEF p
<1> QED
  BY <1>1 DEF ToSet, p

(* The link of a pair of clusters.                                         *)
SummedOf(p) == {e \in ShownRelations : PairOf(e) = p}
ShownPairs == {p \in {PairOf(e) : e \in ShownRelations} : p[1] # p[2]}
LinkOf(p) == [pair |-> p, count |-> Sum(SummedOf(p)),
              relationships |-> Cardinality(SummedOf(p))]

(* Each pair of clusters has one link.                                     *)
LEMMA LinksAre ==
    ASSUME ClustersTypeOK
    PROVE  /\ ClusterLinks = {LinkOf(p) : p \in ShownPairs}
           /\ IsFiniteSet(ShownPairs) /\ IsFiniteSet(ClusterLinks)
           /\ ShownPairs \subseteq ShownKeys \X ShownKeys
           /\ \A l \in ClusterLinks : l.pair \in ShownPairs /\ l = LinkOf(l.pair)
<1>1. ClusterLinks = {LinkOf(p) : p \in ShownPairs}
  BY DEF ClusterLinks, LinkOf, ShownPairs, SummedOf, Sum
<1>2. ShownPairs \subseteq ShownKeys \X ShownKeys
  BY KeysAreKnown DEF ShownPairs
<1>3. IsFiniteSet(ShownPairs)
  <2>1. IsFiniteSet(ShownKeys \X ShownKeys)
    BY KeysAreKnown, FS_Product
  <2> QED
    BY <1>2, <2>1, FS_Subset
<1>4. IsFiniteSet(ClusterLinks)
  <2> DEFINE f == [p \in ShownPairs |-> LinkOf(p)]
  <2>1. f \in Surjection(ShownPairs, ClusterLinks)
    <3> HIDE DEF LinkOf
    <3> QED
      BY <1>1 DEF Surjection
  <2> HIDE DEF f
  <2> QED
    BY <1>3, <2>1, FS_Surjection
<1>5. \A p : LinkOf(p).pair = p
  BY DEF LinkOf
<1> HIDE DEF LinkOf
<1>6. \A l \in ClusterLinks : l.pair \in ShownPairs /\ l = LinkOf(l.pair)
  BY <1>1, <1>5
<1> QED
  BY <1>1, <1>2, <1>3, <1>4, <1>6

(* A link is bound from the step on that draws the later of its clusters.  *)
LEMMA LinkIsRevealed ==
    ASSUME ClustersTypeOK, NEW l \in ClusterLinks
    PROVE  /\ RevealAt(l) \in Nat
           /\ RevealAt(l) < renderLimit <=> ToSet(l.pair) \subseteq ToSet(RenderedClusters)
<1> DEFINE n == Len(Clusters)
           ends == {j \in 1..n : Clusters[j] \in ToSet(l.pair)}
           turns == {i - 1 : i \in ends}
           bound == Min({renderLimit, n})
<1>1. /\ n \in Nat /\ DOMAIN Clusters = 1..n /\ Clusters \in Seq(ShownKeys)
      /\ \A x \in ShownKeys : \E i \in 1..n : Clusters[i] = x
      /\ \A i, j \in 1..n : Clusters[i] = Clusters[j] => i = j
  BY ClustersAre DEF ListsAll
<1>2. l.pair \in ShownKeys \X ShownKeys
  BY LinksAre
<1>3. /\ ToSet(l.pair) = {l.pair[1], l.pair[2]}
      /\ l.pair[1] \in ShownKeys /\ l.pair[2] \in ShownKeys
  <2> DEFINE p == l.pair
  <2>1. DOMAIN p = 1..2
    BY <1>2
  <2> HIDE DEF p
  <2>2. ToSet(p) = {p[1], p[2]}
    BY <2>1 DEF ToSet
  <2> QED
    BY <1>2, <2>2 DEF p
<1>4. RevealAt(l) = Max(turns)
  BY <1>1 DEF RevealAt
<1>5. ends # {}
  <2>1. PICK i \in 1..n : Clusters[i] = l.pair[1]
    BY <1>1, <1>3
  <2> QED
    BY <1>3, <2>1
<1>6. Max(turns) \in turns /\ \A y \in turns : Max(turns) >= y
  <2>1. turns \in SUBSET (0..n) /\ turns # {}
    <3>1. \A i \in ends : i - 1 \in 0..n
      BY <1>1
    <3> HIDE DEF ends
    <3> QED
      BY <1>5, <3>1
  <2> HIDE DEF turns, n
  <2> QED
    BY <1>1, <2>1, MaxIsGreatest
<1>7. renderLimit \in Nat /\ renderLimit > 0
  BY DEF ClustersTypeOK
<1>8. Max(turns) \in Nat /\ (Max(turns) < renderLimit <=> \A i \in ends : i <= renderLimit)
  <2>1. PICK i \in ends : Max(turns) = i - 1
    BY <1>6
  <2>2. \A j \in ends : Max(turns) >= j - 1
    BY <1>6
  <2>3. \A j \in ends : j \in Nat /\ j > 0
    BY <1>1
  <2> DEFINE m == Max(turns)
  <2> HIDE DEF ends, turns, m
  <2>4. m = i - 1 /\ \A j \in ends : m >= j - 1
    BY <2>1, <2>2 DEF m
  <2>5. m \in Nat /\ (m < renderLimit <=> \A j \in ends : j <= renderLimit)
    BY <1>7, <2>3, <2>4
  <2> QED
    BY <2>5 DEF m
<1>9. bound \in 0..n /\ \A i \in 1..n : i <= bound <=> i <= renderLimit
  <2> DEFINE both == {renderLimit, n}
  <2>1. both \in SUBSET (0..(renderLimit + n)) /\ both # {} /\ renderLimit + n \in Nat
    BY <1>1, <1>7
  <2>2. Min(both) \in both /\ \A y \in both : Min(both) <= y
    <3> HIDE DEF both
    <3> QED
      BY <2>1, MinIsLeast
  <2>3. (bound = renderLimit \/ bound = n) /\ bound <= renderLimit /\ bound <= n
    <3> HIDE DEF n
    <3> QED
      BY <2>2
  <2> HIDE DEF n, bound
  <2> QED
    BY <1>1, <1>7, <2>3
<1>10. ToSet(RenderedClusters) = {Clusters[i] : i \in 1..bound}
  <2>1. bound \in 0..Len(Clusters)
    BY <1>9
  <2>2. ToSet(SubSeq(Clusters, 1, bound)) = {Clusters[i] : i \in 1..bound}
    <3> HIDE DEF bound
    <3> QED
      BY <1>1, <2>1, PrefixIs
  <2> QED
    BY <2>2 DEF RenderedClusters
<1>11. (\A i \in ends : i <= renderLimit) <=>
          ToSet(l.pair) \subseteq {Clusters[i] : i \in 1..bound}
  <2> HIDE DEF n, bound
  <2>1. ASSUME \A i \in ends : i <= renderLimit, NEW x \in ToSet(l.pair)
        PROVE  x \in {Clusters[i] : i \in 1..bound}
    <3>1. PICK i \in 1..n : Clusters[i] = x
      BY <1>1, <1>3, <2>1
    <3>2. i \in ends
      BY <2>1, <3>1
    <3>3. i \in 1..bound
      BY <1>1, <1>9, <2>1, <3>2
    <3> QED
      BY <3>1, <3>3
  <2>2. ASSUME ToSet(l.pair) \subseteq {Clusters[i] : i \in 1..bound}, NEW i \in ends
        PROVE  i <= renderLimit
    <3>1. PICK j \in 1..bound : Clusters[j] = Clusters[i]
      BY <2>2
    <3>2. j \in 1..n /\ i \in 1..n
      BY <1>1, <1>9
    <3>3. i = j
      BY <1>1, <3>1, <3>2
    <3> QED
      BY <1>9, <3>2, <3>3
  <2> QED
    BY <2>1, <2>2
<1> HIDE DEF turns, ends, bound
<1> QED
  BY <1>4, <1>8, <1>10, <1>11

(* The order of the display is one, and follows the steps of the display.  *)
LEMMA OrderIsRevealed ==
    ASSUME ClustersTypeOK
    PROVE  /\ ListsAll(RevealOrder, ClusterLinks)
           /\ \A i, j \in 1..Len(RevealOrder) :
                 i < j => RevealAt(RevealOrder[i]) <= RevealAt(RevealOrder[j])
<1> DEFINE at == [l \in ClusterLinks |-> RevealAt(l)]
           Before(a, b) == \/ at[a] < at[b]
                           \/ /\ at[a] = at[b]
                              /\ \/ a.pair[1] < b.pair[1]
                                 \/ a.pair[1] = b.pair[1] /\ a.pair[2] < b.pair[2]
           order == {p \in ClusterLinks \X ClusterLinks : Before(p[1], p[2])}
<1>1. RevealOrder = Sorted(ClusterLinks, order)
  BY DEF RevealOrder
<1>2. \A x, y : <<x, y>> \in order <=> x \in ClusterLinks /\ y \in ClusterLinks /\ Before(x, y)
  <2> HIDE DEF Before
  <2> QED
    OBVIOUS
<1>3. \A l \in ClusterLinks : at[l] = RevealAt(l) /\ at[l] \in Nat
  BY LinkIsRevealed
<1>4. \A l \in ClusterLinks : l.pair[1] \in Nat /\ l.pair[2] \in Nat
  BY LinksAre, KeysAreKnown
<1>5. \A x, y \in ClusterLinks : x # y => x.pair[1] # y.pair[1] \/ x.pair[2] # y.pair[2]
  <2> SUFFICES ASSUME NEW x \in ClusterLinks, NEW y \in ClusterLinks,
                      x.pair[1] = y.pair[1], x.pair[2] = y.pair[2]
               PROVE  x = y
    OBVIOUS
  <2>1. x.pair \in ShownKeys \X ShownKeys /\ y.pair \in ShownKeys \X ShownKeys
    BY LinksAre
  <2>2. x.pair = y.pair
    BY <2>1
  <2>3. x = LinkOf(x.pair) /\ y = LinkOf(y.pair)
    BY LinksAre
  <2> QED
    BY <2>2, <2>3
<1> HIDE DEF at, order
<1>6. Orders(ClusterLinks, order)
  <2>1. \A x \in ClusterLinks : ~Before(x, x)
    BY <1>3, <1>4
  <2>2. \A x, y \in ClusterLinks : x # y => Before(x, y) \/ Before(y, x)
    BY <1>3, <1>4, <1>5
  <2>3. \A x, y, z \in ClusterLinks : Before(x, y) /\ Before(y, z) => Before(x, z)
    BY <1>3, <1>4
  <2> HIDE DEF Before
  <2> QED
    BY <1>2, <2>1, <2>2, <2>3 DEF Orders
<1>7. IsFiniteSet(ClusterLinks)
  BY LinksAre
<1>8. ListsAll(RevealOrder, ClusterLinks)
  BY <1>1, <1>6, <1>7, SortedLists
<1>9. ASSUME NEW i \in 1..Len(RevealOrder), NEW j \in 1..Len(RevealOrder), i < j
      PROVE  RevealAt(RevealOrder[i]) <= RevealAt(RevealOrder[j])
  <2>1. Len(RevealOrder) = Cardinality(ClusterLinks)
    BY <1>8 DEF ListsAll
  <2>2. <<RevealOrder[i], RevealOrder[j]>> \in order
    BY <1>1, <1>6, <1>7, <1>9, <2>1, SortedIs
  <2> DEFINE a == RevealOrder[i]
             b == RevealOrder[j]
  <2>3. a \in ClusterLinks /\ b \in ClusterLinks /\ (at[a] < at[b] \/ at[a] = at[b])
    BY <1>2, <2>2
  <2> HIDE DEF a, b
  <2>4. RevealAt(a) <= RevealAt(b)
    BY <1>3, <2>3
  <2> QED
    BY <2>4 DEF a, b
<1> QED
  BY <1>8, <1>9

(* The bisection finds the links between the clusters that are bound.      *)
LEMMA DrawnLinksAre ==
    ASSUME ClustersTypeOK
    PROVE  ToSet(RenderedLinks) =
             {l \in ClusterLinks : ToSet(l.pair) \subseteq ToSet(RenderedClusters)}
<1> DEFINE ordered == RevealOrder
           n == Len(ordered)
           early == {i \in Int : RevealAt(ordered[i]) < renderLimit}
           search == CHOOSE f : f = [span \in (0..n) \X (0..n) |->
              LET low == span[1]
                  high == span[2]
                  mid == (low + high) \div 2
              IN IF low >= high THEN low
                 ELSE IF RevealAt(ordered[mid + 1]) < renderLimit THEN f[<<mid + 1, high>>]
                                                                  ELSE f[<<low, mid>>]]
           cut == search[<<0, n>>]
<1>1. RenderedLinks = SubSeq(ordered, 1, cut)
  BY DEF RenderedLinks
<1>2. /\ n \in Nat /\ ordered \in Seq(ClusterLinks)
      /\ \A x \in ClusterLinks : \E i \in 1..n : ordered[i] = x
  BY OrderIsRevealed DEF ListsAll
<1>3. \A i \in 1..n : ordered[i] \in ClusterLinks /\ RevealAt(ordered[i]) \in Nat
  BY <1>2, ElementOfSeq, LinkIsRevealed
<1>4. Leading(n, early)
  <2>1. \A i, j \in 1..n : i < j => RevealAt(ordered[i]) <= RevealAt(ordered[j])
    BY OrderIsRevealed
  <2>2. renderLimit \in Nat
    BY DEF ClustersTypeOK
  <2>3. \A i \in 1..n : i \in early <=> RevealAt(ordered[i]) < renderLimit
    BY <1>2
  <2> HIDE DEF early, n, ordered
  <2> QED
    BY <1>3, <2>1, <2>2, <2>3 DEF Leading
<1>5. Bisects(search, n, early)
  <2>1. \A i \in Int : i \in early <=> RevealAt(ordered[i]) < renderLimit
    OBVIOUS
  <2>2. \A span \in (0..n) \X (0..n) : (span[1] + span[2]) \div 2 + 1 \in Int
    BY <1>2
  <2> DEFINE Body(f) == [span \in (0..n) \X (0..n) |->
              LET low == span[1]
                  high == span[2]
                  mid == (low + high) \div 2
              IN IF low >= high THEN low
                 ELSE IF RevealAt(ordered[mid + 1]) < renderLimit THEN f[<<mid + 1, high>>]
                                                                  ELSE f[<<low, mid>>]]
  <2>3. \A f : Bisects(f, n, early) <=> f = Body(f)
    <3> TAKE f
    <3> DEFINE Half(span) == (span[1] + span[2]) \div 2
               Turn(span) == IF Half(span) + 1 \in early THEN f[<<Half(span) + 1, span[2]>>]
                                                         ELSE f[<<span[1], Half(span)>>]
               Step(span) == IF RevealAt(ordered[Half(span) + 1]) < renderLimit
                             THEN f[<<Half(span) + 1, span[2]>>]
                             ELSE f[<<span[1], Half(span)>>]
    <3>1. \A span \in (0..n) \X (0..n) : Turn(span) = Step(span)
      <4> HIDE DEF early
      <4> QED
        BY <2>1, <2>2
    <3>2. Bisects(f, n, early) <=>
            f = [span \in (0..n) \X (0..n) |-> IF span[1] >= span[2] THEN span[1]
                                               ELSE Turn(span)]
      BY DEF Bisects
    <3>3. f = Body(f) <=>
            f = [span \in (0..n) \X (0..n) |-> IF span[1] >= span[2] THEN span[1]
                                               ELSE Step(span)]
      OBVIOUS
    <3>4. [span \in (0..n) \X (0..n) |-> IF span[1] >= span[2] THEN span[1] ELSE Turn(span)]
          = [span \in (0..n) \X (0..n) |-> IF span[1] >= span[2] THEN span[1] ELSE Step(span)]
      <4> HIDE DEF Turn, Step
      <4> QED
        BY <3>1
    <3> HIDE DEF Turn, Step, Body, early
    <3> QED
      BY <3>2, <3>3, <3>4
  <2>4. \E f : Bisects(f, n, early)
    <3> HIDE DEF early, n
    <3> QED
      BY <1>2, <1>4, BisectionIs
  <2>5. search = CHOOSE f : f = Body(f)
    OBVIOUS
  <2> HIDE DEF search, Body, early, n
  <2>6. search = Body(search)
    BY <2>3, <2>4, <2>5
  <2> QED
    BY <2>3, <2>6
<1>6. cut \in 0..n /\ \A i \in 1..n : i \in early <=> i <= cut
  <2> HIDE DEF search, early, n
  <2> QED
    BY <1>2, <1>4, <1>5, BisectionFinds
<1> HIDE DEF cut, search
<1>7. ToSet(RenderedLinks) = {ordered[i] : i \in 1..cut}
  <2> HIDE DEF ordered
  <2> QED
    BY <1>1, <1>2, <1>6, PrefixIs
<1>8. \A i \in 1..n : i <= cut <=> RevealAt(ordered[i]) < renderLimit
  BY <1>6
<1> DEFINE Drawn(l) == ToSet(l.pair) \subseteq ToSet(RenderedClusters)
<1>9. \A l \in ClusterLinks : RevealAt(l) < renderLimit <=> Drawn(l)
  BY LinkIsRevealed
<1> HIDE DEF Drawn, early, ordered, n
<1>10. \A i \in 1..n : i \in 1..cut <=> Drawn(ordered[i])
  BY <1>2, <1>3, <1>6, <1>8, <1>9
<1>11. 1..cut \subseteq 1..n
  BY <1>2, <1>6
<1>12. {ordered[i] : i \in 1..cut} = {l \in ClusterLinks : Drawn(l)}
  BY <1>2, <1>3, <1>10, <1>11
<1> QED
  BY <1>7, <1>12 DEF Drawn

(* The sums of some links are those of the communications between their    *)
(* clusters, taken pair by pair.                                           *)
LEMMA LinksSumUp ==
    ASSUME ClustersTypeOK
    PROVE  /\ Counted(ClusterLinks)
           /\ Sum(ClusterLinks) = Sum({e \in ShownRelations : PairOf(e) \in ShownPairs})
<1> DEFINE LinksOf(B) == {LinkOf(p) : p \in B}
           Between(B) == {e \in ShownRelations : PairOf(e) \in B}
           Agree(B) == Counted(LinksOf(B)) /\ Sum(LinksOf(B)) = Sum(Between(B))
           n == Cardinality(ShownPairs)
           Q == {k \in 0..n : \A B \in SUBSET ShownPairs : Cardinality(B) = k => Agree(B)}
<1>1. IsFiniteSet(ShownPairs) /\ n \in Nat
  BY LinksAre, FS_CardinalityType
<1>2. \A S \in SUBSET ShownRelations : Counted(S)
  BY KeysAreKnown, FS_Subset DEF Counted
<1>3. \A p : Counted(SummedOf(p)) /\ Sum(SummedOf(p)) \in Nat
  <2> TAKE p
  <2>1. SummedOf(p) \in SUBSET ShownRelations
    BY DEF SummedOf
  <2> QED
    BY <1>2, <2>1, SumIs
<1>4. \A p : /\ Counted({LinkOf(p)}) /\ Sum({LinkOf(p)}) = Sum(SummedOf(p))
             /\ LinkOf(p).pair = p
  <2> TAKE p
  <2>1. LinkOf(p).count = Sum(SummedOf(p)) /\ LinkOf(p).pair = p
    BY DEF LinkOf
  <2> HIDE DEF LinkOf
  <2> QED
    BY <1>3, <2>1, SumOfOne
<1>5. Agree({})
  <2>1. LinksOf({}) = {} /\ Between({}) = {}
    OBVIOUS
  <2>2. Counted({})
    BY FS_EmptySet DEF Counted
  <2> HIDE DEF LinksOf, Between
  <2> QED
    BY <2>1, <2>2
<1>6. 0 \in Q
  <2>1. \A B \in SUBSET ShownPairs : Cardinality(B) = 0 => B = {}
    BY <1>1, FS_Subset, FS_EmptySet
  <2> HIDE DEF Agree, n
  <2> QED
    BY <1>1, <1>5, <2>1
<1>7. ASSUME NEW k \in 0..(n - 1), k \in Q PROVE k + 1 \in Q
  <2>1. k + 1 \in 0..n
    BY <1>1
  <2>2. ASSUME NEW B \in SUBSET ShownPairs, Cardinality(B) = k + 1 PROVE Agree(B)
    <3>1. IsFiniteSet(B)
      BY <1>1, FS_Subset
    <3>2. PICK p \in B : TRUE
      BY <2>2, <3>1, FS_EmptySet
    <3> DEFINE C == B \ {p}
    <3>3. Cardinality(C) = k /\ C \in SUBSET ShownPairs
      <4>1. Cardinality(C) = Cardinality(B) - 1
        BY <3>1, <3>2, FS_RemoveElement
      <4> QED
        BY <2>2, <4>1
    <3>4. Agree(C)
      <4> HIDE DEF Agree, C, n
      <4> QED
        BY <1>7, <3>3
    <3>5. LinksOf(B) = LinksOf(C) \cup {LinkOf(p)} /\ LinksOf(C) \cap {LinkOf(p)} = {}
      <4> HIDE DEF LinkOf
      <4> QED
        BY <1>4, <3>2
    <3>6. Between(B) = Between(C) \cup SummedOf(p) /\ Between(C) \cap SummedOf(p) = {}
      BY <3>2 DEF SummedOf
    <3>7. Counted(Between(C))
      <4>1. Between(C) \in SUBSET ShownRelations
        OBVIOUS
      <4> HIDE DEF Between
      <4> QED
        BY <1>2, <4>1
    <3> HIDE DEF LinksOf, Between, C
    <3>8. Counted(LinksOf(B)) /\ Sum(LinksOf(B)) = Sum(LinksOf(C)) + Sum(SummedOf(p))
      <4>1. Counted(LinksOf(C)) /\ Counted({LinkOf(p)}) /\ LinksOf(C) \cap {LinkOf(p)} = {}
        BY <1>4, <3>4, <3>5
      <4>2. /\ Counted(LinksOf(C) \cup {LinkOf(p)})
            /\ Sum(LinksOf(C) \cup {LinkOf(p)}) = Sum(LinksOf(C)) + Sum({LinkOf(p)})
        <5> HIDE DEF LinkOf
        <5> QED
          BY <4>1, SumAdds
      <4>3. Sum({LinkOf(p)}) = Sum(SummedOf(p))
        BY <1>4
      <4> HIDE DEF LinkOf
      <4> QED
        BY <3>5, <4>2, <4>3
    <3>9. Sum(Between(B)) = Sum(Between(C)) + Sum(SummedOf(p))
      BY <1>3, <3>6, <3>7, SumAdds
    <3> QED
      BY <3>4, <3>8, <3>9
  <2> HIDE DEF Agree, n
  <2> QED
    BY <2>1, <2>2
<1>8. n \in Q
  <2>1. 0..n \subseteq Q
    <3> HIDE DEF Q, n
    <3> QED
      BY <1>1, <1>6, <1>7, Upward
  <2> HIDE DEF Q
  <2> QED
    BY <1>1, <2>1
<1>9. Agree(ShownPairs)
  BY <1>8
<1>10. LinksOf(ShownPairs) = ClusterLinks
  BY LinksAre
<1> HIDE DEF LinksOf
<1> QED
  BY <1>9, <1>10

(* Every communication is summed once, or lies inside a cluster.           *)
LEMMA NothingIsLost ==
    ASSUME ClustersTypeOK
    PROVE  Sum(ClusterLinks) + Sum({e \in ShownRelations : PairOf(e)[1] = PairOf(e)[2]})
           = Sum(ShownRelations)
<1> DEFINE between == {e \in ShownRelations : PairOf(e) \in ShownPairs}
           inside == {e \in ShownRelations : PairOf(e)[1] = PairOf(e)[2]}
<1>1. ShownRelations = between \cup inside /\ between \cap inside = {}
  BY DEF ShownPairs
<1>2. Counted(between) /\ Counted(inside)
  BY KeysAreKnown, FS_Subset DEF Counted
<1>3. Sum(ClusterLinks) = Sum(between)
  BY LinksSumUp
<1> HIDE DEF between, inside
<1>4. Sum(ShownRelations) = Sum(between) + Sum(inside)
  BY <1>1, <1>2, SumAdds
<1> QED
  BY <1>3, <1>4 DEF inside

(* What is bound matches.                                                  *)
LEMMA LinksMatch ==
    ASSUME ClustersTypeOK PROVE LinksMatchClusters
BY DrawnLinksAre, NothingIsLost DEF LinksMatchClusters, Sum

(* A cluster shown alone is one: no frame has more to draw.                *)
LEMMA RevealHolds ==
    ASSUME ClustersTypeOK PROVE RevealGoesOn
<1> SUFFICES ASSUME renderLimit < Len(Clusters), clusterFocus # NoCluster PROVE FALSE
  BY DEF RevealGoesOn
<1>1. ShownKeys \subseteq {clusterFocus}
  BY DEF ShownKeys, ShownAssets
<1>2. IsFiniteSet({clusterFocus}) /\ Cardinality({clusterFocus}) = 1
  BY FS_Singleton
<1>3. Cardinality(ShownKeys) <= 1
  BY <1>1, <1>2, FS_Subset
<1>4. Len(Clusters) = Cardinality(ShownKeys) /\ Len(Clusters) \in Nat
  BY ClustersAre DEF ListsAll
<1>5. renderLimit \in Nat /\ renderLimit > 0
  BY DEF ClustersTypeOK
<1> QED
  BY <1>3, <1>4, <1>5

(* The inductive invariant of the overview.                                *)
ClustersParts == ClustersTypeOK /\ InspectorHasPage

(* The overview opens so, and every step keeps it.                         *)
LEMMA ClustersInitially == TopologyClustersInit => ClustersParts
  BY ClusterSizes
  DEF TopologyClustersInit, ClustersParts, ClustersTypeOK, InspectorHasPage

(* The display grows by whole batches.                                     *)
LEMMA DisplayGrows ==
    ASSUME ClustersTypeOK, renderLimit < Len(Clusters) PROVE Grown \in Nat \ {0}
<1> DEFINE both == {renderLimit + ClusterBatch, Len(Clusters)}
<1>1. /\ Len(Clusters) \in Nat /\ renderLimit \in Nat /\ renderLimit > 0
      /\ ClusterBatch \in Nat /\ ClusterBatch > 0
  BY ClustersAre, ClusterSizes DEF ListsAll, ClustersTypeOK
<1>2. /\ both \in SUBSET (0..(renderLimit + ClusterBatch + Len(Clusters))) /\ both # {}
      /\ renderLimit + ClusterBatch + Len(Clusters) \in Nat
  BY <1>1
<1>3. Min(both) \in both
  <2> HIDE DEF both
  <2> QED
    BY <1>2, MinIsLeast
<1> QED
  BY <1>1, <1>3 DEF Grown

(* A link has finitely many communications to list.                        *)
LEMMA InspectedIsFinite ==
    ASSUME ClustersTypeOK
    PROVE  IsFiniteSet(Inspected) /\ Cardinality(Inspected) \in Nat
<1>1. Inspected \subseteq ShownRelations
  BY DEF Inspected
<1> QED
  BY <1>1, KeysAreKnown, FS_Subset, FS_CardinalityType DEF Counted

LEMMA ClustersStep == ClustersParts /\ [TopologyClustersNext]_clusterVars => ClustersParts'
<1> SUFFICES ASSUME ClustersParts, [TopologyClustersNext]_clusterVars PROVE ClustersParts'
  OBVIOUS
<1>1. ClustersTypeOK /\ InspectorHasPage
  BY DEF ClustersParts
<1>2. ASSUME UNCHANGED <<listed, clusterKind, clusterFocus, inspected, inspectPage, shrunk>>,
             renderLimit' \in Nat \ {0}
      PROVE  ClustersParts'
  <2>1. Inspected' = Inspected
    BY <1>2 DEF Inspected, ShownRelations, ShownAssets, PairOf, Cluster
  <2> QED
    BY <1>1, <1>2, <2>1 DEF ClustersParts, ClustersTypeOK, InspectorHasPage, Cluster
<1>3. renderLimit \in Nat \ {0}
  BY <1>1 DEF ClustersTypeOK
<1>4. ASSUME ShowMore PROVE ClustersParts'
  <2>1. renderLimit < Len(Clusters)
    BY <1>3, <1>4, <1>1, ClustersAre DEF ShowMore, Partial, ListsAll
  <2> QED
    BY <1>1, <1>2, <1>4, <2>1, DisplayGrows DEF ShowMore
<1>5. ASSUME ToggleReveal PROVE ClustersParts'
  BY <1>2, <1>3, <1>5 DEF ToggleReveal
<1>6. ASSUME ResetClusters PROVE ClustersParts'
  BY <1>2, <1>6, ClusterSizes DEF ResetClusters
<1>7. ASSUME RevealStep PROVE ClustersParts'
  BY <1>1, <1>2, <1>3, <1>7, DisplayGrows DEF RevealStep
<1>8. ASSUME CloseInspector PROVE ClustersParts'
  BY <1>1, <1>8 DEF CloseInspector, ClustersParts, ClustersTypeOK, InspectorHasPage
<1>9. ASSUME NEW those \in SUBSET ClusteredAssets, ListAssets(those) PROVE ClustersParts'
  <2>1. inspectPage \in Nat
    BY <1>1 DEF ClustersTypeOK
  <2>2. /\ inspected' = inspected /\ clusterKind' = clusterKind
        /\ inspectPage' = inspectPage /\ shrunk' = (shrunk \/ inspectPage > 0)
        /\ renderLimit' = renderLimit /\ listed' \subseteq ClusteredAssets
    BY <1>1, <1>9 DEF ListAssets, ClustersTypeOK
  <2>3. inspectPage' = 0 \/ shrunk'
    <3>1. inspectPage = 0 \/ inspectPage > 0
      BY <2>1
    <3> QED
      BY <2>2, <3>1, Zenon
  <2>4. InspectorHasPage'
    BY <1>1, <2>2, <2>3 DEF InspectorHasPage, Cluster
  <2> QED
    BY <1>1, <2>2, <2>4 DEF ClustersParts, ClustersTypeOK
<1>10. ASSUME NEW kind \in GroupingKinds, GroupClusters(kind) PROVE ClustersParts'
  BY <1>1, <1>10, ClusterSizes
  DEF GroupClusters, ClustersParts, ClustersTypeOK, InspectorHasPage
<1>11. ASSUME NEW k \in {NoCluster} \cup {KeyOf(d, clusterKind) : d \in ClusteredAssets},
              FocusCluster(k)
       PROVE  ClustersParts'
  <2>1. inspectPage \in Nat
    BY <1>1 DEF ClustersTypeOK
  <2>2. /\ inspected' = inspected /\ clusterKind' = clusterKind
        /\ inspectPage' = inspectPage /\ shrunk' = (shrunk \/ inspectPage > 0)
        /\ renderLimit' = renderLimit /\ listed' \subseteq ClusteredAssets
    BY <1>1, <1>11 DEF FocusCluster, ClustersTypeOK
  <2>3. inspectPage' = 0 \/ shrunk'
    <3>1. inspectPage = 0 \/ inspectPage > 0
      BY <2>1
    <3> QED
      BY <2>2, <3>1, Zenon
  <2>4. InspectorHasPage'
    BY <1>1, <2>2, <2>3 DEF InspectorHasPage, Cluster
  <2> QED
    BY <1>1, <2>2, <2>4 DEF ClustersParts, ClustersTypeOK
<1>12. ASSUME NEW link \in ToSet(RenderedLinks), InspectLinkOf(link) PROVE ClustersParts'
  <2>1. link \in ClusterLinks
    BY <1>1, DrawnLinksAre
  <2>2. link.pair \in ShownKeys \X ShownKeys
    BY <1>1, <2>1, LinksAre
  <2>3. ShownKeys \subseteq {Cluster(d) : d \in ClusteredAssets}
    BY <1>1 DEF ShownKeys, ShownAssets, ClustersTypeOK
  <2>4. {link.pair[1], link.pair[2]} \subseteq {Cluster(d) : d \in ClusteredAssets}
    BY <2>2, <2>3
  <2>5. inspected' = link.pair /\ inspectPage' = 0 /\ clusterKind' = clusterKind
    BY <1>12 DEF InspectLinkOf
  <2>6. InspectorHasPage'
    BY <2>4, <2>5 DEF InspectorHasPage, Cluster
  <2> QED
    BY <1>1, <1>12, <2>6 DEF InspectLinkOf, ClustersParts, ClustersTypeOK
<1>13. ASSUME NEW step \in {-1, 1}, TurnInspector(step) PROVE ClustersParts'
  <2>1. Inspected' = Inspected
    BY <1>13 DEF TurnInspector, Inspected, ShownRelations, ShownAssets, PairOf, Cluster
  <2>2. inspectPage \in Nat /\ InspectorSize \in Nat /\ InspectorSize > 0
    BY <1>1, ClusterSizes DEF ClustersTypeOK
  <2>3. Cardinality(Inspected) \in Nat
    BY <1>1, InspectedIsFinite
  <2>4. /\ inspectPage' = inspectPage + step /\ inspected # NoPair
        /\ inspected' = inspected /\ shrunk' = shrunk /\ clusterKind' = clusterKind
        /\ step < 0 => inspectPage > 0
        /\ ~(step < 0) => (inspectPage + 1) * InspectorSize < Cardinality(Inspected)
    BY <1>13 DEF TurnInspector
  <2>5. inspectPage' \in Nat
    BY <2>2, <2>4
  <2>6. inspectPage' = 0 \/ shrunk \/ inspectPage' * InspectorSize < Cardinality(Inspected)
    <3>1. CASE step = 1
      <4>1. inspectPage' = inspectPage + 1 /\ ~(step < 0)
        BY <2>4, <3>1
      <4> QED
        BY <2>4, <4>1
    <3>2. CASE step = -1
      <4>1. inspectPage' = inspectPage - 1 /\ inspectPage > 0
        BY <2>2, <2>4, <3>2
      <4>2. shrunk \/ inspectPage * InspectorSize < Cardinality(Inspected)
        BY <1>1, <2>4, <4>1 DEF InspectorHasPage
      <4>3. (inspectPage - 1) * InspectorSize = inspectPage * InspectorSize - InspectorSize
        BY <2>2
      <4>4. inspectPage * InspectorSize \in Nat
        BY <2>2
      <4> QED
        BY <2>2, <2>3, <4>1, <4>2, <4>3, <4>4
    <3> QED
      BY <3>1, <3>2
  <2>7. InspectorHasPage'
    BY <1>1, <2>1, <2>4, <2>6 DEF InspectorHasPage, Cluster
  <2> QED
    BY <1>1, <1>13, <2>5, <2>7 DEF TurnInspector, ClustersParts, ClustersTypeOK
<1>14. CASE UNCHANGED clusterVars
  BY <1>2, <1>3, <1>14 DEF clusterVars
<1> QED
  BY <1>4, <1>5, <1>6, <1>7, <1>8, <1>9, <1>10, <1>11, <1>12, <1>13, <1>14
  DEF TopologyClustersNext

(* The map of clusters draws exactly the links between the clusters it     *)
(* draws, loses no communication and counts none twice, the list behind a  *)
(* link has the page it shows, and the progressive display ends, for any   *)
(* devices, communications and batches.                                    *)
THEOREM ClustersInvariant == TopologyClustersSpec => []ClustersInv
<1>1. ClustersParts => ClustersInv
  BY LinksMatch, RevealHolds DEF ClustersParts, ClustersInv
<1> QED
  BY ClustersInitially, ClustersStep, <1>1, PTL DEF TopologyClustersSpec

-----------------------------------------------------------------------------
(* What a profile must contain: the two lists, for every set of rows.      *)

(* A dedicated IPv4 segment of OT devices is an IPv4 segment.              *)
LEMMA Ipv4OtIsIpv4 ==
    ASSUME kinds \subseteq DOMAIN Shows, Has("ipv4Ot")
    PROVE  Has("ipv4Segment")
<1>1. PICK k \in kinds : "ipv4Ot" \in Shows[k]
  BY DEF Has
<1>2. \A n \in DOMAIN Shows : "ipv4Ot" \in Shows[n] => "ipv4Segment" \in Shows[n]
  <2>1. DOMAIN Shows = {"plainSegment", "otSegment", "itSegment",
                      "purdueSegment", "vlanSegment", "staticSegment",
                      "ipv4Segment", "ipv4OtSegment", "seenHost", "plc", "ied",
                      "switch", "engineering", "dns", "ntp", "dhcp",
                      "management", "modbus", "s7", "enip", "hostPair",
                      "segmentPair", "ignoredHost", "destination",
                      "internalOnly", "dedicated", "ipv4Only"}
    BY Zenon DEF Shows
  <2>2. ASSUME NEW n \in DOMAIN Shows, n # "ipv4OtSegment"
        PROVE  "ipv4Ot" \notin Shows[n]
    <3>1. /\ "ipv4Ot" \notin Shows["plainSegment"]
          /\ "ipv4Ot" \notin Shows["otSegment"]
          /\ "ipv4Ot" \notin Shows["itSegment"]
          /\ "ipv4Ot" \notin Shows["purdueSegment"]
          /\ "ipv4Ot" \notin Shows["vlanSegment"]
          /\ "ipv4Ot" \notin Shows["staticSegment"]
          /\ "ipv4Ot" \notin Shows["ipv4Segment"]
          /\ "ipv4Ot" \notin Shows["seenHost"]
          /\ "ipv4Ot" \notin Shows["plc"]
          /\ "ipv4Ot" \notin Shows["ied"]
          /\ "ipv4Ot" \notin Shows["switch"]
          /\ "ipv4Ot" \notin Shows["engineering"]
          /\ "ipv4Ot" \notin Shows["dns"]
          /\ "ipv4Ot" \notin Shows["ntp"]
          /\ "ipv4Ot" \notin Shows["dhcp"]
          /\ "ipv4Ot" \notin Shows["management"]
          /\ "ipv4Ot" \notin Shows["modbus"]
          /\ "ipv4Ot" \notin Shows["s7"]
          /\ "ipv4Ot" \notin Shows["enip"]
          /\ "ipv4Ot" \notin Shows["hostPair"]
          /\ "ipv4Ot" \notin Shows["segmentPair"]
          /\ "ipv4Ot" \notin Shows["ignoredHost"]
          /\ "ipv4Ot" \notin Shows["destination"]
          /\ "ipv4Ot" \notin Shows["internalOnly"]
          /\ "ipv4Ot" \notin Shows["dedicated"]
          /\ "ipv4Ot" \notin Shows["ipv4Only"]
      BY SMTT(60) DEF Shows
    <3> QED
      BY <2>1, <2>2, <3>1, Zenon
  <2>3. "ipv4Segment" \in Shows["ipv4OtSegment"]
    BY DEF Shows
  <2> QED
    BY <2>2, <2>3
<1> QED
  BY <1>1, <1>2 DEF Has

LEMMA KindsAreKnown ==
    kinds \subseteq DOMAIN Shows /\ [ReadyNext]_kinds => (kinds \subseteq DOMAIN Shows)'
  BY DEF ReadyNext, AddKind, RemoveKind, Shows

LEMMA ListsMatch == kinds \subseteq DOMAIN Shows => ListsAgree
<1> SUFFICES ASSUME kinds \subseteq DOMAIN Shows PROVE ListsAgree
  OBVIOUS
<1>1. /\ ContextComplete("cross_purdue_level_traffic") <=> Has("purdue")
      /\ ContextComplete("ot_external_dns_resolver") <=> Has("dns")
      /\ ContextComplete("dns_source_drift") <=> Has("dns")
      /\ ContextComplete("ntp_internet_multi_dest_ot") <=> Has("ntp")
      /\ ContextComplete("ntp_source_drift") <=> Has("ntp")
      /\ ContextComplete("rogue_dhcp_static_ot") <=> Has("dhcp") \/ Has("static")
      /\ ContextComplete("plc_program_logic_firmware_update") <=> Has("action")
      /\ ContextComplete("ipv6_traffic_ot") <=> Has("ipv4Only") \/ Has("ipv4Ot")
  BY Zenon DEF ContextComplete, Requirements, DhcpComplete
<1>2. /\ Readiness.purdue <=> Has("purdue")
      /\ Readiness.dns <=> Has("dns")
      /\ Readiness.ntp <=> Has("ntp")
      /\ Readiness.dhcp <=> Has("dhcp") \/ Has("static")
      /\ Readiness.control <=> Has("action")
      /\ Readiness.ipv6 <=> Has("ipv4Only") \/ Has("ipv4Segment")
  BY Zenon DEF Readiness
<1> QED
  BY <1>1, <1>2, Ipv4OtIsIpv4, Zenon DEF ListsAgree

(* The checklist of the editor and the requirements of the modules agree   *)
(* where they are about the same context, whatever rows a profile has      *)
(* (profile.ts). *)
THEOREM ReadinessAlwaysAgrees == ReadySpec => []ListsAgree
<1>1. ReadyInit => kinds \subseteq DOMAIN Shows
  BY DEF ReadyInit
<1>2. ReadySpec => [](kinds \subseteq DOMAIN Shows)
  BY <1>1, KindsAreKnown, PTL DEF ReadySpec
<1> QED
  BY <1>2, ListsMatch, PTL

-----------------------------------------------------------------------------
(* The rows of a profile that scans are merged into. The merge is one fold *)
(* (AddPath) over the rows of the profile and of the scan; each promise of *)
(* ScanInv follows from what the fold keeps of the first n of them.        *)

ScanRow == [shape : Paths, source : Sources]

(* A row speaks of the path s, as Covers has it.                           *)
Tells(line, s) ==
    /\ line.shape.protocol = s.protocol
    /\ ComparablePort(line.shape, s.protocol = "icmp") = ComparablePort(s, s.protocol = "icmp")

(* A path with an explicit protocol.                                       *)
IsNamed(s) == s.protocol # ""

(* What mergePairEvidence makes of two rows: the better one, its blanks    *)
(* filled in from the other.                                               *)
FilledFrom(m, p, o) ==
    /\ m \in ScanRow /\ m.source = p.source
    /\ m.shape.protocol = IF p.shape.protocol = "" THEN o.shape.protocol ELSE p.shape.protocol
    /\ m.shape.port = IF p.shape.port = NoPort THEN o.shape.port ELSE p.shape.port

LEMMA MergedRowIs ==
    ASSUME NEW l \in ScanRow, NEW r \in ScanRow
    PROVE  IF Priority(r.source) > Priority(l.source)
           THEN FilledFrom(MergePairEvidence(l, r), r, l)
           ELSE FilledFrom(MergePairEvidence(l, r), l, r)
<1> DEFINE p == IF Priority(r.source) > Priority(l.source) THEN r ELSE l
           o == IF p = l THEN r ELSE l
           protocol == IF p.shape.protocol = "" THEN o.shape.protocol ELSE p.shape.protocol
           port == IF p.shape.port = NoPort THEN o.shape.port ELSE p.shape.port
           m == MergePairEvidence(l, r)
<1>1. p \in {l, r} /\ o \in {l, r}
  OBVIOUS
<1>2. m = [p EXCEPT !.shape = [protocol |-> protocol, port |-> port]]
  BY DEF MergePairEvidence
<1>3. p \in ScanRow /\ o \in ScanRow
  BY <1>1
<1>4. /\ p.shape.protocol \in {"", "tcp", "udp", "icmp"}
      /\ o.shape.protocol \in {"", "tcp", "udp", "icmp"}
      /\ p.shape.port \in Nat \cup {NoPort} /\ o.shape.port \in Nat \cup {NoPort}
  <2> HIDE DEF p, o
  <2> QED
    BY <1>3 DEF ScanRow, Paths
<1>5. /\ protocol \in {"", "tcp", "udp", "icmp"} /\ port \in Nat \cup {NoPort}
  <2> HIDE DEF p, o
  <2> QED
    BY <1>4
<1>6. /\ m \in ScanRow /\ m.source = p.source
      /\ m.shape.protocol = protocol /\ m.shape.port = port
  <2> HIDE DEF p, o, protocol, port, m
  <2>1. [protocol |-> protocol, port |-> port] \in Paths
    BY <1>5 DEF Paths
  <2> QED
    BY <1>2, <1>3, <2>1 DEF ScanRow
<1>7. FilledFrom(m, p, o)
  <2> HIDE DEF p, o, m
  <2> QED
    BY <1>6 DEF FilledFrom
<1>8. CASE Priority(r.source) > Priority(l.source)
  <2>1. p = r /\ (r = l \/ o = l)
    BY <1>8
  <2>2. o = l
    BY <2>1
  <2> HIDE DEF p, o, m
  <2> QED
    BY <1>7, <1>8, <2>1, <2>2 DEF m
<1>9. CASE ~(Priority(r.source) > Priority(l.source))
  <2>1. p = l /\ o = r
    BY <1>9
  <2> HIDE DEF p, o, m
  <2> QED
    BY <1>7, <1>9, <2>1 DEF m
<1> QED
  BY <1>8, <1>9

LEMMA SameRow ==
    ASSUME NEW l \in ScanRow, NEW r \in ScanRow, l.source = r.source,
           l.shape.protocol = r.shape.protocol, l.shape.port = r.shape.port
    PROVE  l = r
<1>1. l.shape \in Paths /\ r.shape \in Paths
  BY DEF ScanRow
<1>2. l.shape = r.shape
  <2>1. ASSUME NEW x \in Paths
        PROVE  x = [protocol |-> x.protocol, port |-> x.port]
    BY DEF Paths
  <2> QED
    BY <1>1, <2>1
<1> QED
  BY <1>2 DEF ScanRow

(* Two rows of one path: what either says explicitly their merge says.     *)
LEMMA MergedRowTells ==
    ASSUME NEW l \in ScanRow, NEW r \in ScanRow, SamePath(l, r),
           NEW s \in Paths, IsNamed(s), Tells(l, s) \/ Tells(r, s)
    PROVE  Tells(MergePairEvidence(l, r), s)
<1>1. {l.shape, r.shape} \subseteq Paths
  BY DEF ScanRow
<1>2. FilledFrom(MergePairEvidence(l, r), r, l) \/ FilledFrom(MergePairEvidence(l, r), l, r)
  BY MergedRowIs
<1>3. MergePairEvidence(l, r).shape.protocol = s.protocol
  BY <1>1, <1>2 DEF SamePath, Tells, FilledFrom, IsNamed
<1>4. CASE s.protocol = "icmp"
  <2>1. ComparablePort(l.shape, TRUE) = ComparablePort(r.shape, TRUE)
    BY <1>4 DEF SamePath, Tells
  <2>2. ComparablePort(l.shape, TRUE) = ComparablePort(s, TRUE)
    BY <2>1, <1>4 DEF Tells
  <2>3. ComparablePort(MergePairEvidence(l, r).shape, TRUE) = ComparablePort(s, TRUE)
    BY <2>1, <2>2, <1>1, <1>2 DEF ComparablePort, FilledFrom
  <2> QED
    BY <1>3, <1>4, <2>3 DEF Tells
<1>5. CASE s.protocol # "icmp"
  <2>1. l.shape.port = r.shape.port /\ l.shape.port = s.port
    BY <1>1, <1>5 DEF SamePath, Tells, ComparablePort, IsNamed
  <2>2. MergePairEvidence(l, r).shape.port = s.port
    BY <2>1, <1>2 DEF FilledFrom
  <2> QED
    BY <1>3, <1>5, <2>2 DEF Tells, ComparablePort
<1> QED
  BY <1>4, <1>5

(* One step of the merge: a path of its own is appended, another one goes  *)
(* into the first row it is about.                                         *)
Joins(table, line, i) ==
    /\ i \in 1..Len(table) /\ SamePath(table[i], line)
    /\ \A j \in 1..Len(table) : SamePath(table[j], line) => i <= j
    /\ AddPath(table, line) = [table EXCEPT ![i] = MergePairEvidence(table[i], line)]

LEMMA AddPathIs ==
    ASSUME NEW table \in Seq(ScanRow), NEW line \in ScanRow
    PROVE  /\ AddPath(table, line) \in Seq(ScanRow)
           /\ \/ /\ \A i \in 1..Len(table) : ~SamePath(table[i], line)
                 /\ AddPath(table, line) = Append(table, line)
              \/ /\ \E i \in 1..Len(table) : Joins(table, line, i)
                 /\ Len(AddPath(table, line)) = Len(table)
<1> DEFINE same == {i \in DOMAIN table : SamePath(table[i], line)}
<1>1. DOMAIN table = 1..Len(table) /\ Len(table) \in Nat
  OBVIOUS
<1>2. CASE same = {}
  <2>1. AddPath(table, line) = Append(table, line)
    BY <1>2 DEF AddPath
  <2>2. \A i \in 1..Len(table) : ~SamePath(table[i], line)
    BY <1>1, <1>2
  <2> QED
    BY <2>1, <2>2
<1>3. CASE same # {}
  <2> DEFINE i == CHOOSE k \in same : \A j \in same : k <= j
  <2>1. i \in same /\ \A j \in same : i <= j
    <3>1. same \in SUBSET (0..Len(table))
      BY <1>1
    <3>2. \E k \in same : \A j \in same : k <= j
      <4> HIDE DEF same
      <4> QED
        BY <1>1, <1>3, <3>1, MinIsLeast
    <3> HIDE DEF same
    <3> QED
      BY <3>2
  <2>2. AddPath(table, line) = [table EXCEPT ![i] = MergePairEvidence(table[i], line)]
    BY <1>3 DEF AddPath
  <2> HIDE DEF i
  <2>3. i \in 1..Len(table) /\ SamePath(table[i], line)
        /\ \A j \in 1..Len(table) : SamePath(table[j], line) => i <= j
    BY <2>1, <1>1
  <2>4. MergePairEvidence(table[i], line) \in ScanRow
    <3>1. table[i] \in ScanRow
      BY <2>3
    <3>2. FilledFrom(MergePairEvidence(table[i], line), table[i], line)
          \/ FilledFrom(MergePairEvidence(table[i], line), line, table[i])
      BY <3>1, MergedRowIs
    <3> QED
      BY <3>2 DEF FilledFrom
  <2>5. AddPath(table, line) \in Seq(ScanRow) /\ Len(AddPath(table, line)) = Len(table)
    BY <2>2, <2>3, <2>4
  <2> QED
    BY <2>2, <2>3, <2>5 DEF Joins
<1> QED
  BY <1>2, <1>3

(* The tables the merge goes through, one row after the other.             *)
Builds(f, all) ==
    /\ f[0] = <<>>
    /\ \A n \in 1..Len(all) : f[n] = AddPath(f[n - 1], all[n])

LEMMA MergesAre ==
    ASSUME NEW table \in Seq(ScanRow), NEW scan \in Seq(ScanRow)
    PROVE  \E f : /\ Builds(f, table \o scan)
                  /\ MergePairs(table, scan) = f[Len(table \o scan)]
<1> DEFINE s == table \o scan
           Solves(f, k) == f = [n \in 0..k |->
                             IF n = 0 THEN <<>> ELSE AddPath(f[n - 1], s[n])]
           Q == {k \in Nat : \E f : Solves(f, k)}
<1>1. 0 \in Q
  <2> DEFINE f == [n \in {0} |-> <<>>]
  <2>1. Solves(f, 0)
    OBVIOUS
  <2> QED
    BY <2>1
<1>2. ASSUME NEW k \in 0..(Len(s) - 1), k \in Q PROVE k + 1 \in Q
  <2>1. PICK f : Solves(f, k)
    BY <1>2
  <2> DEFINE g == [n \in 0..(k + 1) |-> IF n <= k THEN f[n] ELSE AddPath(f[n - 1], s[n])]
  <2>2. \A n \in 0..(k + 1) : n # 0 => n - 1 \in 0..k
    OBVIOUS
  <2>3. \A n \in 0..k : g[n] = f[n]
    OBVIOUS
  <2>4. \A n \in 0..(k + 1) : g[n] = IF n = 0 THEN <<>> ELSE AddPath(g[n - 1], s[n])
    <3> TAKE n \in 0..(k + 1)
    <3>1. CASE n \in 0..k
      <4>1. g[n] = f[n] /\ (n # 0 => g[n - 1] = f[n - 1])
        BY <2>2, <2>3, <3>1
      <4>2. f[n] = IF n = 0 THEN <<>> ELSE AddPath(f[n - 1], s[n])
        <5> HIDE DEF g
        <5> QED BY <2>1, <3>1
      <4> QED
        <5> HIDE DEF g
        <5> QED BY <4>1, <4>2
    <3>2. CASE n = k + 1
      <4>1. g[n - 1] = f[n - 1] /\ n # 0
        BY <2>2, <2>3, <3>2
      <4>2. g[n] = AddPath(f[n - 1], s[n])
        BY <3>2
      <4> QED
        <5> HIDE DEF g
        <5> QED BY <4>1, <4>2
    <3> QED
      BY <3>1, <3>2
  <2>5. Solves(g, k + 1)
    <3>1. g = [n \in 0..(k + 1) |-> g[n]]
      OBVIOUS
    <3> HIDE DEF g
    <3> QED
      BY <3>1, <2>4
  <2>6. k + 1 \in Nat
    OBVIOUS
  <2> HIDE DEF g, Solves
  <2> QED
    BY <2>5, <2>6
<1>3. 0..Len(s) \subseteq Q
  <2>1. Len(s) \in Nat
    OBVIOUS
  <2> HIDE DEF Q, s
  <2> QED
    BY <2>1, <1>1, <1>2, Upward
<1> DEFINE built == CHOOSE f : Solves(f, Len(s))
<1>4. Solves(built, Len(s))
  <2>1. Len(s) \in Nat
    OBVIOUS
  <2>2. \E f : Solves(f, Len(s))
    <3> HIDE DEF Solves, s
    <3> QED
      BY <2>1, <1>3
  <2> HIDE DEF Solves
  <2> QED
    BY <2>2
<1>5. MergePairs(table, scan) = built[Len(s)]
  BY DEF MergePairs
<1>6. Len(s) \in Nat
  OBVIOUS
<1> HIDE DEF built, s
<1>7. \A n \in 0..Len(s) : built[n] = IF n = 0 THEN <<>> ELSE AddPath(built[n - 1], s[n])
  BY <1>4
<1> HIDE DEF Solves
<1>8. Builds(built, s)
  BY <1>6, <1>7 DEF Builds
<1> QED
  BY <1>5, <1>8 DEF s

(* The steps of the proofs about the merge are about what a table says of  *)
(* the first n rows.                                                       *)
IsTable(table) == table \in Seq(ScanRow)

LEMMA BuiltIsTyped ==
    ASSUME NEW all \in Seq(ScanRow), NEW f, Builds(f, all)
    PROVE  \A n \in 0..Len(all) : IsTable(f[n])
<1> DEFINE Q == {n \in 0..Len(all) : IsTable(f[n])}
<1>1. 0 \in Q
  <2>1. f[0] = <<>>
    BY DEF Builds
  <2>2. IsTable(f[0])
    BY <2>1 DEF IsTable
  <2> QED
    BY <2>2
<1>2. ASSUME NEW n \in 0..(Len(all) - 1), n \in Q PROVE n + 1 \in Q
  <2>1. n + 1 \in 1..Len(all) /\ n + 1 \in 0..Len(all) /\ all[n + 1] \in ScanRow
    OBVIOUS
  <2>2. f[n + 1] = AddPath(f[n], all[n + 1])
    BY <2>1 DEF Builds
  <2>3. IsTable(f[n])
    BY <1>2
  <2>4. ASSUME NEW table, IsTable(table) PROVE IsTable(AddPath(table, all[n + 1]))
    BY <2>1, <2>4, AddPathIs DEF IsTable
  <2>5. IsTable(f[n + 1])
    BY <2>2, <2>3, <2>4
  <2> QED
    BY <2>1, <2>5
<1>3. 0..Len(all) \subseteq Q
  <2>1. Len(all) \in Nat
    OBVIOUS
  <2> HIDE DEF Q
  <2> QED
    BY <1>1, <1>2, <2>1, Upward
<1> QED
  BY <1>3

(* What one step covers it leaves covered, and it covers its own row.      *)
LEMMA AddPathCovers ==
    ASSUME NEW table \in Seq(ScanRow), NEW line \in ScanRow,
           NEW s \in Paths, IsNamed(s),
           Covers(table, s) \/ Tells(line, s)
    PROVE  Covers(AddPath(table, line), s)
<1> DEFINE next == AddPath(table, line)
           Spoken == \E k \in 1..Len(next) : Tells(next[k], s)
<1>1. next \in Seq(ScanRow)
  BY AddPathIs
<1> HIDE DEF next
<1>2. /\ DOMAIN table = 1..Len(table) /\ DOMAIN next = 1..Len(next)
  BY <1>1
<1>3. (\E k \in 1..Len(table) : Tells(table[k], s)) \/ Tells(line, s)
  BY <1>2 DEF Covers, Tells
<1>4. Spoken => Covers(next, s)
  BY <1>2 DEF Covers, Tells
<1> HIDE DEF Spoken
<1>5. ASSUME next = Append(table, line) PROVE Spoken
  <2>1. Len(next) = Len(table) + 1 /\ next[Len(table) + 1] = line
        /\ Len(table) \in Nat /\ \A k \in 1..Len(table) : next[k] = table[k]
    BY <1>5
  <2>2. Len(table) + 1 \in 1..Len(next) /\ 1..Len(table) \subseteq 1..Len(next)
    BY <2>1
  <2>3. CASE Tells(line, s)
    <3> DEFINE k == Len(table) + 1
    <3>1. k \in 1..Len(next) /\ Tells(next[k], s)
      BY <2>1, <2>2, <2>3
    <3> HIDE DEF k
    <3> QED
      BY <3>1 DEF Spoken
  <2>4. CASE ~Tells(line, s)
    <3>1. PICK k \in 1..Len(table) : Tells(table[k], s)
      BY <1>3, <2>4
    <3>2. k \in 1..Len(next) /\ next[k] = table[k]
      BY <2>1, <2>2
    <3> QED
      BY <3>1, <3>2 DEF Spoken
  <2> QED
    BY <2>3, <2>4
<1>6. ASSUME NEW i \in 1..Len(table), Joins(table, line, i) PROVE Spoken
  <2>1. next = [table EXCEPT ![i] = MergePairEvidence(table[i], line)]
    BY <1>6 DEF Joins, next
  <2>2. /\ Len(next) = Len(table) /\ next[i] = MergePairEvidence(table[i], line)
        /\ \A k \in 1..Len(table) : k # i => next[k] = table[k]
    BY <2>1
  <2>3. table[i] \in ScanRow
    OBVIOUS
  <2>4. SamePath(table[i], line)
    BY <1>6 DEF Joins
  <2>5. CASE Tells(line, s) \/ Tells(table[i], s)
    <3>1. Tells(next[i], s)
      BY <2>2, <2>3, <2>4, <2>5, MergedRowTells
    <3> QED
      BY <2>2, <3>1 DEF Spoken
  <2>6. CASE ~Tells(line, s) /\ ~Tells(table[i], s)
    BY <1>3, <2>2, <2>6 DEF Spoken
  <2> QED
    BY <2>5, <2>6
<1> QED
  BY <1>4, <1>5, <1>6, AddPathIs DEF next

CoversFirst(table, all, n) ==
    \A i \in 1..n : IsNamed(all[i].shape) => Covers(table, all[i].shape)

LEMMA CoversOneMore ==
    ASSUME NEW all \in Seq(ScanRow), NEW n \in 0..(Len(all) - 1),
           NEW table \in Seq(ScanRow), CoversFirst(table, all, n)
    PROVE  CoversFirst(AddPath(table, all[n + 1]), all, n + 1)
<1> DEFINE line == all[n + 1]
<1>1. line \in ScanRow
  OBVIOUS
<1> HIDE DEF line
<1>2. ASSUME NEW i \in 1..(n + 1), IsNamed(all[i].shape)
      PROVE  Covers(AddPath(table, line), all[i].shape)
  <2>1. all[i] \in ScanRow
    OBVIOUS
  <2>2. all[i].shape \in Paths /\ IsNamed(all[i].shape)
    BY <1>2, <2>1 DEF ScanRow
  <2>3. CASE i = n + 1
    <3>1. Tells(line, all[i].shape)
      BY <2>3 DEF line, Tells
    <3> QED
      BY <1>1, <2>2, <3>1, AddPathCovers
  <2>4. CASE i # n + 1
    <3>1. i \in 1..n
      BY <2>4
    <3>2. Covers(table, all[i].shape)
      BY <1>2, <3>1 DEF CoversFirst
    <3> QED
      BY <1>1, <2>2, <3>2, AddPathCovers
  <2> QED
    BY <2>3, <2>4
<1> QED
  BY <1>2 DEF CoversFirst, line

(* A filled-in row of the user, the u-th, outlasts every other row, but    *)
(* one of the user about the same path.                                    *)
FilledByUser(line) ==
    line.source = "user" /\ line.shape.protocol # "" /\ line.shape.port # NoPort
FromScan(line) == line.source = "zeek"
NoRival(line, mine) == line.source = "user" => ~SamePath(line, mine)
UserRowAt(all, u) ==
    /\ u \in 1..Len(all) /\ FilledByUser(all[u])
    /\ \A i \in 1..Len(all) : i # u => NoRival(all[i], all[u])

HasRow(table, line) == \E k \in 1..Len(table) : table[k] = line
NoRivals(table, mine) == \A k \in 1..Len(table) : NoRival(table[k], mine)
KeepsUser(table, all, u, n) ==
    IF n < u THEN NoRivals(table, all[u]) ELSE HasRow(table, all[u])

(* Filling in its blanks from a row of its path does not make a row one    *)
(* about a filled-in path that it was not about before.                    *)
LEMMA FillingKeepsApart ==
    ASSUME NEW m, NEW p \in ScanRow, NEW o \in ScanRow, NEW mine \in ScanRow,
           FilledFrom(m, p, o), SamePath(p, o) \/ SamePath(o, p),
           FilledByUser(mine), SamePath(m, mine)
    PROVE  SamePath(p, mine)
<1>1. /\ {p.shape, o.shape, mine.shape, m.shape} \subseteq Paths
      /\ m.shape.protocol = IF p.shape.protocol = "" THEN o.shape.protocol
                            ELSE p.shape.protocol
      /\ m.shape.port = IF p.shape.port = NoPort THEN o.shape.port ELSE p.shape.port
  BY DEF FilledFrom, ScanRow
<1>2. m.shape.protocol \in {"", mine.shape.protocol} /\ mine.shape.protocol # ""
  BY DEF SamePath, FilledByUser
<1>3. p.shape.protocol \in {"", mine.shape.protocol}
  BY <1>1, <1>2
<1>4. CASE mine.shape.protocol = "icmp"
  <2>1. ComparablePort(m.shape, TRUE) = ComparablePort(mine.shape, TRUE)
    BY <1>4 DEF SamePath
  <2>2. ComparablePort(p.shape, TRUE) = ComparablePort(m.shape, TRUE)
    BY <1>1 DEF SamePath, ComparablePort, NoPort
  <2> QED
    BY <1>3, <1>4, <2>1, <2>2 DEF SamePath
<1>5. CASE mine.shape.protocol # "icmp"
  <2>1. m.shape.port = mine.shape.port /\ m.shape.port # NoPort
    BY <1>2, <1>5 DEF SamePath, ComparablePort, FilledByUser
  <2>2. m.shape.protocol # "icmp" /\ p.shape.protocol # "icmp"
    BY <1>2, <1>3, <1>5
  <2>3. p.shape.port # NoPort
    <3>1. SUFFICES ASSUME p.shape.port = NoPort PROVE FALSE
      OBVIOUS
    <3>2. o.shape.protocol # "icmp"
      BY <1>1, <2>2 DEF SamePath
    <3>3. o.shape.port = NoPort
      BY <2>2, <3>1, <3>2 DEF SamePath, ComparablePort
    <3> QED
      BY <1>1, <2>1, <3>1, <3>3
  <2> QED
    BY <1>1, <1>3, <1>5, <2>1, <2>2, <2>3 DEF SamePath, ComparablePort
<1> QED
  BY <1>4, <1>5

LEMMA KeepsUserOnce ==
    ASSUME NEW all \in Seq(ScanRow), NEW u, UserRowAt(all, u),
           NEW n \in 0..(Len(all) - 1), NEW table \in Seq(ScanRow),
           KeepsUser(table, all, u, n)
    PROVE  KeepsUser(AddPath(table, all[n + 1]), all, u, n + 1)
<1> DEFINE line == all[n + 1]
           mine == all[u]
           next == AddPath(table, line)
<1>1. /\ line \in ScanRow /\ mine \in ScanRow /\ u \in 1..Len(all)
      /\ n + 1 # u => NoRival(line, mine)
      /\ n + 1 = u => line = mine
  BY DEF UserRowAt
<1>2. FilledByUser(mine)
  BY DEF UserRowAt
<1>3. next \in Seq(ScanRow)
  BY <1>1, AddPathIs
<1>4. \A x \in ScanRow :
         IF x.source = "user" THEN Priority(x.source) = 3 ELSE Priority(x.source) \in 1..2
  BY DEF Priority, ScanRow, Sources
<1>5. /\ n < u => NoRivals(table, mine)
      /\ n >= u => HasRow(table, mine)
  BY <1>1 DEF KeepsUser
<1> DEFINE Held == /\ n + 1 < u => NoRivals(next, mine)
                   /\ n + 1 >= u => HasRow(next, mine)
<1>6. SUFFICES Held
  BY <1>1 DEF KeepsUser
<1> HIDE DEF line, mine, next
<1>7. CASE next = Append(table, line)
  <2>1. /\ Len(next) = Len(table) + 1 /\ next[Len(table) + 1] = line
        /\ Len(table) \in Nat /\ \A k \in 1..Len(table) : next[k] = table[k]
    BY <1>7
  <2>2. CASE n + 1 < u
    <3>1. NoRival(line, mine) /\ n < u
      BY <1>1, <2>2
    <3> QED
      <4>1. ASSUME NEW k \in 1..Len(next) PROVE NoRival(next[k], mine)
        <5>1. CASE k \in 1..Len(table)
          BY <1>5, <2>1, <3>1, <5>1 DEF NoRivals
        <5>2. CASE k = Len(table) + 1
          BY <2>1, <3>1, <5>2
        <5> QED
          BY <2>1, <5>1, <5>2
      <4> QED
        BY <1>1, <2>2, <4>1 DEF NoRivals
  <2>3. CASE n + 1 = u
    BY <1>1, <2>1, <2>3 DEF HasRow
  <2>4. CASE n >= u
    <3>1. PICK k \in 1..Len(table) : table[k] = mine
      BY <1>5, <2>4 DEF HasRow
    <3>2. k \in 1..Len(next) /\ next[k] = mine
      BY <2>1, <3>1
    <3> QED
      BY <1>1, <2>4, <3>2 DEF HasRow
  <2> QED
    BY <1>1, <2>2, <2>3, <2>4
<1>8. ASSUME NEW i \in 1..Len(table), Joins(table, line, i) PROVE Held
  <2>1. next = [table EXCEPT ![i] = MergePairEvidence(table[i], line)]
    BY <1>8 DEF Joins, next
  <2>2. /\ Len(next) = Len(table) /\ next[i] = MergePairEvidence(table[i], line)
        /\ \A k \in 1..Len(table) : k # i => next[k] = table[k]
    BY <2>1
  <2>3. table[i] \in ScanRow /\ SamePath(table[i], line)
    BY <1>8 DEF Joins
  <2>4. IF Priority(line.source) > Priority(table[i].source)
        THEN FilledFrom(next[i], line, table[i]) ELSE FilledFrom(next[i], table[i], line)
    BY <1>1, <2>2, <2>3, MergedRowIs
  <2>5. CASE n + 1 < u
    <3>1. NoRival(line, mine) /\ NoRivals(table, mine)
      BY <1>1, <1>5, <2>5
    <3>2. NoRival(next[i], mine)
      <4>1. NoRival(table[i], mine)
        BY <3>1 DEF NoRivals
      <4>2. PICK q \in {line, table[i]}, o \in {line, table[i]} :
               FilledFrom(next[i], q, o) /\ (SamePath(q, o) \/ SamePath(o, q))
        BY <2>3, <2>4
      <4>3. q \in ScanRow /\ o \in ScanRow /\ NoRival(q, mine)
        BY <1>1, <2>3, <3>1, <4>1
      <4>4. SamePath(next[i], mine) => SamePath(q, mine)
        BY <1>1, <1>2, <4>2, <4>3, FillingKeepsApart
      <4>5. next[i].source = q.source
        BY <4>2 DEF FilledFrom
      <4> QED
        BY <4>3, <4>4, <4>5 DEF NoRival
    <3>3. NoRivals(next, mine)
      BY <2>2, <3>1, <3>2 DEF NoRivals
    <3> QED
      BY <1>1, <2>5, <3>3
  <2>6. CASE n + 1 = u
    <3>1. line = mine /\ NoRivals(table, mine)
      BY <1>1, <1>5, <2>6
    <3>2. table[i].source # "user"
      BY <2>3, <3>1 DEF NoRivals, NoRival
    <3>3. FilledFrom(next[i], mine, table[i])
      <4>1. Priority(line.source) = 3
        BY <1>1, <1>2, <1>4, <3>1 DEF FilledByUser
      <4>2. Priority(table[i].source) \in 1..2
        BY <1>4, <2>3, <3>2
      <4> QED
        BY <2>4, <3>1, <4>1, <4>2
    <3>4. next[i] = mine
      BY <1>1, <1>2, <3>3, SameRow DEF FilledFrom, FilledByUser
    <3>5. HasRow(next, mine)
      BY <2>2, <3>4 DEF HasRow
    <3> QED
      BY <2>6, <3>5
  <2>7. CASE n >= u
    <3>1. PICK k \in 1..Len(table) : table[k] = mine
      BY <1>5, <2>7 DEF HasRow
    <3>2. CASE k = i
      <4>1. FilledFrom(next[i], mine, line)
        <5>1. Priority(table[i].source) = 3
          BY <1>1, <1>2, <1>4, <3>1, <3>2 DEF FilledByUser
        <5>2. Priority(line.source) \in 1..3
          BY <1>1, <1>4
        <5> QED
          BY <2>4, <3>1, <3>2, <5>1, <5>2
      <4>2. next[i] = mine
        BY <1>1, <1>2, <4>1, SameRow DEF FilledFrom, FilledByUser
      <4> QED
        BY <1>1, <2>2, <2>7, <4>2 DEF HasRow
    <3>3. CASE k # i
      <4>1. next[k] = mine
        BY <2>2, <3>1, <3>3
      <4> QED
        BY <1>1, <2>2, <2>7, <4>1 DEF HasRow
    <3> QED
      BY <3>2, <3>3
  <2> QED
    BY <1>1, <2>5, <2>6, <2>7
<1> QED
  BY <1>1, <1>7, <1>8, AddPathIs DEF next

LEMMA BuiltCovers ==
    ASSUME NEW all \in Seq(ScanRow), NEW f, Builds(f, all)
    PROVE  CoversFirst(f[Len(all)], all, Len(all))
<1> DEFINE Q == {n \in 0..Len(all) : CoversFirst(f[n], all, n)}
<1>1. 0 \in Q
  <2>1. f[0] = <<>>
    BY DEF Builds
  <2>2. CoversFirst(f[0], all, 0)
    BY <2>1 DEF CoversFirst
  <2> QED
    BY <2>2
<1>2. ASSUME NEW n \in 0..(Len(all) - 1), n \in Q PROVE n + 1 \in Q
  <2>1. n + 1 \in 1..Len(all) /\ n + 1 \in 0..Len(all) /\ n \in 0..Len(all)
    OBVIOUS
  <2>2. f[n + 1] = AddPath(f[n], all[n + 1])
    BY <2>1 DEF Builds
  <2>3. IsTable(f[n]) /\ CoversFirst(f[n], all, n)
    BY <1>2, <2>1, BuiltIsTyped
  <2>4. ASSUME NEW table, IsTable(table), CoversFirst(table, all, n)
        PROVE  CoversFirst(AddPath(table, all[n + 1]), all, n + 1)
    BY <2>4, CoversOneMore DEF IsTable
  <2>5. CoversFirst(f[n + 1], all, n + 1)
    BY <2>2, <2>3, <2>4
  <2> QED
    BY <2>1, <2>5
<1>3. 0..Len(all) \subseteq Q
  <2>1. Len(all) \in Nat
    OBVIOUS
  <2> HIDE DEF Q
  <2> QED
    BY <1>1, <1>2, <2>1, Upward
<1>4. Len(all) \in 0..Len(all)
  OBVIOUS
<1> QED
  BY <1>3, <1>4

LEMMA BuiltKeepsUser ==
    ASSUME NEW all \in Seq(ScanRow), NEW f, Builds(f, all),
           NEW u, UserRowAt(all, u)
    PROVE  KeepsUser(f[Len(all)], all, u, Len(all))
<1> DEFINE Q == {n \in 0..Len(all) : KeepsUser(f[n], all, u, n)}
<1>1. 0 \in Q
  <2>1. f[0] = <<>>
    BY DEF Builds
  <2>2. KeepsUser(f[0], all, u, 0)
    BY <2>1 DEF KeepsUser, NoRivals, UserRowAt
  <2> QED
    BY <2>2
<1>2. ASSUME NEW n \in 0..(Len(all) - 1), n \in Q PROVE n + 1 \in Q
  <2>1. n + 1 \in 1..Len(all) /\ n + 1 \in 0..Len(all) /\ n \in 0..Len(all)
    OBVIOUS
  <2>2. f[n + 1] = AddPath(f[n], all[n + 1])
    BY <2>1 DEF Builds
  <2>3. IsTable(f[n]) /\ KeepsUser(f[n], all, u, n)
    BY <1>2, <2>1, BuiltIsTyped
  <2>4. ASSUME NEW table, IsTable(table), KeepsUser(table, all, u, n)
        PROVE  KeepsUser(AddPath(table, all[n + 1]), all, u, n + 1)
    BY <2>4, KeepsUserOnce DEF IsTable
  <2>5. KeepsUser(f[n + 1], all, u, n + 1)
    BY <2>2, <2>3, <2>4
  <2> QED
    BY <2>1, <2>5
<1>3. 0..Len(all) \subseteq Q
  <2>1. Len(all) \in Nat
    OBVIOUS
  <2> HIDE DEF Q
  <2> QED
    BY <1>1, <1>2, <2>1, Upward
<1>4. Len(all) \in 0..Len(all)
  OBVIOUS
<1> QED
  BY <1>3, <1>4

(* Without ICMP the rows of a merged table are about paths of their own,   *)
(* and what was merged into it finds its row again.                        *)
Icmp(line) == line.shape.protocol = "icmp"
WithoutIcmp(table) == \A k \in 1..Len(table) : ~Icmp(table[k])
Apart(table) == \A j, k \in 1..Len(table) : j # k => ~SamePath(table[j], table[k])
Answers(line, r) ==
    /\ line.shape.port = r.shape.port
    /\ r.shape.protocol = "" \/ line.shape.protocol = r.shape.protocol
FindsRow(table, r) == \E k \in 1..Len(table) : Answers(table[k], r)

LEMMA PlainPaths ==
    ASSUME NEW l \in ScanRow, NEW r \in ScanRow, ~Icmp(l), ~Icmp(r)
    PROVE  /\ SamePath(l, r) <=>
                /\ l.shape.port = r.shape.port
                /\ \/ l.shape.protocol = r.shape.protocol
                   \/ l.shape.protocol = "" \/ r.shape.protocol = ""
           /\ SamePath(l, r) <=> SamePath(r, l)
           /\ Answers(l, r) => SamePath(l, r)
  BY DEF SamePath, ComparablePort, Icmp, Answers

(* Two plain rows of one path make one that answers whatever they answered *)
(* and is apart from what the first was apart from.                        *)
LEMMA PlainRows ==
    ASSUME NEW l \in ScanRow, NEW r \in ScanRow, ~Icmp(l), ~Icmp(r), SamePath(l, r)
    PROVE  LET m == MergePairEvidence(l, r) IN
           /\ m \in ScanRow /\ ~Icmp(m) /\ Answers(m, l) /\ Answers(m, r)
           /\ \A x \in ScanRow : Answers(l, x) => Answers(m, x)
           /\ \A x \in ScanRow : ~Icmp(x) /\ SamePath(m, x) => SamePath(l, x)
<1> DEFINE m == MergePairEvidence(l, r)
<1>1. FilledFrom(m, r, l) \/ FilledFrom(m, l, r)
  BY MergedRowIs
<1> HIDE DEF m
<1>2. /\ l.shape.port = r.shape.port
      /\ l.shape.protocol = r.shape.protocol \/ l.shape.protocol = "" \/ r.shape.protocol = ""
  BY PlainPaths
<1>3. /\ m \in ScanRow /\ m.shape.port = l.shape.port
      /\ m.shape.protocol = IF l.shape.protocol = "" THEN r.shape.protocol
                                                     ELSE l.shape.protocol
  BY <1>1, <1>2 DEF FilledFrom
<1>4. ~Icmp(m)
  BY <1>3 DEF Icmp
<1>5. Answers(m, l) /\ Answers(m, r)
  BY <1>2, <1>3 DEF Answers
<1>6. ASSUME NEW x \in ScanRow, Answers(l, x) PROVE Answers(m, x)
  BY <1>2, <1>3, <1>6 DEF Answers
<1>7. ASSUME NEW x \in ScanRow, ~Icmp(x), SamePath(m, x) PROVE SamePath(l, x)
  <2>1. /\ m.shape.port = x.shape.port
        /\ m.shape.protocol = x.shape.protocol \/ m.shape.protocol = "" \/ x.shape.protocol = ""
    BY <1>3, <1>4, <1>7, PlainPaths
  <2>2. /\ l.shape.port = x.shape.port
        /\ l.shape.protocol = x.shape.protocol \/ l.shape.protocol = "" \/ x.shape.protocol = ""
    BY <1>3, <2>1
  <2> QED
    BY <1>7, <2>2, PlainPaths
<1> QED
  BY <1>3, <1>4, <1>5, <1>6, <1>7 DEF m

LEMMA PlainStep ==
    ASSUME NEW table \in Seq(ScanRow), NEW line \in ScanRow,
           WithoutIcmp(table), Apart(table), ~Icmp(line)
    PROVE  LET next == AddPath(table, line) IN
           /\ WithoutIcmp(next) /\ Apart(next) /\ FindsRow(next, line)
           /\ \A x \in ScanRow : FindsRow(table, x) => FindsRow(next, x)
<1> DEFINE next == AddPath(table, line)
           Steps == /\ WithoutIcmp(next) /\ Apart(next) /\ FindsRow(next, line)
                    /\ \A x \in ScanRow : FindsRow(table, x) => FindsRow(next, x)
<1> HIDE DEF next
<1>1. ASSUME \A i \in 1..Len(table) : ~SamePath(table[i], line), next = Append(table, line)
      PROVE  Steps
  <2>1. /\ Len(next) = Len(table) + 1 /\ next[Len(table) + 1] = line
        /\ Len(table) \in Nat /\ \A k \in 1..Len(table) : next[k] = table[k]
    BY <1>1
  <2>2. \A k \in 1..Len(table) : table[k] \in ScanRow /\ ~Icmp(table[k])
    BY DEF WithoutIcmp
  <2>3. Len(next) \in 1..Len(next) /\ next[Len(next)] = line
        /\ \A k \in 1..Len(next) : k \in 1..Len(table) \/ k = Len(next)
    BY <2>1
  <2>4. WithoutIcmp(next)
    BY <2>1, <2>2, <2>3 DEF WithoutIcmp
  <2>5. \A k \in 1..Len(table) : ~SamePath(table[k], line) /\ ~SamePath(line, table[k])
    BY <1>1, <2>2, PlainPaths
  <2>6. Apart(next)
    BY <2>1, <2>3, <2>5 DEF Apart
  <2>7. FindsRow(next, line)
    BY <2>3 DEF FindsRow, Answers
  <2>8. ASSUME NEW x \in ScanRow, FindsRow(table, x) PROVE FindsRow(next, x)
    <3>1. PICK k \in 1..Len(table) : Answers(table[k], x)
      BY <2>8 DEF FindsRow
    <3>2. k \in 1..Len(next) /\ Answers(next[k], x)
      BY <2>1, <3>1
    <3> QED
      BY <3>2 DEF FindsRow
  <2> QED
    BY <2>4, <2>6, <2>7, <2>8
<1>2. ASSUME NEW i \in 1..Len(table), Joins(table, line, i) PROVE Steps
  <2> DEFINE m == MergePairEvidence(table[i], line)
  <2>1. next = [table EXCEPT ![i] = m]
    BY <1>2 DEF Joins, next
  <2>2. /\ Len(next) = Len(table) /\ next[i] = m
        /\ \A k \in 1..Len(table) : k # i => next[k] = table[k]
    BY <2>1
  <2>3. \A k \in 1..Len(table) : table[k] \in ScanRow /\ ~Icmp(table[k])
    BY DEF WithoutIcmp
  <2>4. SamePath(table[i], line)
    BY <1>2 DEF Joins
  <2>5. /\ m \in ScanRow /\ ~Icmp(m) /\ Answers(m, line)
        /\ \A x \in ScanRow : Answers(table[i], x) => Answers(m, x)
        /\ \A x \in ScanRow : ~Icmp(x) /\ SamePath(m, x) => SamePath(table[i], x)
    BY <2>3, <2>4, PlainRows
  <2> HIDE DEF m
  <2>6. WithoutIcmp(next)
    BY <2>2, <2>3, <2>5 DEF WithoutIcmp
  <2>7. \A k \in 1..Len(table) : k # i => ~SamePath(m, table[k]) /\ ~SamePath(table[k], m)
    <3> TAKE k \in 1..Len(table)
    <3> HAVE k # i
    <3>1. ~SamePath(table[i], table[k])
      BY DEF Apart
    <3>2. ~SamePath(m, table[k])
      BY <2>3, <2>5, <3>1
    <3> QED
      BY <2>3, <2>5, <3>2, PlainPaths
  <2>8. Apart(next)
    BY <2>2, <2>7 DEF Apart
  <2>9. FindsRow(next, line)
    BY <2>2, <2>5 DEF FindsRow
  <2>10. ASSUME NEW x \in ScanRow, FindsRow(table, x) PROVE FindsRow(next, x)
    <3>1. PICK k \in 1..Len(table) : Answers(table[k], x)
      BY <2>10 DEF FindsRow
    <3>2. k \in 1..Len(next) /\ Answers(next[k], x)
      BY <2>2, <2>5, <3>1
    <3> QED
      BY <3>2 DEF FindsRow
  <2> QED
    BY <2>6, <2>8, <2>9, <2>10
<1>3. Steps
  BY <1>1, <1>2, AddPathIs DEF next
<1> QED
  BY <1>3 DEF next

(* A row of a scan that finds its row again changes nothing.               *)
LEMMA PlainRowSettles ==
    ASSUME NEW table \in Seq(ScanRow), NEW line \in ScanRow, WithoutIcmp(table), Apart(table),
           ~Icmp(line), FromScan(line), FindsRow(table, line)
    PROVE  AddPath(table, line) = table
<1>1. \A k \in 1..Len(table) : table[k] \in ScanRow /\ ~Icmp(table[k])
  BY DEF WithoutIcmp
<1>2. PICK k \in 1..Len(table) : Answers(table[k], line)
  BY DEF FindsRow
<1>3. SamePath(table[k], line)
  BY <1>1, <1>2, PlainPaths
<1>4. PICK i \in 1..Len(table) : Joins(table, line, i)
  BY <1>3, AddPathIs
<1> DEFINE l == table[i]
           m == MergePairEvidence(l, line)
           other == table[k]
<1>5. /\ l \in ScanRow /\ ~Icmp(l) /\ other \in ScanRow /\ ~Icmp(other)
      /\ Answers(other, line) /\ SamePath(l, line)
      /\ l = other \/ ~SamePath(l, other)
  BY <1>1, <1>2, <1>4 DEF Joins, Apart
<1>6. AddPath(table, line) = [table EXCEPT ![i] = m]
  BY <1>4 DEF Joins
<1> HIDE DEF l, other
<1>7. m = l
  <2>1. ~(Priority(line.source) > Priority(l.source))
    BY <1>5 DEF Priority, FromScan, ScanRow, Sources
  <2>2. FilledFrom(m, l, line)
    BY <1>5, <2>1, MergedRowIs
  <2> HIDE DEF m
  <2>3. l.shape.port = line.shape.port
    BY <1>5, PlainPaths
  <2>4. other.shape.port = line.shape.port
        /\ (line.shape.protocol = "" \/ other.shape.protocol = line.shape.protocol)
    BY <1>5 DEF Answers
  <2>5. l.shape.protocol = "" => line.shape.protocol = ""
    BY <1>5, <2>3, <2>4, PlainPaths
  <2>6. m.shape.port = l.shape.port /\ m.shape.protocol = l.shape.protocol
    BY <2>2, <2>3, <2>5 DEF FilledFrom
  <2> QED
    BY <1>5, <2>2, <2>6, SameRow DEF FilledFrom
<1> HIDE DEF m
<1> QED
  BY <1>6, <1>7 DEF l

PlainFirst(table, all, n) ==
    WithoutIcmp(table) /\ Apart(table) /\ \A i \in 1..n : FindsRow(table, all[i])

LEMMA PlainOneMore ==
    ASSUME NEW all \in Seq(ScanRow), WithoutIcmp(all), NEW n \in 0..(Len(all) - 1),
           NEW table \in Seq(ScanRow), PlainFirst(table, all, n)
    PROVE  PlainFirst(AddPath(table, all[n + 1]), all, n + 1)
<1> DEFINE line == all[n + 1]
           next == AddPath(table, line)
<1>1. n + 1 \in 1..Len(all) /\ line \in ScanRow
  OBVIOUS
<1>2. ~Icmp(line) /\ WithoutIcmp(table) /\ Apart(table)
  BY <1>1 DEF WithoutIcmp, PlainFirst
<1> HIDE DEF line
<1>3. /\ WithoutIcmp(next) /\ Apart(next) /\ FindsRow(next, line)
      /\ \A x \in ScanRow : FindsRow(table, x) => FindsRow(next, x)
  BY <1>1, <1>2, PlainStep
<1> HIDE DEF next
<1>4. ASSUME NEW i \in 1..(n + 1) PROVE FindsRow(next, all[i])
  <2>1. i \in 1..Len(all) /\ all[i] \in ScanRow
    OBVIOUS
  <2>2. CASE i = n + 1
    BY <1>3, <2>2 DEF line
  <2>3. CASE i # n + 1
    <3>1. i \in 1..n
      BY <2>3
    <3>2. FindsRow(table, all[i])
      BY <3>1 DEF PlainFirst
    <3> QED
      BY <1>3, <2>1, <3>2
  <2> QED
    BY <2>2, <2>3
<1>5. PlainFirst(next, all, n + 1)
  BY <1>3, <1>4 DEF PlainFirst
<1> QED
  BY <1>5 DEF next, line

LEMMA BuiltIsPlain ==
    ASSUME NEW all \in Seq(ScanRow), NEW f, Builds(f, all), WithoutIcmp(all)
    PROVE  PlainFirst(f[Len(all)], all, Len(all))
<1> DEFINE Q == {n \in 0..Len(all) : PlainFirst(f[n], all, n)}
<1>1. 0 \in Q
  <2>1. f[0] = <<>>
    BY DEF Builds
  <2>2. PlainFirst(f[0], all, 0)
    BY <2>1 DEF PlainFirst, WithoutIcmp, Apart
  <2> QED
    BY <2>2
<1>2. ASSUME NEW n \in 0..(Len(all) - 1), n \in Q PROVE n + 1 \in Q
  <2>1. n + 1 \in 1..Len(all) /\ n + 1 \in 0..Len(all) /\ n \in 0..Len(all)
    OBVIOUS
  <2>2. f[n + 1] = AddPath(f[n], all[n + 1])
    BY <2>1 DEF Builds
  <2>3. IsTable(f[n]) /\ PlainFirst(f[n], all, n)
    BY <1>2, <2>1, BuiltIsTyped
  <2>4. ASSUME NEW table, IsTable(table), PlainFirst(table, all, n)
        PROVE  PlainFirst(AddPath(table, all[n + 1]), all, n + 1)
    BY <2>4, PlainOneMore DEF IsTable
  <2>5. PlainFirst(f[n + 1], all, n + 1)
    BY <2>2, <2>3, <2>4
  <2> QED
    BY <2>1, <2>5
<1>3. 0..Len(all) \subseteq Q
  <2>1. Len(all) \in Nat
    OBVIOUS
  <2> HIDE DEF Q
  <2> QED
    BY <1>1, <1>2, <2>1, Upward
<1>4. Len(all) \in 0..Len(all)
  OBVIOUS
<1> QED
  BY <1>3, <1>4

(* Merging a plain table once more, and rows of a scan that all find their *)
(* row in it: the rows come back one by one, and nothing else happens.     *)
Rescanned(merged, scan) ==
    /\ merged \in Seq(ScanRow) /\ WithoutIcmp(merged) /\ Apart(merged)
    /\ scan \in Seq(ScanRow)
    /\ \A i \in 1..Len(scan) :
         ~Icmp(scan[i]) /\ FromScan(scan[i]) /\ FindsRow(merged, scan[i])
Regains(table, merged, n) ==
    /\ Len(table) = IF n <= Len(merged) THEN n ELSE Len(merged)
    /\ \A k \in 1..Len(table) : table[k] = merged[k]

LEMMA RegainsOneMore ==
    ASSUME NEW merged, NEW scan, Rescanned(merged, scan),
           NEW n \in 0..(Len(merged \o scan) - 1),
           NEW table \in Seq(ScanRow), Regains(table, merged, n)
    PROVE  Regains(AddPath(table, (merged \o scan)[n + 1]), merged, n + 1)
<1> DEFINE line == (merged \o scan)[n + 1]
           next == AddPath(table, line)
<1>1. /\ merged \in Seq(ScanRow) /\ scan \in Seq(ScanRow)
      /\ WithoutIcmp(merged) /\ Apart(merged)
  BY DEF Rescanned
<1>2. n \in Nat /\ Len(merged) \in Nat /\ Len(scan) \in Nat /\ n < Len(merged) + Len(scan)
  BY <1>1
<1>3. CASE n < Len(merged)
  <2>1. line = merged[n + 1] /\ n + 1 \in 1..Len(merged)
    BY <1>1, <1>2, <1>3
  <2>2. Len(table) = n /\ \A k \in 1..n : table[k] = merged[k] /\ k \in 1..Len(merged)
    BY <1>2, <1>3 DEF Regains
  <2>3. line \in ScanRow
    BY <1>1, <2>1
  <2>4. \A k \in 1..Len(table) : ~SamePath(table[k], line)
    <3> TAKE k \in 1..Len(table)
    <3>1. k \in 1..Len(merged) /\ k # n + 1 /\ table[k] = merged[k]
      BY <1>2, <2>2
    <3>2. ~SamePath(merged[k], merged[n + 1])
      BY <1>1, <2>1, <3>1 DEF Apart
    <3> QED
      BY <2>1, <3>1, <3>2
  <2> HIDE DEF line
  <2>5. next = Append(table, line)
    BY <2>3, <2>4, AddPathIs DEF Joins
  <2> HIDE DEF next
  <2>6. /\ Len(next) = n + 1 /\ next[n + 1] = merged[n + 1]
        /\ \A k \in 1..n : next[k] = table[k]
    BY <1>2, <2>1, <2>2, <2>5
  <2>7. \A k \in 1..Len(next) : next[k] = merged[k]
    BY <1>2, <2>2, <2>6
  <2>8. Regains(next, merged, n + 1)
    BY <1>2, <1>3, <2>6, <2>7 DEF Regains
  <2> QED
    BY <2>8 DEF next, line
<1>4. CASE n >= Len(merged)
  <2>1. /\ n + 1 - Len(merged) \in 1..Len(scan) /\ line = scan[n + 1 - Len(merged)]
    BY <1>1, <1>2, <1>4
  <2>2. Len(table) = Len(merged) /\ \A k \in 1..Len(table) : table[k] = merged[k]
    BY <1>2, <1>4 DEF Regains
  <2>3. table = merged
    BY <1>1, <2>2
  <2>4. line \in ScanRow /\ ~Icmp(line) /\ FromScan(line) /\ FindsRow(merged, line)
    BY <1>1, <2>1 DEF Rescanned
  <2> HIDE DEF line
  <2>5. next = merged
    BY <1>1, <2>3, <2>4, PlainRowSettles
  <2>6. Regains(next, merged, n + 1)
    BY <1>2, <1>4, <2>5 DEF Regains
  <2> QED
    BY <2>6 DEF line
<1> QED
  BY <1>2, <1>3, <1>4

LEMMA BuiltRegains ==
    ASSUME NEW merged, NEW scan, Rescanned(merged, scan), NEW f, Builds(f, merged \o scan)
    PROVE  f[Len(merged \o scan)] = merged
<1> DEFINE all == merged \o scan
           Q == {n \in 0..Len(all) : Regains(f[n], merged, n)}
<1>1. /\ merged \in Seq(ScanRow) /\ scan \in Seq(ScanRow) /\ all \in Seq(ScanRow)
      /\ Len(all) = Len(merged) + Len(scan) /\ Len(merged) \in Nat /\ Len(scan) \in Nat
  BY DEF Rescanned
<1>2. \A n \in 0..Len(all) : IsTable(f[n])
  BY <1>1, BuiltIsTyped
<1>3. \A n \in 0..(Len(all) - 1) : \A table :
        IsTable(table) /\ Regains(table, merged, n)
          => Regains(AddPath(table, all[n + 1]), merged, n + 1)
  BY RegainsOneMore DEF IsTable
<1>4. f[0] = <<>> /\ \A n \in 1..Len(all) : f[n] = AddPath(f[n - 1], all[n])
  BY DEF Builds
<1> HIDE DEF all
<1>5. 0 \in Q
  <2>1. Regains(<<>>, merged, 0)
    BY <1>1 DEF Regains
  <2>2. Regains(f[0], merged, 0)
    BY <1>4, <2>1
  <2> QED
    BY <1>1, <2>2
<1>6. ASSUME NEW n \in 0..(Len(all) - 1), n \in Q PROVE n + 1 \in Q
  <2>1. n + 1 \in 1..Len(all) /\ n + 1 \in 0..Len(all) /\ n \in 0..Len(all)
        /\ (n + 1) - 1 = n
    BY <1>1
  <2>2. f[n + 1] = AddPath(f[n], all[n + 1])
    BY <1>4, <2>1
  <2>3. IsTable(f[n]) /\ Regains(f[n], merged, n)
    BY <1>2, <1>6, <2>1
  <2>4. Regains(f[n + 1], merged, n + 1)
    BY <1>3, <2>2, <2>3
  <2> QED
    BY <2>1, <2>4
<1>7. 0..Len(all) \subseteq Q
  <2>1. Len(all) \in Nat
    BY <1>1
  <2> HIDE DEF Q
  <2> QED
    BY <1>5, <1>6, <2>1, Upward
<1>8. IsTable(f[Len(all)]) /\ Regains(f[Len(all)], merged, Len(all))
  <2>1. Len(all) \in 0..Len(all)
    BY <1>1
  <2> QED
    BY <1>2, <1>7, <2>1
<1>9. ASSUME NEW table \in Seq(ScanRow), Regains(table, merged, Len(all))
      PROVE  table = merged
  <2>1. Len(table) = Len(merged) /\ \A k \in 1..Len(table) : table[k] = merged[k]
    BY <1>1, <1>9 DEF Regains
  <2> QED
    BY <1>1, <2>1
<1> QED
  BY <1>8, <1>9 DEF IsTable, all

LEMMA ScansAre ==
    ASSUME NEW scan \in Scans
    PROVE  scan \in Seq(ScanRow) /\ \A i \in 1..Len(scan) : FromScan(scan[i])
<1> DEFINE Found == [shape : Shapes, source : {"zeek"}]
<1>1. PICK m \in 0..MaxScan : scan \in [1..m -> Found]
  BY DEF Scans, BoundedSeq, SeqOf
<1>2. m \in Nat
  BY ScanBoundsAssumption
<1>3. ASSUME NEW x \in Found PROVE x \in ScanRow /\ FromScan(x)
  BY ShapesAssumption DEF ScanRow, FromScan, Sources
<1> HIDE DEF Found
<1>4. scan \in Seq(ScanRow) /\ Len(scan) = m
  BY <1>1, <1>2, <1>3
<1> QED
  BY <1>1, <1>3, <1>4

LEMMA MergedIsTyped ==
    ASSUME NEW table \in Seq(ScanRow), NEW scan \in Seq(ScanRow)
    PROVE  MergePairs(table, scan) \in Seq(ScanRow)
<1>1. table \o scan \in Seq(ScanRow) /\ Len(table \o scan) \in Nat
  OBVIOUS
<1>2. PICK f : Builds(f, table \o scan) /\ MergePairs(table, scan) = f[Len(table \o scan)]
  BY MergesAre
<1>3. Len(table \o scan) \in 0..Len(table \o scan)
  BY <1>1
<1>4. IsTable(f[Len(table \o scan)])
  BY <1>1, <1>2, <1>3, BuiltIsTyped
<1> QED
  BY <1>2, <1>4 DEF IsTable

LEMMA MergeCovers ==
    ASSUME NEW table \in Seq(ScanRow), NEW scan \in Seq(ScanRow),
           NEW i \in 1..Len(table \o scan), IsNamed((table \o scan)[i].shape)
    PROVE  Covers(MergePairs(table, scan), (table \o scan)[i].shape)
<1>1. table \o scan \in Seq(ScanRow)
  OBVIOUS
<1>2. PICK f : Builds(f, table \o scan) /\ MergePairs(table, scan) = f[Len(table \o scan)]
  BY MergesAre
<1>3. CoversFirst(f[Len(table \o scan)], table \o scan, Len(table \o scan))
  BY <1>1, <1>2, BuiltCovers
<1> QED
  BY <1>2, <1>3 DEF CoversFirst

(* Whatever rows a merge is made of, no explicit path of theirs gets lost. *)
LEMMA PathsSurvive ==
    ASSUME pairs \in Seq(ScanRow)
    PROVE  ExplicitPathsSurvive
<1> SUFFICES ASSUME NEW scan \in Scans, NEW i \in DOMAIN (pairs \o scan),
                    IsNamed((pairs \o scan)[i].shape)
             PROVE  Covers(MergePairs(pairs, scan), (pairs \o scan)[i].shape)
  BY DEF ExplicitPathsSurvive, IsNamed
<1>1. scan \in Seq(ScanRow)
  BY ScansAre
<1>2. DOMAIN (pairs \o scan) = 1..Len(pairs \o scan)
  BY <1>1
<1> QED
  BY <1>1, <1>2, MergeCovers

LEMMA UsersRowSurvives ==
    ASSUME NEW table \in Seq(ScanRow), NEW scan \in Scans, NEW u, UserRowAt(table, u)
    PROVE  HasRow(MergePairs(table, scan), table[u])
<1> DEFINE all == table \o scan
<1>1. scan \in Seq(ScanRow) /\ \A i \in 1..Len(scan) : FromScan(scan[i])
  BY ScansAre
<1>2. /\ all \in Seq(ScanRow) /\ Len(all) = Len(table) + Len(scan)
      /\ Len(table) \in Nat /\ Len(scan) \in Nat
      /\ \A i \in 1..Len(table) : all[i] = table[i]
      /\ \A i \in (Len(table) + 1)..Len(all) : all[i] = scan[i - Len(table)]
  BY <1>1
<1>3. PICK f : Builds(f, all) /\ MergePairs(table, scan) = f[Len(all)]
  BY <1>1, MergesAre
<1> HIDE DEF all
<1>4. u \in 1..Len(table) /\ FilledByUser(table[u])
      /\ \A i \in 1..Len(table) : i # u => NoRival(table[i], table[u])
  BY DEF UserRowAt
<1>5. ASSUME NEW i \in 1..Len(all), i # u PROVE NoRival(all[i], table[u])
  <2>1. CASE i \in 1..Len(table)
    BY <1>2, <1>4, <1>5, <2>1
  <2>2. CASE i \notin 1..Len(table)
    <3>1. i - Len(table) \in 1..Len(scan) /\ i \in (Len(table) + 1)..Len(all)
      BY <1>2, <2>2
    <3> QED
      BY <1>1, <1>2, <3>1 DEF FromScan, NoRival
  <2> QED
    BY <2>1, <2>2
<1>6. u \in 1..Len(all) /\ all[u] = table[u]
  BY <1>2, <1>4
<1>7. UserRowAt(all, u)
  BY <1>4, <1>5, <1>6 DEF UserRowAt
<1>8. KeepsUser(f[Len(all)], all, u, Len(all))
  BY <1>2, <1>3, <1>7, BuiltKeepsUser
<1>9. HasRow(f[Len(all)], all[u])
  <2>1. ~(Len(all) < u)
    BY <1>2, <1>6
  <2> QED
    BY <1>8, <2>1 DEF KeepsUser
<1> QED
  BY <1>3, <1>6, <1>9

LEMMA UserRowsStay ==
    ASSUME pairs \in Seq(ScanRow)
    PROVE  UserRowsSurvive
<1>1. DOMAIN pairs = 1..Len(pairs)
  OBVIOUS
<1>2. ASSUME NEW scan \in Scans, NEW i \in DOMAIN pairs,
             pairs[i].source = "user" /\ pairs[i].shape.protocol # "",
             pairs[i].shape.port # NoPort,
             \A j \in DOMAIN pairs \ {i} :
                pairs[j].source = "user" => ~SamePath(pairs[j], pairs[i])
      PROVE  \E n \in DOMAIN MergePairs(pairs, scan) : MergePairs(pairs, scan)[n] = pairs[i]
  <2>1. FilledByUser(pairs[i])
    BY <1>2 DEF FilledByUser
  <2>2. UserRowAt(pairs, i)
    BY <1>1, <1>2, <2>1 DEF UserRowAt, NoRival
  <2>3. HasRow(MergePairs(pairs, scan), pairs[i])
    BY <2>2, UsersRowSurvives
  <2>4. MergePairs(pairs, scan) \in Seq(ScanRow)
    BY ScansAre, MergedIsTyped
  <2>5. DOMAIN MergePairs(pairs, scan) = 1..Len(MergePairs(pairs, scan))
    BY <2>4
  <2> QED
    BY <2>3, <2>5 DEF HasRow
<1> QED
  BY <1>2 DEF UserRowsSurvive

LEMMA MergeSettles ==
    ASSUME NEW table \in Seq(ScanRow), NEW scan \in Scans,
           WithoutIcmp(MergePairs(table, scan))
    PROVE  MergePairs(MergePairs(table, scan), scan) = MergePairs(table, scan)
<1> DEFINE all == table \o scan
           merged == MergePairs(table, scan)
<1>1. scan \in Seq(ScanRow) /\ \A i \in 1..Len(scan) : FromScan(scan[i])
  BY ScansAre
<1>2. /\ all \in Seq(ScanRow) /\ Len(all) = Len(table) + Len(scan)
      /\ Len(table) \in Nat /\ Len(scan) \in Nat
      /\ \A i \in 1..Len(scan) : all[Len(table) + i] = scan[i]
  BY <1>1
<1>3. merged \in Seq(ScanRow)
  BY <1>1, MergedIsTyped
<1>4. PICK f : Builds(f, all) /\ merged = f[Len(all)]
  BY <1>1, MergesAre
<1>5. \A i \in 1..Len(all) : IsNamed(all[i].shape) => Covers(merged, all[i].shape)
  BY <1>1, MergeCovers
<1> HIDE DEF all
<1>6. WithoutIcmp(merged)
  OBVIOUS
<1> HIDE DEF merged
<1>7. ASSUME NEW i \in 1..Len(all) PROVE ~Icmp(all[i])
  <2>1. SUFFICES ASSUME Icmp(all[i]) PROVE FALSE
    OBVIOUS
  <2>2. IsNamed(all[i].shape)
    BY <2>1 DEF Icmp, IsNamed
  <2>3. Covers(merged, all[i].shape)
    BY <1>5, <2>2
  <2>4. PICK k \in DOMAIN merged : Icmp(merged[k])
    BY <2>1, <2>3 DEF Covers, Icmp
  <2>5. k \in 1..Len(merged)
    BY <1>3
  <2> QED
    BY <1>6, <2>4, <2>5 DEF WithoutIcmp
<1>8. PlainFirst(merged, all, Len(all))
  BY <1>2, <1>4, <1>7, BuiltIsPlain DEF WithoutIcmp
<1>9. Rescanned(merged, scan)
  <2>1. ASSUME NEW i \in 1..Len(scan)
        PROVE  ~Icmp(scan[i]) /\ FromScan(scan[i]) /\ FindsRow(merged, scan[i])
    <3>1. Len(table) + i \in 1..Len(all) /\ all[Len(table) + i] = scan[i]
      BY <1>2
    <3> QED
      BY <1>1, <1>7, <1>8, <3>1 DEF PlainFirst
  <2> QED
    BY <1>1, <1>3, <1>6, <1>8, <2>1 DEF Rescanned, PlainFirst
<1>10. PICK g : /\ Builds(g, merged \o scan)
                /\ MergePairs(merged, scan) = g[Len(merged \o scan)]
  BY <1>1, <1>3, MergesAre
<1>11. MergePairs(merged, scan) = merged
  BY <1>9, <1>10, BuiltRegains
<1> QED
  BY <1>11 DEF merged

LEMMA RescansAreStable ==
    ASSUME pairs \in Seq(ScanRow)
    PROVE  RescanIsStable
<1>1. ASSUME NEW scan \in Scans,
             ~ \E i \in DOMAIN MergePairs(pairs, scan) :
                  MergePairs(pairs, scan)[i].shape.protocol = "icmp"
      PROVE  MergePairs(MergePairs(pairs, scan), scan) = MergePairs(pairs, scan)
  <2>1. MergePairs(pairs, scan) \in Seq(ScanRow)
    BY ScansAre, MergedIsTyped
  <2>2. DOMAIN MergePairs(pairs, scan) = 1..Len(MergePairs(pairs, scan))
    BY <2>1
  <2>3. WithoutIcmp(MergePairs(pairs, scan))
    BY <1>1, <2>2 DEF WithoutIcmp, Icmp
  <2> QED
    BY <2>3, MergeSettles
<1> QED
  BY <1>1 DEF RescanIsStable

LEMMA ScanStep ==
    ASSUME ScanTypeOK, [ScanNext]_scanVars
    PROVE  ScanTypeOK'
<1> USE DEF ScanTypeOK
<1>1. pairs \in Seq(ScanRow)
  BY DEF ScanRow
<1> DEFINE Rest == /\ infra \in [Servers -> Sources \cup {"none"}]
                   /\ segment \in [source : Sources \cup {"none"}, role : {"unknown", "ot"},
                                   evidence : BOOLEAN]
                   /\ trusted \subseteq Servers
                   /\ segment.source = "none" => segment = NoSegment
<1>2. Rest
  OBVIOUS
<1>3. SUFFICES (pairs \in Seq(ScanRow))' /\ Rest'
  BY DEF ScanRow
<1>4. ASSUME NEW scan \in Scans, NEW found \in SUBSET Servers, NEW ot \in BOOLEAN,
             AnalyzeScan(scan, found, ot)
      PROVE  (pairs \in Seq(ScanRow))' /\ Rest'
  <2>1. (pairs \in Seq(ScanRow))'
    BY <1>1, <1>4, ScansAre, MergedIsTyped DEF AnalyzeScan
  <2>2. infra' \in [Servers -> Sources \cup {"none"}]
    BY <1>4 DEF AnalyzeScan, MergeInfrastructure, Sources
  <2>3. trusted' \subseteq Servers
    BY <1>4 DEF AnalyzeScan, CompileTrusted
  <2>4. /\ segment' \in [source : Sources \cup {"none"}, role : {"unknown", "ot"},
                         evidence : BOOLEAN]
        /\ segment'.source # "none"
    BY <1>4 DEF AnalyzeScan, MergeSegment, Sources
  <2> QED
    BY <2>1, <2>2, <2>3, <2>4
<1>5. ASSUME NEW i \in DOMAIN pairs, RemovePair(i)
      PROVE  (pairs \in Seq(ScanRow))' /\ Rest'
  <2>1. SubSeq(pairs, 1, i - 1) \o SubSeq(pairs, i + 1, Len(pairs)) \in Seq(ScanRow)
    BY <1>1
  <2> QED
    BY <1>5, <2>1 DEF RemovePair, RemoveAt
<1>6. ASSUME NEW i \in DOMAIN pairs, NEW shape \in Shapes, MarkUser(i, shape)
      PROVE  (pairs \in Seq(ScanRow))' /\ Rest'
  <2>1. [shape |-> shape, source |-> "user"] \in ScanRow
    BY ShapesAssumption DEF ScanRow, Sources
  <2> QED
    BY <1>1, <1>6, <2>1 DEF MarkUser
<1>7. ASSUME NEW line \in PairRow, AddPair(line)
      PROVE  (pairs \in Seq(ScanRow))' /\ Rest'
  <2>1. line \in ScanRow
    BY ShapesAssumption DEF ScanRow, PairRow
  <2> QED
    BY <1>1, <1>7, <2>1 DEF AddPair
<1>8. ASSUME NEW s \in Servers, NEW source \in Sources \cup {"none"}, EditServer(s, source)
      PROVE  (pairs \in Seq(ScanRow))' /\ Rest'
  BY <1>1, <1>8 DEF EditServer
<1>9. ASSUME NEW role \in {"unknown", "ot"}, EditSegment(role)
      PROVE  (pairs \in Seq(ScanRow))' /\ Rest'
  BY <1>1, <1>9 DEF EditSegment, Sources
<1>10. CASE UNCHANGED scanVars
  BY <1>1, <1>10 DEF scanVars
<1> QED
  BY <1>4, <1>5, <1>6, <1>7, <1>8, <1>9, <1>10 DEF ScanNext

LEMMA ScanInitially == ScanInit => ScanTypeOK
  BY DEF ScanInit, ScanTypeOK, NoSegment, Sources

LEMMA ScanTyped == ScanTypeOK => ScanInv
<1> SUFFICES ASSUME ScanTypeOK PROVE ScanInv
  OBVIOUS
<1>1. pairs \in Seq(ScanRow)
  BY DEF ScanTypeOK, ScanRow
<1> QED
  BY <1>1, PathsSurvive, UserRowsStay, RescansAreStable DEF ScanInv

(* Whatever is scanned, merged, edited and scanned again, no explicit path *)
(* gets lost, a filled-in row of the user survives unless another row of   *)
(* the user is about the same path, and the same capture changes nothing   *)
(* the second time, but for ICMP (zeekScanner.ts).                         *)
THEOREM ScanInvariant == ScanSpec => []ScanInv
<1>1. ScanSpec => []ScanTypeOK
  BY ScanInitially, ScanStep, PTL DEF ScanSpec
<1> QED
  BY <1>1, ScanTyped, PTL

(* The segments of a profile beside the scans that are merged into it.     *)

SegmentTyped ==
    segment \in [source : Sources \cup {"none"}, role : {"unknown", "ot"}, evidence : BOOLEAN]

LEMMA SegmentStep ==
    ASSUME SegmentTyped, [ScanNext]_scanVars
    PROVE  /\ SegmentTyped'
           /\ segment.source = "user" /\ segment'.role # segment.role
                => UNCHANGED <<pairs, infra, trusted>>
<1>1. ASSUME NEW scan \in Scans, NEW found \in SUBSET Servers, NEW ot \in BOOLEAN,
             AnalyzeScan(scan, found, ot)
      PROVE  SegmentTyped' /\ (segment.source = "user" => segment'.role = segment.role)
  BY <1>1 DEF AnalyzeScan, MergeSegment, SegmentTyped, Sources
<1>2. ASSUME NEW role \in {"unknown", "ot"}, EditSegment(role)
      PROVE  SegmentTyped' /\ UNCHANGED <<pairs, infra, trusted>>
  BY <1>2 DEF EditSegment, SegmentTyped, Sources
<1>3. ASSUME segment' = segment
      PROVE  SegmentTyped' /\ segment'.role = segment.role
  BY <1>3 DEF SegmentTyped
<1> QED
  BY <1>1, <1>2, <1>3
  DEF ScanNext, RemovePair, MarkUser, AddPair, EditServer, scanVars

(* What the user said of a segment outlasts every scan, whatever is merged *)
(* (mergeSegments). *)
THEOREM UserSaysRole == ScanSpec => UserRoleStays
<1>1. ScanInit => SegmentTyped
  BY DEF ScanInit, NoSegment, SegmentTyped
<1>2. SegmentTyped /\ [ScanNext]_scanVars
        => SegmentTyped' /\ [segment.source = "user" /\ segment'.role # segment.role
                               => UNCHANGED <<pairs, infra, trusted>>]_scanVars
  BY SegmentStep
<1> QED
  BY <1>1, <1>2, PTL DEF ScanSpec, UserRoleStays

-----------------------------------------------------------------------------
(* The parts of the pages side by side, as they are checked together: a    *)
(* step of one leaves the others alone, so that each keeps what is proved  *)
(* of it.                                                                  *)

LEMMA WorkOfReport ==
    ASSUME ReportInv, [WorkNext]_workVars
    PROVE  ReportInv'
<1>1. CASE part = "view" /\ ReportViewNext /\ RestOf("view")
  BY <1>1, ViewStep DEF RestOf, ReportInv, In
<1>2. CASE part = "drill" /\ DrillNext /\ RestOf("drill")
  BY <1>2, DrillStep DEF RestOf, ReportInv, In
<1>3. CASE part = "files" /\ FilesNext /\ RestOf("files")
  BY <1>3, FilesStep, NextPartsOfFilesInv
  DEF RestOf, ReportInv, In, FilesParts, FilesInv
<1>4. ASSUME part' = part, part \notin {"view", "drill", "files"}
      PROVE  ReportInv'
  BY <1>4 DEF ReportInv, In
<1>5. CASE UNCHANGED workVars
  BY <1>5, ViewStep, DrillStep, FilesStep, NextPartsOfFilesInv
  DEF workVars, ReportInv, In, FilesParts, FilesInv
<1> QED
  BY <1>1, <1>2, <1>3, <1>4, <1>5 DEF WorkNext, RestOf

(* A report on screen keeps what is proved of its view, of the rows behind *)
(* its rows and of its files, beside all other parts of the pages.         *)
THEOREM ReportInvariant == WorkSpec => []ReportInv
<1>1. WorkInit => ReportInv
  BY ViewInitially, DrillInitially, FilesInitially, PartsOfFilesInv
  DEF WorkInit, ReportInv, In
<1> QED
  BY <1>1, WorkOfReport, PTL DEF WorkSpec

(* The two lists of what a context lacks agree beside all other parts.     *)
THEOREM ReadinessInvariant == WorkSpec => []ReadinessAgrees
<1> DEFINE Typed == kinds \subseteq DOMAIN Shows
<1>1. WorkInit => Typed
  BY DEF WorkInit, ReadyInit
<1>2. Typed /\ [WorkNext]_workVars => Typed'
  <2> SUFFICES ASSUME Typed, [WorkNext]_workVars PROVE Typed'
    OBVIOUS
  <2>1. [ReadyNext]_kinds
    BY DEF WorkNext, RestOf, workVars
  <2> QED
    BY <2>1, KindsAreKnown
<1>3. Typed => ReadinessAgrees
  BY ListsMatch DEF ReadinessAgrees, In
<1> QED
  BY <1>1, <1>2, <1>3, PTL DEF WorkSpec

(* The steps of a part, seen alone, are its own: what is proved of its     *)
(* specification holds of it beside the others.                            *)
LEMMA PartsOfWork ==
    WorkSpec => /\ ClientSpec /\ LibSpec /\ ComparisonSpec /\ NotesSpec /\ PivotsSpec
                /\ SavedSearchesSpec /\ TopologyLayoutSpec /\ TopologyStateSpec /\ SyncSpec
                /\ EditorSpec /\ ScanSpec /\ ProfilesSpec /\ TopologyQuerySpec
                /\ TopologyClustersSpec /\ CsvSpec
<1>1. WorkInit => /\ ClientInit /\ LibInit /\ ComparisonInit /\ NotesInit /\ PivotsInit
                  /\ SavedSearchesInit /\ TopologyLayoutInit /\ TopologyStateInit /\ SyncInit
                  /\ EditorInit /\ ScanInit /\ ProfilesInit /\ TopologyQueryInit
                  /\ TopologyClustersInit /\ CsvInit
  BY DEF WorkInit
<1>2. [WorkNext]_workVars =>
        /\ [ClientNext]_clientVars /\ [LibNext]_libVars /\ [ComparisonNext]_compVars
        /\ [NotesNext]_notesVars /\ [PivotsNext]_pivotVars
        /\ [SavedSearchesNext]_savedSearchVars /\ [TopologyLayoutNext]_layoutVars
        /\ [TopologyStateNext]_stateVars /\ [SyncNext]_syncVars /\ [EditorNext]_editVars
        /\ [ScanNext]_scanVars /\ [ProfilesNext]_profVars
        /\ [TopologyQueryNext]_topologyQueryVars /\ [TopologyClustersNext]_clusterVars
        /\ [CsvNext]_csvVars
  BY DEF WorkNext, RestOf, workVars
<1> QED
  BY <1>1, <1>2, PTL
  DEF WorkSpec, ClientSpec, LibSpec, ComparisonSpec, NotesSpec, PivotsSpec, SavedSearchesSpec,
      TopologyLayoutSpec, TopologyStateSpec, SyncSpec, EditorSpec, ScanSpec, ProfilesSpec,
      TopologyQuerySpec, TopologyClustersSpec, CsvSpec

(* The parts of the map of a report, with the questions asked beside it.   *)
THEOREM TopologyInvariant == WorkSpec => []TopologyInv
<1>1. QueryInv /\ SearchesInv /\ LayoutInv /\ ClustersInv /\ ViewsInv => TopologyInv
  BY DEF TopologyInv, In
<1> QED
  BY <1>1, PartsOfWork, QueryInvariant, SearchesInvariant, LayoutInvariant, ClustersInvariant,
     ViewsInvariant, PTL

(* The rows of a profile keep what a scan may not take, beside all parts.  *)
THEOREM ScansKeepRows == WorkSpec => []ScanKeepsRows
<1>1. ScanInv => ScanKeepsRows
  BY DEF ScanKeepsRows, In
<1> QED
  BY <1>1, PartsOfWork, ScanInvariant, PTL

(* What each of these parts of the pages promises by itself it keeps       *)
(* beside all others, for every value of the constants.                    *)
THEOREM WorkInvariant ==
    WorkSpec => [](/\ SessionInv /\ LibraryInv /\ ComparisonInv /\ ReportInv /\ NotesInv
                   /\ PivotsInv /\ TopologyInv /\ SyncInv /\ EditorInv /\ ScanKeepsRows
                   /\ ProfilesInv /\ ReadinessAgrees /\ CsvInv)
<1> QED
  BY PartsOfWork, SessionInvariantOfTab, LibraryInvariant, ComparisonInvariant, ReportInvariant,
     NotesInvariant, PivotsInvariant, TopologyInvariant, SyncInvariant, EditorInvariant,
     ScansKeepRows, ProfilesInvariant, ReadinessInvariant, CsvInvariant, PTL

(* No step of any page closes unsaved rows away, leaves a change that was  *)
(* saved untold (but for the account's copy as it was shown), overrules    *)
(* what the user said of a segment, drops a profile, moves a device that   *)
(* was placed, parts the address from the pivots, or ends a session whose  *)
(* token may still be good, unless a mistyped password was refused.        *)
THEOREM WorkIsKept == WorkSpec => StepsKeepWork
<1> QED
  BY PartsOfWork, ClosingIsSafe, UserSaysRole, ProfilesStay, MovedDevicesStay, PivotsAreShared,
     ExpiryIsTrue, PTL DEF StepsKeepWork

==============================================================================
