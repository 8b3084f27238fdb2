------------------------------- MODULE Sessions -------------------------------
(***************************************************************************)
(* The sessions of one account: access tokens that carry the version of    *)
(* the account they were issued for (backend/auth/security.py), the        *)
(* account's row (backend/auth/database.py) and the requests that issue,   *)
(* renew and revoke (backend/auth/service.py, http_reference_server.py).   *)
(* A request reads the row in one database command and acts in another;    *)
(* requests interleave in between.                                         *)
(*                                                                         *)
(* A role change does not touch the session version and is left out; so is *)
(* the condition that a renewal needs a processing job: it only disables.  *)
(* The administrator acts from another account.                            *)
(***************************************************************************)
EXTENDS Integers, FiniteSets

CONSTANTS SessionThreads, \* request threads
          Life,       \* jwt_expire_minutes, in ticks
          Window,     \* how long a login may be renewed (8 hours), in ticks
          MaxTokens,  \* bound of the model: tokens issued
          SessionMaxTime, \* bound of the model: the clock stops here
          NoToken     \* a request that signs no token

Token == [id : 1..MaxTokens, sv : Int, exp : Int, deadline : Int,
          login : Int, epoch : Nat]

ASSUME LifeAssumption == Life \in Nat \ {0}
ASSUME WindowAssumption == Window \in Nat
ASSUME SessionBounds == MaxTokens \in Nat /\ SessionMaxTime \in Nat

(* What a request has read when it signs a token. *)
Reading == [sv : Int, deadline : Int, login : Int, epoch : Nat]

ASSUME NoTokenAssumption == NoToken \notin Reading

VARIABLES
    sessionNow,
    version,   \* session_version of the row
    disabled,  \* disabled of the row
    tokens,    \* tokens issued; clients may keep and present any of them
    epoch,     \* history: revocations so far
    sessionPc, \* where a request is
    got,       \* the token a request will issue, or NoToken
    lost,      \* history: disabling wrote over another revocation
    read       \* the version the administrator's request has read

row == <<version, disabled>>
sessionLocal == <<sessionPc, got, read>>
history == <<epoch, lost>>
sessionsVars == <<sessionNow, row, tokens, history, sessionLocal>>

SessionsTypeOK ==
    /\ sessionNow \in 0..SessionMaxTime
    /\ version \in Nat
    /\ disabled \in BOOLEAN
    /\ tokens \in SUBSET Token
    /\ epoch \in Nat
    /\ lost \in BOOLEAN
    /\ sessionPc \in [SessionThreads -> {"idle", "issue", "logout", "password",
                                        "change", "disable"}]
    /\ got \in [SessionThreads -> Reading \cup {NoToken}]
    /\ read \in [SessionThreads -> Nat]

SessionsInit ==
    /\ sessionNow = 0
    /\ version = 0
    /\ disabled = FALSE
    /\ tokens = {}
    /\ epoch = 0
    /\ lost = FALSE
    /\ sessionPc = [c \in SessionThreads |-> "idle"]
    /\ got = [c \in SessionThreads |-> NoToken]
    /\ read = [c \in SessionThreads |-> 0]

-----------------------------------------------------------------------------
SessionGoto(c, from, to) ==
    sessionPc[c] = from /\ sessionPc' = [sessionPc EXCEPT ![c] = to]

(* current_principal: the token has not expired, the account is enabled,   *)
(* and the versions agree.                                                 *)
Accepted(t) == ~disabled /\ sessionNow < t.exp /\ t.sv = version

(* login: the row is read and the password verified ...                    *)
ReadLogin(c) ==
    /\ ~disabled
    /\ SessionGoto(c, "idle", "issue")
    /\ got' = [got EXCEPT ![c] = [sv |-> version, deadline |-> sessionNow + Window,
                                  login |-> sessionNow, epoch |-> epoch]]
    /\ UNCHANGED <<sessionNow, row, tokens, history, read>>

(* Fault: a renewal starts a new renewal window. *)
ReadRenewalAfresh(c, t) ==
    /\ Accepted(t)
    /\ sessionNow < t.deadline
    /\ SessionGoto(c, "idle", "issue")
    /\ got' = [got EXCEPT ![c] = [sv |-> version, deadline |-> sessionNow + Window,
                                  login |-> t.login, epoch |-> t.epoch]]
    /\ UNCHANGED <<sessionNow, row, tokens, history, read>>

(* ... or the token to renew is checked, and its deadline kept ...         *)
ReadRenewal(c, t) ==
    /\ Accepted(t)
    /\ sessionNow < t.deadline
    /\ SessionGoto(c, "idle", "issue")
    /\ got' = [got EXCEPT ![c] = [sv |-> version, deadline |-> t.deadline,
                                  login |-> t.login, epoch |-> t.epoch]]
    /\ UNCHANGED <<sessionNow, row, tokens, history, read>>

(* Fault: the token carries the version of the moment it is signed. *)
IssueCurrent(c) ==
    /\ Cardinality(tokens) < MaxTokens
    /\ SessionGoto(c, "issue", "idle")
    /\ tokens' = tokens \cup
         {[id |-> Cardinality(tokens) + 1, sv |-> version, exp |-> sessionNow + Life,
           deadline |-> got[c].deadline, login |-> got[c].login,
           epoch |-> got[c].epoch]}
    /\ got' = [got EXCEPT ![c] = NoToken]
    /\ UNCHANGED <<sessionNow, row, history, read>>

(* ... and a token is signed for what was read.                            *)
Issue(c) ==
    /\ Cardinality(tokens) < MaxTokens
    /\ SessionGoto(c, "issue", "idle")
    /\ tokens' = tokens \cup
         {[id |-> Cardinality(tokens) + 1, sv |-> got[c].sv, exp |-> sessionNow + Life,
           deadline |-> got[c].deadline, login |-> got[c].login,
           epoch |-> got[c].epoch]}
    /\ got' = [got EXCEPT ![c] = NoToken]
    /\ UNCHANGED <<sessionNow, row, history, read>>

-----------------------------------------------------------------------------
(* A revocation has reached the row. *)
Revoked == epoch' = epoch + 1 /\ UNCHANGED lost

Check(c, t, to) ==
    /\ Accepted(t)
    /\ SessionGoto(c, "idle", to)
    /\ UNCHANGED <<sessionNow, row, tokens, history, got, read>>

(* Fault: the counter goes down. *)
LogoutBackwards(c) ==
    /\ SessionGoto(c, "logout", "idle")
    /\ version' = version - 1
    /\ Revoked
    /\ UNCHANGED <<sessionNow, disabled, tokens, got, read>>

(* revoke_sessions: $inc, in one command.                                  *)
Logout(c) ==
    /\ SessionGoto(c, "logout", "idle")
    /\ version' = version + 1
    /\ Revoked
    /\ UNCHANGED <<sessionNow, disabled, tokens, got, read>>

(* change_password: the row is read and the current password verified, ... *)
VerifyPassword(c) ==
    /\ SessionGoto(c, "password", IF disabled THEN "idle" ELSE "change")
    /\ UNCHANGED <<sessionNow, row, tokens, history, got, read>>

(* ... and the new hash and $inc go to the row together.                   *)
ChangePassword(c) ==
    /\ SessionGoto(c, "change", "idle")
    /\ version' = version + 1
    /\ Revoked
    /\ UNCHANGED <<sessionNow, disabled, tokens, got, read>>

(* update_user: the version is read, ...                                   *)
ReadVersion(c) ==
    /\ SessionGoto(c, "idle", "disable")
    /\ read' = [read EXCEPT ![c] = version]
    /\ UNCHANGED <<sessionNow, row, tokens, history, got>>

(* ... and one more than what was read is written.                         *)
Disable(c) ==
    /\ SessionGoto(c, "disable", "idle")
    /\ disabled' = TRUE
    /\ version' = read[c] + 1
    /\ epoch' = epoch + 1
    /\ lost' = (lost \/ version # read[c])
    /\ read' = [read EXCEPT ![c] = 0]
    /\ UNCHANGED <<sessionNow, tokens, got>>

Enable ==
    /\ disabled
    /\ disabled' = FALSE
    /\ UNCHANGED <<sessionNow, version, tokens, history, sessionLocal>>

(* A tick is long against a request: time passes between requests. *)
SessionTick ==
    /\ sessionNow < SessionMaxTime
    /\ \A c \in SessionThreads : sessionPc[c] = "idle"
    /\ sessionNow' = sessionNow + 1
    /\ UNCHANGED <<row, tokens, history, sessionLocal>>

(* Bound of the model. *)
MaxEpoch == 3

SessionsNext ==
    \/ \E c \in SessionThreads :
          \/ ReadLogin(c)
          \/ Issue(c)
          \/ \E t \in tokens :
                \/ ReadRenewal(c, t)
                \/ (epoch < MaxEpoch /\ Check(c, t, "logout"))
                \/ (epoch < MaxEpoch /\ Check(c, t, "password"))
          \/ Logout(c)
          \/ VerifyPassword(c)
          \/ ChangePassword(c)
          \/ (epoch < MaxEpoch /\ ReadVersion(c))
          \/ Disable(c)
    \/ Enable
    \/ SessionTick

SessionsSpec == SessionsInit /\ [][SessionsNext]_sessionsVars

-----------------------------------------------------------------------------
(* A token is accepted only if no session of the account was revoked since *)
(* the login it goes back to, however often it was renewed and whatever    *)
(* requests were under way at the revocation: unless an administrator's    *)
(* write of the version met another revocation after its read.             *)
RevocationIsFinal == lost \/ \A t \in tokens : Accepted(t) => t.epoch = epoch

(* A login ends: renewals carry no session past the window and the life of *)
(* one token.                                                              *)
LoginEnds == \A t \in tokens : Accepted(t) => sessionNow < t.login + Window + Life

(* The parts of the inductive invariant that are not properties of their   *)
(* own. No version was issued that is still to come, and the tokens of the *)
(* current version belong to the current epoch; so it is with what is read *)
(* for a token to be signed.                                               *)
Current(x) == /\ x.sv <= version
              /\ x.sv = version => x.epoch = epoch

NothingAhead ==
    lost \/ /\ \A t \in tokens : Current(t)
            /\ \A c \in SessionThreads : got[c] # NoToken => Current(got[c])

(* A request signs what it has read, within the window of its login, and   *)
(* no time passes until then.                                              *)
InWindow ==
    /\ \A t \in tokens : /\ t.deadline = t.login + Window
                          /\ t.exp <= t.deadline + Life
    /\ \A c \in SessionThreads :
          /\ sessionPc[c] = "issue" <=> got[c] # NoToken
          /\ got[c] # NoToken => /\ got[c].deadline = got[c].login + Window
                                 /\ sessionNow <= got[c].deadline

SessionsInv == SessionsTypeOK /\ IsFiniteSet(tokens) /\ NothingAhead /\ InWindow
=============================================================================
