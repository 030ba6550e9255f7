----------------------------- MODULE DashboardAuth -----------------------------
(***************************************************************************)
(* The account of one dashboard user: internal/app/auth/service.go, behind *)
(* the middlewares DashboardAuth and DashboardAccess.                      *)
(*                                                                         *)
(* Everything is in Postgres: the user's row (password, TOTP secret), her  *)
(* sessions, her password-reset tokens and her recovery codes.  A handler  *)
(* is a few statements, most of them outside of a transaction: what it     *)
(* read may be stale when it writes.  A transaction of several statements  *)
(* has two steps here: the one that fixes the rows its statements act on   *)
(* (and locks them), and the COMMIT that makes the writes visible.         *)
(*                                                                         *)
(* Left out: wrong passwords, codes and tokens nobody has been given (they *)
(* are refused and change nothing), the contents of profiles, one batch of *)
(* eight recovery codes is one code, and of the two reads of a session (by *)
(* the middleware, then by the service) the second, where there is one.    *)
(***************************************************************************)
EXTENDS Naturals

CONSTANTS
    Handler,        \* requests handled at a time
    Session,        \* rows of user_sessions
    ResetToken,     \* rows of password_reset_tokens
    Secret,         \* TOTP secrets
    Code,           \* recovery codes
    None,
    Production,     \* APP_ENV = production
    Workloads,      \* sets of calls, of which one is what the clients do
    MaxPassword,    \* bound: passwords of the user
    MaxRefresh      \* bound: the last refresh token of a session that is exchanged

Call == {"register", "login", "refresh", "logout", "change", "forgot", "reset",
         "setup", "verify", "recover", "disable", "regenerate", "expire"}

ASSUME BoundAssumption == MaxPassword \in Nat /\ MaxRefresh \in Nat
ASSUME WorkloadAssumption == Workloads \subseteq SUBSET Call /\ Production \in BOOLEAN
ASSUME RowAssumption ==
    /\ Session \intersect ResetToken = {} /\ Session \intersect Code = {}
    /\ ResetToken \intersect Code = {}
    /\ None \notin Session \union ResetToken \union Secret \union Code

VARIABLES
    calls,      \* what the clients do
    password,   \* version of the user's password, 0 before she has registered
    secret,     \* her TOTP secret, None while MFA is not enabled
    codes,      \* her recovery codes that are not used
    state,      \* [Session -> "none", "live" or "revoked"]
    refresh,    \* [Session -> its refresh token: the jti of the row]
    verified,   \* sessions whose mfa_verified_at is set
    pending,    \* [Session -> its pending secret, or None]
    token,      \* [ResetToken -> "none", "unused" or "used"]
    expired,    \* sessions and reset tokens whose expires_at has passed
    pc,         \* where a handler is
    session,    \* the session it works for
    key,        \* the reset token or recovery code it was given
    goal,       \* what it does once the recovery code is accepted
    seen,       \* what it has read of its session
    rows,       \* the rows its open transaction has written or deleted
    made,       \* secrets and codes that exist or did (history)
    proven,     \* sessions that have presented a valid code, and MFA was not disabled
                \* since: see Outdated (history)
    confirmed,  \* secrets for which a valid code has been presented (history)
    spent,      \* recovery codes that have been accepted (history)
    owed,       \* sessions to keep verified: verified, and not cleared since (history)
    raced,      \* refreshes during which their session was verified (history)
    before,     \* sessions that were there when a reset or a disabling began (history)
    ended,      \* sessions there were when a reset that is done began (history)
    replaced,   \* refresh tokens that have been exchanged (history)
    replayed    \* refreshes begun with an exchanged token (history)

userVars    == <<password, secret, codes>>
mfaVars     == <<verified, pending>>
sessionVars == <<state, refresh>>
handlerVars == <<pc, session, key, goal, seen, rows>>
mfaHistory     == <<made, proven, confirmed, spent, owed, raced>>
sessionHistory == <<before, ended, replaced, replayed>>
vars == <<calls, userVars, mfaVars, sessionVars, token, expired, handlerVars,
          mfaHistory, sessionHistory>>

Phase == {"idle", "issue", "rotate", "logout", "hash", "change", "supersede", "reset",
          "resetting", "prepare", "consume", "mark", "disable", "disabling",
          "regenerate", "regenerating", "enable", "enabling"}
Row  == Session \union ResetToken \union Code
Seen == [verified: BOOLEAN, pending: Secret \union {None}]
Unseen == [verified |-> FALSE, pending |-> None]

HandlerTypeOK ==
    /\ pc      \in [Handler -> Phase]
    /\ session \in [Handler -> Session \union {None}]
    /\ key     \in [Handler -> ResetToken \union Code \union {None}]
    /\ goal    \in [Handler -> {"mark", "disable", "regenerate", "none"}]
    /\ seen    \in [Handler -> Seen]
    /\ rows    \in [Handler -> SUBSET Row]

\* The type of every variable.
TypeOK ==
    /\ calls     \in Workloads
    /\ password  \in 0..MaxPassword
    /\ secret    \in Secret \union {None}
    /\ codes     \subseteq Code
    /\ state     \in [Session -> {"none", "live", "revoked"}]
    /\ refresh   \in [Session -> Nat]
    /\ verified  \subseteq Session
    /\ pending   \in [Session -> Secret \union {None}]
    /\ token     \in [ResetToken -> {"none", "unused", "used"}]
    /\ expired   \subseteq Session \union ResetToken
    /\ HandlerTypeOK
    /\ made      \subseteq Secret \union Code
    /\ proven    \subseteq Session
    /\ confirmed \subseteq Secret
    /\ spent     \subseteq Code
    /\ owed      \subseteq Session
    /\ raced     \subseteq Handler
    /\ before    \in [Handler -> SUBSET Session]
    /\ ended     \subseteq Session
    /\ replaced  \subseteq Session \X Nat
    /\ replayed  \subseteq Handler

Init ==
    /\ calls \in Workloads
    /\ password = 0 /\ secret = None /\ codes = {}
    /\ state   = [s \in Session |-> "none"]
    /\ refresh = [s \in Session |-> 0]
    /\ verified = {}
    /\ pending = [s \in Session |-> None]
    /\ token   = [t \in ResetToken |-> "none"]
    /\ expired = {}
    /\ pc      = [h \in Handler |-> "idle"]
    /\ session = [h \in Handler |-> None]
    /\ key     = [h \in Handler |-> None]
    /\ goal    = [h \in Handler |-> "none"]
    /\ seen    = [h \in Handler |-> Unseen]
    /\ rows    = [h \in Handler |-> {}]
    /\ before  = [h \in Handler |-> {}]
    /\ made = {} /\ proven = {} /\ confirmed = {} /\ spent = {} /\ owed = {}
    /\ raced = {} /\ ended = {} /\ replaced = {} /\ replayed = {}

--------------------------------------------------------------------------------
(* The steps of a handler, and what its statements wait for.               *)

\* A handler takes a request and goes on to the phase.
Begin(h, s, phase) ==
    /\ pc[h] = "idle"
    /\ pc'      = [pc EXCEPT ![h] = phase]
    /\ session' = [session EXCEPT ![h] = s]
    /\ UNCHANGED <<key, goal, seen, rows>>

Go(h, phase) ==
    /\ pc' = [pc EXCEPT ![h] = phase]
    /\ UNCHANGED <<session, key, goal, seen, rows>>

\* The statements of a transaction have found, locked and written the rows.
Hold(h, phase, found) ==
    /\ pc'   = [pc EXCEPT ![h] = phase]
    /\ rows' = [rows EXCEPT ![h] = found]
    /\ UNCHANGED <<session, key, goal, seen>>

\* The handler is done, with or without an error.
Leave(h) ==
    /\ pc'      = [pc EXCEPT ![h] = "idle"]
    /\ session' = [session EXCEPT ![h] = None]
    /\ key'     = [key EXCEPT ![h] = None]
    /\ goal'    = [goal EXCEPT ![h] = "none"]
    /\ seen'    = [seen EXCEPT ![h] = Unseen]
    /\ rows'    = [rows EXCEPT ![h] = {}]

\* An identifier nobody has: which of them is immaterial.
New(S) == IF S = {} THEN {} ELSE {CHOOSE x \in S : TRUE}

\* No other transaction holds the row of the user, or of the session.
UserFree(h) == \A g \in Handler \ {h} : pc[g] \notin {"resetting", "disabling", "enabling"}
SessionFree(h) == \A g \in Handler \ {h} : session[h] \notin rows[g]

Exists(s)  == state[s] # "none"
MFAEnabled == secret # None

\* What loadSessionRecord's callers and AuthenticateAccessToken ask of a session.
Authentic(s) == state[s] = "live" /\ s \notin expired

\* DashboardAccess lets the session's requests through to the dashboard.
Admitted(s) == Authentic(s) /\ (~Production \/ (MFAEnabled /\ s \in verified))

--------------------------------------------------------------------------------
(* Accounts and sessions.                                                  *)

\* INSERT of the user; the session is another transaction.
Register(h) ==
    /\ "register" \in calls /\ password = 0 /\ MaxPassword > 0
    /\ Begin(h, None, "issue")
    /\ password' = 1
    /\ UNCHANGED <<calls, secret, codes, mfaVars, sessionVars, token, expired,
                   mfaHistory, sessionHistory>>

\* SELECT of the hash, and CheckPassword.
Login(h) ==
    /\ "login" \in calls /\ password > 0
    /\ Begin(h, None, "issue")
    /\ UNCHANGED <<calls, userVars, mfaVars, sessionVars, token, expired,
                   mfaHistory, sessionHistory>>

\* issueSession: a new row, with its first refresh token.
IssueSession(h) ==
    /\ pc[h] = "issue"
    /\ \E s \in New({x \in Session : ~Exists(x)}) :
        /\ state'   = [state EXCEPT ![s] = "live"]
        /\ refresh' = [refresh EXCEPT ![s] = 1]
    /\ Leave(h)
    /\ UNCHANGED <<calls, userVars, mfaVars, token, expired, mfaHistory, sessionHistory>>

\* What Refresh keeps of the session it has read.
ReadSession(h, s, j) ==
    /\ pc[h] = "idle"
    /\ pc'       = [pc EXCEPT ![h] = "rotate"]
    /\ session'  = [session EXCEPT ![h] = s]
    /\ seen'     = [seen EXCEPT ![h] = [verified |-> s \in verified, pending |-> pending[s]]]
    /\ replayed' = replayed \union {g \in {h} : <<s, j>> \in replaced}
    /\ UNCHANGED <<calls, userVars, mfaVars, sessionVars, token, expired, key, goal, rows,
                   mfaHistory, before, ended, replaced>>

\* Refresh with a refresh token the session has had: SELECT and checks, outside of
\* the transaction that follows.
RefreshSession(h, s, j) ==
    /\ "refresh" \in calls /\ j = refresh[s]
    /\ Authentic(s)
    /\ ReadSession(h, s, j)

\* rotateSessionTx, when it writes v as mfa_verified_at: the UPDATE asks nothing of
\* the row.
WriteSession(h, v) ==
    LET s == session[h] IN
    /\ pc[h] = "rotate" /\ SessionFree(h)
    /\ refresh'  = [refresh EXCEPT ![s] = @ + 1]
    /\ verified' = IF v THEN verified \union {s} ELSE verified \ {s}
    /\ pending'  = [pending EXCEPT ![s] = seen[h].pending]
    /\ expired'  = expired \ {s}
    /\ replaced' = replaced \union {<<s, refresh[s]>>}
    /\ owed'     = IF h \in raced THEN owed \ {s} ELSE owed
    /\ raced'    = raced \ {h}
    /\ replayed' = replayed \ {h}
    /\ Leave(h)
    /\ UNCHANGED <<calls, userVars, token, made, proven, confirmed, spent, before, ended>>

RotateSession_Unrevoked(h) ==
    WriteSession(h, seen[h].verified) /\ state' = [state EXCEPT ![session[h]] = "live"]

RotateSession_VerifiedLost(h) == WriteSession(h, FALSE) /\ UNCHANGED state

\* The two MFA columns are written back as Refresh has read them.
RotateSession(h) == WriteSession(h, seen[h].verified) /\ UNCHANGED state

\* DashboardAuth, for the two handlers that rely on the principal alone.
AuthenticateAccessToken(h, s, phase) ==
    /\ \/ phase = "logout" /\ "logout" \in calls
       \/ phase = "hash"   /\ "change" \in calls
    /\ Authentic(s)
    /\ Begin(h, s, phase)
    /\ UNCHANGED <<calls, userVars, mfaVars, sessionVars, token, expired,
                   mfaHistory, sessionHistory>>

\* An UPDATE of the session, unless it is revoked.
Logout(h) ==
    /\ pc[h] = "logout" /\ SessionFree(h)
    /\ state' = [state EXCEPT ![session[h]] = "revoked"]
    /\ Leave(h)
    /\ UNCHANGED <<calls, userVars, mfaVars, refresh, token, expired, mfaHistory, sessionHistory>>

\* ChangePassword: the hash and the check of the current password.
CheckCurrentPassword(h) ==
    /\ pc[h] = "hash"
    /\ Go(h, "change")
    /\ UNCHANGED <<calls, userVars, mfaVars, sessionVars, token, expired,
                   mfaHistory, sessionHistory>>

\* The UPDATE asks for no particular hash, and revokes no session.
ChangePassword(h) ==
    /\ pc[h] = "change" /\ UserFree(h) /\ password < MaxPassword
    /\ password' = password + 1
    /\ Leave(h)
    /\ UNCHANGED <<calls, secret, codes, mfaVars, sessionVars, token, expired,
                   mfaHistory, sessionHistory>>

--------------------------------------------------------------------------------
(* Password reset.                                                         *)

Unused(t) == token[t] = "unused"

\* issuePasswordResetToken marks the tokens it finds as used ...
RequestPasswordReset(h) ==
    /\ "forgot" \in calls /\ password > 0
    /\ pc[h] = "idle"
    /\ Hold(h, "supersede", {t \in ResetToken : Unused(t)})
    /\ UNCHANGED <<calls, userVars, mfaVars, sessionVars, token, expired,
                   mfaHistory, sessionHistory>>

\* ... and inserts a new one.
IssueResetToken(h) ==
    /\ pc[h] = "supersede"
    /\ \E new \in New({t \in ResetToken : token[t] = "none"}) :
        token' = [t \in ResetToken |-> IF t = new THEN "unused"
                                          ELSE IF t \in rows[h] THEN "used" ELSE token[t]]
    /\ Leave(h)
    /\ UNCHANGED <<calls, userVars, mfaVars, sessionVars, expired, mfaHistory, sessionHistory>>

\* The sessions there are when a reset or a disabling begins.
Remember(h) == before' = [before EXCEPT ![h] = {s \in Session : Exists(s)}]

\* What ResetPassword begins with, once the token is found.
BeginReset(h, t) ==
    /\ "reset" \in calls
    /\ pc[h] = "idle"
    /\ pc'     = [pc EXCEPT ![h] = "reset"]
    /\ key'    = [key EXCEPT ![h] = t]
    /\ Remember(h)
    /\ UNCHANGED <<calls, userVars, mfaVars, sessionVars, token, expired, session, goal, seen,
                   rows, mfaHistory, ended, replaced, replayed>>

CheckResetToken_UsedAccepted(h, t) ==
    token[t] # "none" /\ t \notin expired /\ BeginReset(h, t)

\* ResetPassword: SELECT without a lock, and the checks.
CheckResetToken(h, t) == Unused(t) /\ t \notin expired /\ BeginReset(h, t)

UpdateForReset_SessionsKept(h) ==
    /\ pc[h] = "reset" /\ UserFree(h)
    /\ Hold(h, "resetting", {t \in ResetToken : Unused(t)})
    /\ UNCHANGED <<calls, userVars, mfaVars, sessionVars, token, expired,
                   mfaHistory, sessionHistory>>

\* The three UPDATEs: of the user, of every unused token, of every live session.
UpdateForReset(h) ==
    /\ pc[h] = "reset" /\ UserFree(h)
    /\ Hold(h, "resetting", {t \in ResetToken : Unused(t)}
                            \union {s \in Session : state[s] = "live"})
    /\ UNCHANGED <<calls, userVars, mfaVars, sessionVars, token, expired,
                   mfaHistory, sessionHistory>>

\* COMMIT.
ResetPassword(h) ==
    /\ pc[h] = "resetting" /\ password < MaxPassword
    /\ password' = password + 1
    /\ token'    = [t \in ResetToken |-> IF t \in rows[h] THEN "used" ELSE token[t]]
    /\ state'    = [s \in Session |-> IF s \in rows[h] THEN "revoked" ELSE state[s]]
    /\ verified' = verified \ rows[h]
    /\ owed'     = owed \ rows[h]
    /\ ended'    = ended \union before[h]
    /\ before'   = [before EXCEPT ![h] = {}]
    /\ Leave(h)
    /\ UNCHANGED <<calls, secret, codes, pending, refresh, expired, made, proven, confirmed,
                   spent, raced, replaced, replayed>>

--------------------------------------------------------------------------------
(* TOTP and recovery codes.                                                *)

\* beginTOTPSetup: SELECT and checks; RotateTOTP is allowed with MFA enabled.
BeginTOTPSetup(h, s, allowEnabled) ==
    /\ "setup" \in calls /\ Authentic(s)
    /\ MFAEnabled => allowEnabled /\ s \in verified
    /\ Begin(h, s, "prepare")
    /\ UNCHANGED <<calls, userVars, mfaVars, sessionVars, token, expired,
                   mfaHistory, sessionHistory>>

\* The new secret is pending in the session.
StorePendingSecret(h) ==
    /\ pc[h] = "prepare" /\ SessionFree(h)
    /\ \E x \in New(Secret \ made) :
        /\ pending' = [pending EXCEPT ![session[h]] = x]
        /\ made'    = made \union {x}
    /\ Leave(h)
    /\ UNCHANGED <<calls, userVars, verified, sessionVars, token, expired,
                   proven, confirmed, spent, owed, raced, sessionHistory>>

\* validateLiveTOTPOrRecoveryCode: a code of the secret that was read with the
\* session, or a recovery code, which is another statement.
PresentCode(h, s, next) ==
    /\ pc[h] = "idle"
    /\ session' = [session EXCEPT ![h] = s]
    /\ \/ /\ pc'     = [pc EXCEPT ![h] = next]
          /\ proven' = proven \union {s}
          /\ UNCHANGED <<key, goal>>
       \/ \E c \in Code \intersect made :
             /\ "recover" \in calls
             /\ pc'   = [pc EXCEPT ![h] = "consume"]
             /\ key'  = [key EXCEPT ![h] = c]
             /\ goal' = [goal EXCEPT ![h] = next]
             /\ UNCHANGED proven
    /\ UNCHANGED <<calls, userVars, mfaVars, sessionVars, token, expired, seen, rows,
                   made, confirmed, spent, owed, raced, sessionHistory>>

\* VerifyTOTP of a session with a pending secret: a valid code of that secret.
ConfirmPending(h, s) ==
    /\ "verify" \in calls /\ Authentic(s) /\ pending[s] # None
    /\ pc[h] = "idle"
    /\ pc'        = [pc EXCEPT ![h] = "enable"]
    /\ session'   = [session EXCEPT ![h] = s]
    /\ seen'      = [seen EXCEPT ![h] = [verified |-> s \in verified, pending |-> pending[s]]]
    /\ confirmed' = confirmed \union {pending[s]}
    /\ proven'    = proven \union {s}
    /\ UNCHANGED <<calls, userVars, mfaVars, sessionVars, token, expired, key, goal, rows,
                   made, spent, owed, raced, sessionHistory>>

\* VerifyTOTP of a session with none.
VerifyTOTP(h, s) ==
    /\ "verify" \in calls /\ Authentic(s)
    /\ pending[s] = None /\ MFAEnabled
    /\ PresentCode(h, s, "mark")

DisableTOTP(h, s) ==
    "disable" \in calls /\ Authentic(s) /\ MFAEnabled /\ PresentCode(h, s, "disable")

RegenerateRecoveryCodes(h, s) ==
    "regenerate" \in calls /\ Authentic(s) /\ MFAEnabled /\ PresentCode(h, s, "regenerate")

\* An UPDATE of the code if it is unused; what follows is another statement.
ConsumeRecoveryCode(h) ==
    LET c == key[h] IN
    /\ pc[h] = "consume"
    /\ \/ /\ c \in codes
          /\ codes'  = codes \ {c}
          /\ spent'  = spent \union {c}
          /\ proven' = proven \union {session[h]}
          /\ Go(h, goal[h])
       \/ c \notin codes /\ Leave(h) /\ UNCHANGED <<codes, spent, proven>>
    /\ UNCHANGED <<calls, password, secret, mfaVars, sessionVars, token, expired,
                   made, confirmed, owed, raced, sessionHistory>>

\* mfa_verified_at of session s is set.
Verify(s) ==
    /\ verified' = verified \union {s}
    /\ owed'     = owed \union {s}
    /\ raced'    = raced \union {g \in Handler : pc[g] = "rotate" /\ session[g] = s}

\* The codes after a transaction that deleted those it found and inserted new ones.
ReplaceCodes(h) ==
    \E c \in New(Code \ made) :
        /\ codes' = (codes \ rows[h]) \union {c}
        /\ made'  = made \union {c}

MarkVerified_OfKey(h) ==
    /\ pc[h] = "mark" /\ SessionFree(h)
    /\ Verify(key[h])
    /\ Leave(h)
    /\ UNCHANGED <<calls, userVars, pending, sessionVars, token, expired,
                   made, proven, confirmed, spent, sessionHistory>>

\* verifyExistingTOTP.
MarkVerified(h) ==
    /\ pc[h] = "mark" /\ SessionFree(h)
    /\ Verify(session[h])
    /\ Leave(h)
    /\ UNCHANGED <<calls, userVars, pending, sessionVars, token, expired,
                   made, proven, confirmed, spent, sessionHistory>>

\* enablePendingTOTP: the user, the session, and the codes that are deleted.
UpdateForEnable(h) ==
    /\ pc[h] = "enable" /\ UserFree(h) /\ SessionFree(h)
    /\ Hold(h, "enabling", {session[h]} \union codes)
    /\ UNCHANGED <<calls, userVars, mfaVars, sessionVars, token, expired,
                   mfaHistory, sessionHistory>>

EnablePendingTOTP_PendingOfRow(h) ==
    /\ pc[h] = "enabling"
    /\ secret'  = pending[session[h]]
    /\ pending' = [pending EXCEPT ![session[h]] = None]
    /\ Verify(session[h])
    /\ ReplaceCodes(h)
    /\ Leave(h)
    /\ UNCHANGED <<calls, password, sessionVars, token, expired,
                   proven, confirmed, spent, sessionHistory>>

\* COMMIT: the secret is the one whose code was checked, whatever is pending by now.
EnablePendingTOTP(h) ==
    /\ pc[h] = "enabling"
    /\ secret'  = seen[h].pending
    /\ pending' = [pending EXCEPT ![session[h]] = None]
    /\ Verify(session[h])
    /\ ReplaceCodes(h)
    /\ Leave(h)
    /\ UNCHANGED <<calls, password, sessionVars, token, expired,
                   proven, confirmed, spent, sessionHistory>>

UpdateForDisable_OwnSession(h) ==
    /\ pc[h] = "disable" /\ UserFree(h)
    /\ Hold(h, "disabling", {session[h]} \union codes)
    /\ Remember(h)
    /\ UNCHANGED <<calls, userVars, mfaVars, sessionVars, token, expired,
                   mfaHistory, ended, replaced, replayed>>

\* DisableTOTP: the user, every session of hers, and the codes.
UpdateForDisable(h) ==
    /\ pc[h] = "disable" /\ UserFree(h)
    /\ Hold(h, "disabling", {s \in Session : Exists(s)} \union codes)
    /\ Remember(h)
    /\ UNCHANGED <<calls, userVars, mfaVars, sessionVars, token, expired,
                   mfaHistory, ended, replaced, replayed>>

\* A handler that will verify the session for a code presented before.
Carries(g, s) ==
    /\ session[g] = s
    /\ \/ pc[g] = "rotate" /\ seen[g].verified
       \/ pc[g] \in {"mark", "regenerate", "regenerating", "enable", "enabling"}

\* Sessions whose codes count no more once h has disabled MFA: those it found, but for
\* what requests that overlap it carry over.
Outdated(h) == {s \in before[h] : \A g \in Handler \ {h} : ~Carries(g, s)}

CommitDisable(h) ==
    /\ pc[h] = "disabling"
    /\ secret'   = None
    /\ codes'    = codes \ rows[h]
    /\ pending'  = [s \in Session |-> IF s \in rows[h] THEN None ELSE pending[s]]
    /\ verified' = verified \ rows[h]
    /\ owed'     = owed \ rows[h]
    /\ proven'   = proven \ Outdated(h)
    /\ before'   = [before EXCEPT ![h] = {}]
    /\ Leave(h)
    /\ UNCHANGED <<calls, password, sessionVars, token, expired,
                   made, confirmed, spent, raced, ended, replaced, replayed>>

\* replaceRecoveryCodesTx deletes the codes it finds ...
DeleteRecoveryCodes(h) ==
    /\ pc[h] = "regenerate"
    /\ Hold(h, "regenerating", codes)
    /\ UNCHANGED <<calls, userVars, mfaVars, sessionVars, token, expired,
                   mfaHistory, sessionHistory>>

\* ... and inserts new ones; the session is verified in the same transaction.
CommitRecoveryCodes(h) ==
    /\ pc[h] = "regenerating" /\ SessionFree(h)
    /\ ReplaceCodes(h)
    /\ Verify(session[h])
    /\ Leave(h)
    /\ UNCHANGED <<calls, password, secret, pending, sessionVars, token, expired,
                   proven, confirmed, spent, sessionHistory>>

--------------------------------------------------------------------------------
(* Failures and time.                                                      *)

\* The process ends, a statement fails or PostgreSQL aborts the transaction.
Fail(h) ==
    /\ pc[h] # "idle"
    /\ Leave(h)
    /\ raced'    = raced \ {h}
    /\ replayed' = replayed \ {h}
    /\ before'   = [before EXCEPT ![h] = {}]
    /\ UNCHANGED <<calls, userVars, mfaVars, sessionVars, token, expired,
                   made, proven, confirmed, spent, owed, ended, replaced>>

\* expires_at of a session or of a reset token passes.
Expire(x) ==
    /\ "expire" \in calls
    /\ \/ x \in Session /\ Exists(x)
       \/ x \in ResetToken /\ token[x] # "none"
    /\ expired' = expired \union {x}
    /\ UNCHANGED <<calls, userVars, mfaVars, sessionVars, token, handlerVars,
                   mfaHistory, sessionHistory>>

Handle(h) ==
    \/ Register(h) \/ Login(h) \/ IssueSession(h)
    \/ \E s \in Session :
          \/ \E j \in 1..MaxRefresh : RefreshSession(h, s, j)
          \/ \E phase \in {"logout", "hash"} : AuthenticateAccessToken(h, s, phase)
          \/ \E allowEnabled \in BOOLEAN : BeginTOTPSetup(h, s, allowEnabled)
          \/ ConfirmPending(h, s) \/ VerifyTOTP(h, s)
          \/ DisableTOTP(h, s) \/ RegenerateRecoveryCodes(h, s)
    \/ RotateSession(h) \/ Logout(h) \/ CheckCurrentPassword(h) \/ ChangePassword(h)
    \/ RequestPasswordReset(h) \/ IssueResetToken(h)
    \/ (\E t \in ResetToken : CheckResetToken(h, t)) \/ UpdateForReset(h) \/ ResetPassword(h)
    \/ StorePendingSecret(h) \/ ConsumeRecoveryCode(h) \/ MarkVerified(h)
    \/ UpdateForEnable(h) \/ EnablePendingTOTP(h)
    \/ UpdateForDisable(h) \/ CommitDisable(h)
    \/ DeleteRecoveryCodes(h) \/ CommitRecoveryCodes(h)
    \/ Fail(h)

Next ==
    \/ \E h \in Handler : Handle(h)
    \/ \E x \in Session \union ResetToken : Expire(x)

Spec == Init /\ [][Next]_vars

--------------------------------------------------------------------------------
(* Properties.                                                             *)

\* A session nobody can use any more: logged out or revoked by a reset, or expired
\* with no refresh under way that read it before.
Closed(s) ==
    \/ state[s] = "revoked"
    \/ s \in expired /\ \A h \in Handler : pc[h] = "rotate" => session[h] # s

\* A closed session stays closed: no refresh that read it open, however late it
\* writes, opens it again (Refresh and rotateSessionTx against Logout, ResetPassword
\* and the expiry).
ClosedStaysClosed == [][\A s \in Session : Closed(s) => Closed(s)']_vars

\* A reset token that resets nothing any more: used or expired, with no reset under
\* way that was begun before.
Dead(t) ==
    /\ token[t] = "used" \/ t \in expired
    /\ \A h \in Handler : pc[h] \in {"reset", "resetting"} => key[h] # t

\* A recovery code that was accepted, or deleted with the others.
Withdrawn(c) == c \in made \ codes

\* What a step leaves unusable: see OneTimeOnly.
NoSecondUse ==
    /\ \A t \in ResetToken : Dead(t) => Dead(t)'
    /\ \A c \in Code : Withdrawn(c) => Withdrawn(c)'
    /\ \A h \in Handler : pc[h] = "consume" /\ Withdrawn(key[h]) => pc'[h] \in {"consume", "idle"}
    /\ replayed' \subseteq replayed

\* What is good for one use is never good again: a reset token that is dead begins
\* no reset (only resets that overlap share one: the SELECT takes no lock), a code
\* that is withdrawn is never among the valid ones, whatever regenerations overlap,
\* and does nothing for a request that was given it while it was valid, and no refresh
\* begins with a refresh token that was exchanged.
OneTimeOnly == [][NoSecondUse]_vars

\* A reset of the password that is done has revoked every session there was when it
\* began, whatever ran beside it; a login that was checked before it may follow.
ResetEndsSessions == \A s \in ended : state[s] = "revoked"

\* A refresh token that has been exchanged begins no other refresh: only refreshes
\* that overlap can be given the same token.
ReplacedTokensRefused == replayed = {}

\* In production a session reaches the dashboard only after it has itself presented
\* a valid code since MFA was last disabled: no verification outlives the secret it was
\* given for, and none is lent by another session or a new secret (DashboardAccess,
\* buildMFAState).  A request that was under way at the disabling may carry one over.
AccessNeedsCode == Production => \A s \in Session : Admitted(s) => s \in proven

\* The secret that protects the account is always one for which the user has
\* presented a valid code: never one that became pending in the meantime.
SecretIsConfirmed == MFAEnabled => secret \in confirmed

\* A recovery code that has been accepted is never accepted again.
CodesUsedOnce == codes \intersect spent = {}

\* A session that was verified stays so until MFA is disabled or the password reset;
\* the one thing that loses it is a refresh that had read the session before.
VerificationKept == owed \subseteq verified
================================================================================
