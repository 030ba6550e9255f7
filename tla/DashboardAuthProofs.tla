-------------------------- MODULE DashboardAuthProofs --------------------------
(***************************************************************************)
(* Proofs about DashboardAuth.                                             *)
(*                                                                         *)
(* A handler works on what it has read, and the invariant says what of that*)
(* still holds when it writes: it has a session (HandlerInv); that session *)
(* has presented a code if the handler has seen it verified or will verify *)
(* it (ProvenInv); the pending secret it has seen is confirmed (SecretInv);*)
(* the rows a reset or a disabling holds cover the sessions there were when*)
(* it began (ResetInv); a refresh that will write a session as not verified was     *)
(* there when the session was verified (KeptInv).                          *)
(***************************************************************************)
EXTENDS DashboardAuth, TLAPS

\* Phases whose handler works for a session.
Working == Phase \ {"idle", "issue", "supersede", "reset", "resetting"}

HandlerInv ==
    \A h \in Handler :
        /\ pc[h] \in Working => session[h] \in Session
        /\ pc[h] = "consume" => key[h] \in Code /\ goal[h] \in {"mark", "disable", "regenerate"}

ProvenInv ==
    /\ verified \subseteq proven
    /\ \A h \in Handler :
          /\ pc[h] = "rotate" /\ seen[h].verified => session[h] \in proven
          /\ pc[h] \in {"mark", "regenerate", "regenerating", "enable", "enabling"}
                => session[h] \in proven

SecretInv ==
    /\ SecretIsConfirmed
    /\ \A h \in Handler : pc[h] \in {"enable", "enabling"} => seen[h].pending \in confirmed

CodeInv == CodesUsedOnce /\ codes \subseteq made /\ spent \subseteq made

ResetInv ==
    /\ ResetEndsSessions
    /\ \A h \in Handler :
          /\ \A s \in before[h] : Exists(s)
          /\ pc[h] = "resetting" =>
                \A s \in before[h] : s \in rows[h] \/ state[s] = "revoked"
          /\ pc[h] = "disabling" => before[h] \subseteq rows[h]

RefreshInv ==
    /\ ReplacedTokensRefused
    /\ \A s \in Session : \A j \in Nat : <<s, j>> \in replaced => j < refresh[s]
    /\ \A s \in Session : ~Exists(s) => refresh[s] = 0
    /\ \A h \in Handler : pc[h] = "rotate" => Exists(session[h])

KeptInv ==
    /\ VerificationKept
    /\ \A h \in Handler :
          pc[h] = "rotate" /\ session[h] \in owed => seen[h].verified \/ h \in raced

Inv == /\ TypeOK /\ HandlerInv /\ ProvenInv /\ SecretInv /\ CodeInv
       /\ ResetInv /\ RefreshInv /\ KeptInv

--------------------------------------------------------------------------------
\* The first state satisfies the invariant.
LEMMA InitInv == Init => Inv
  BY BoundAssumption, RowAssumption
     DEF Init, Inv, TypeOK, HandlerInv, ProvenInv, SecretInv, CodeInv, ResetInv, RefreshInv,
         KeptInv, SecretIsConfirmed, CodesUsedOnce, ResetEndsSessions, ReplacedTokensRefused,
         VerificationKept, Working, Phase, Seen, Unseen, MFAEnabled, Row, HandlerTypeOK,
         Exists

\* A new identifier is one of those that are free.
LEMMA NewIsFree == ASSUME NEW S PROVE New(S) \subseteq S
  BY DEF New

\* A handler that leaves, goes on, begins or holds rows is still a handler.
LEMMA LeaveTypes ==
  ASSUME HandlerTypeOK, NEW h \in Handler, Leave(h) PROVE HandlerTypeOK'
  BY DEF HandlerTypeOK, Leave, Phase, Row, Seen, Unseen

\* A handler that goes on is still a handler.
LEMMA GoTypes ==
  ASSUME HandlerTypeOK, NEW h \in Handler, NEW phase \in Phase, Go(h, phase)
  PROVE  HandlerTypeOK'
  BY DEF HandlerTypeOK, Go, Row

\* A handler that begins is a handler.
LEMMA BeginTypes ==
  ASSUME HandlerTypeOK, NEW h \in Handler, NEW phase \in Phase,
         NEW s \in Session \union {None}, Begin(h, s, phase)
  PROVE  HandlerTypeOK'
  BY DEF HandlerTypeOK, Begin, Row

\* A handler that has locked rows is a handler.
LEMMA HoldTypes ==
  ASSUME HandlerTypeOK, NEW h \in Handler, NEW phase \in Phase,
         NEW found \in SUBSET Row, Hold(h, phase, found)
  PROVE  HandlerTypeOK'
  BY DEF HandlerTypeOK, Hold, Row

\* Next, one action at a time.
LEMMA TypeStep == TypeOK /\ HandlerInv /\ CodeInv /\ [Next]_vars => TypeOK'
<1> SUFFICES ASSUME TypeOK, HandlerInv, CodeInv, [Next]_vars PROVE TypeOK'
  OBVIOUS
<1> USE RowAssumption, WorkloadAssumption, BoundAssumption
<1>u. ASSUME UNCHANGED vars PROVE TypeOK'
  BY <1>u DEF vars, userVars, mfaVars, sessionVars, handlerVars, mfaHistory, sessionHistory,
     TypeOK, HandlerTypeOK
<1>x. ASSUME NEW x \in Session \union ResetToken, Expire(x) PROVE TypeOK'
  BY <1>x DEF Expire, userVars, mfaVars, sessionVars, handlerVars, mfaHistory, sessionHistory,
     TypeOK, HandlerTypeOK
<1>h. ASSUME NEW h \in Handler, Handle(h) PROVE TypeOK'
  <2>1. CASE Register(h)
    <3>1. HandlerTypeOK'
      BY <2>1, BeginTypes DEF Register, TypeOK, Phase
    <3> QED BY <2>1, <3>1 DEF Register, mfaVars, sessionVars, mfaHistory, sessionHistory, TypeOK
  <2>2. CASE Login(h)
    <3>1. HandlerTypeOK'
      BY <2>2, BeginTypes DEF Login, TypeOK, Phase
    <3> QED BY <2>2, <3>1 DEF Login, userVars, mfaVars, sessionVars, mfaHistory, sessionHistory, TypeOK
  <2>3. CASE IssueSession(h)
    <3>1. HandlerTypeOK'
      BY <2>3, LeaveTypes DEF IssueSession, TypeOK
    <3> QED BY <2>3, <3>1, NewIsFree
        DEF IssueSession, userVars, mfaVars, mfaHistory, sessionHistory, TypeOK
  <2>4. ASSUME NEW s \in Session, NEW j \in 1..MaxRefresh, RefreshSession(h, s, j) PROVE TypeOK'
    <3>1. HandlerTypeOK'
      BY <2>4 DEF RefreshSession, ReadSession, TypeOK, HandlerTypeOK, Phase, Seen
    <3> QED BY <2>4, <3>1 DEF RefreshSession, ReadSession, userVars, mfaVars, sessionVars,
               mfaHistory, TypeOK
  <2>5. ASSUME NEW s \in Session, NEW phase \in {"logout", "hash"}, AuthenticateAccessToken(h, s, phase)
        PROVE TypeOK'
    <3>1. HandlerTypeOK'
      BY <2>5, BeginTypes DEF AuthenticateAccessToken, TypeOK, Phase
    <3> QED BY <2>5, <3>1 DEF AuthenticateAccessToken, userVars, mfaVars, sessionVars,
               mfaHistory, sessionHistory, TypeOK
  <2>6. ASSUME NEW s \in Session, NEW a \in BOOLEAN, BeginTOTPSetup(h, s, a) PROVE TypeOK'
    <3>1. HandlerTypeOK'
      BY <2>6, BeginTypes DEF BeginTOTPSetup, TypeOK, Phase
    <3> QED BY <2>6, <3>1 DEF BeginTOTPSetup, userVars, mfaVars, sessionVars,
               mfaHistory, sessionHistory, TypeOK
  <2>7. ASSUME NEW s \in Session, ConfirmPending(h, s) PROVE TypeOK'
    <3>1. HandlerTypeOK'
      BY <2>7 DEF ConfirmPending, TypeOK, HandlerTypeOK, Phase, Seen
    <3> QED BY <2>7, <3>1 DEF ConfirmPending, userVars, mfaVars, sessionVars,
               sessionHistory, TypeOK
  <2>8. ASSUME NEW s \in Session, NEW next \in {"mark", "disable", "regenerate"},
               PresentCode(h, s, next) PROVE TypeOK'
    <3>1. HandlerTypeOK'
      BY <2>8 DEF PresentCode, TypeOK, HandlerTypeOK, Phase
    <3> QED BY <2>8, <3>1 DEF PresentCode, userVars, mfaVars, sessionVars,
               sessionHistory, TypeOK
  <2>9. CASE RotateSession(h)
    <3>1. HandlerTypeOK'
      BY <2>9, LeaveTypes DEF RotateSession, WriteSession, TypeOK
    <3>2. session[h] \in Session /\ seen[h].pending \in Secret \union {None}
      BY <2>9 DEF RotateSession, WriteSession, HandlerInv, Working, Phase, TypeOK, HandlerTypeOK, Seen
    <3> QED BY <2>9, <3>1, <3>2 DEF RotateSession, WriteSession, userVars, TypeOK
  <2>10. CASE Logout(h)
    <3>1. HandlerTypeOK'
      BY <2>10, LeaveTypes DEF Logout, TypeOK
    <3> QED BY <2>10, <3>1 DEF Logout, userVars, mfaVars, mfaHistory, sessionHistory, TypeOK
  <2>11. CASE CheckCurrentPassword(h)
    <3>1. HandlerTypeOK'
      BY <2>11, GoTypes DEF CheckCurrentPassword, TypeOK, Phase
    <3> QED BY <2>11, <3>1 DEF CheckCurrentPassword, userVars, mfaVars, sessionVars,
               mfaHistory, sessionHistory, TypeOK
  <2>12. CASE ChangePassword(h)
    <3>1. HandlerTypeOK'
      BY <2>12, LeaveTypes DEF ChangePassword, TypeOK
    <3> QED BY <2>12, <3>1 DEF ChangePassword, mfaVars, sessionVars, mfaHistory, sessionHistory, TypeOK
  <2>13. CASE RequestPasswordReset(h)
    <3>1. HandlerTypeOK'
      BY <2>13, HoldTypes DEF RequestPasswordReset, TypeOK, Phase, Row
    <3> QED BY <2>13, <3>1 DEF RequestPasswordReset, userVars, mfaVars, sessionVars,
               mfaHistory, sessionHistory, TypeOK
  <2>14. CASE IssueResetToken(h)
    <3>1. HandlerTypeOK'
      BY <2>14, LeaveTypes DEF IssueResetToken, TypeOK
    <3> QED BY <2>14, <3>1 DEF IssueResetToken, userVars, mfaVars, sessionVars,
               mfaHistory, sessionHistory, TypeOK
  <2>15. ASSUME NEW t \in ResetToken, CheckResetToken(h, t) PROVE TypeOK'
    <3>1. HandlerTypeOK'
      BY <2>15 DEF CheckResetToken, BeginReset, Remember, TypeOK, HandlerTypeOK, Phase
    <3> QED BY <2>15, <3>1 DEF CheckResetToken, BeginReset, Remember, userVars, mfaVars, sessionVars, mfaHistory,
               TypeOK
  <2>16. CASE UpdateForReset(h)
    <3>1. HandlerTypeOK'
      BY <2>16, HoldTypes DEF UpdateForReset, TypeOK, Phase, Row
    <3> QED BY <2>16, <3>1 DEF UpdateForReset, userVars, mfaVars, sessionVars,
               mfaHistory, sessionHistory, TypeOK
  <2>17. CASE ResetPassword(h)
    <3>1. HandlerTypeOK'
      BY <2>17, LeaveTypes DEF ResetPassword, TypeOK
    <3> QED BY <2>17, <3>1 DEF ResetPassword, TypeOK
  <2>18. CASE StorePendingSecret(h)
    <3>1. HandlerTypeOK'
      BY <2>18, LeaveTypes DEF StorePendingSecret, TypeOK
    <3>2. PICK x \in Secret : pending' = [pending EXCEPT ![session[h]] = x]
                              /\ made' = made \union {x}
      BY <2>18, NewIsFree DEF StorePendingSecret
    <3> QED BY <2>18, <3>1, <3>2 DEF StorePendingSecret, userVars, sessionVars,
               sessionHistory, TypeOK
  <2>19. CASE ConsumeRecoveryCode(h)
    <3>1. HandlerTypeOK'
      BY <2>19, LeaveTypes, GoTypes DEF ConsumeRecoveryCode, HandlerInv, TypeOK, Phase
    <3>2. session[h] \in Session
      BY <2>19 DEF ConsumeRecoveryCode, HandlerInv, Working, Phase, TypeOK, HandlerTypeOK
    <3> QED BY <2>19, <3>1, <3>2 DEF ConsumeRecoveryCode, mfaVars, sessionVars,
               sessionHistory, TypeOK
  <2>20. CASE MarkVerified(h)
    <3>1. HandlerTypeOK'
      BY <2>20, LeaveTypes DEF MarkVerified, TypeOK
    <3>2. session[h] \in Session
      BY <2>20 DEF MarkVerified, HandlerInv, Working, Phase, TypeOK, HandlerTypeOK
    <3> QED BY <2>20, <3>1, <3>2 DEF MarkVerified, Verify, userVars, sessionVars,
               sessionHistory, TypeOK
  <2>21. CASE UpdateForEnable(h)
    <3>1. HandlerTypeOK'
      BY <2>21, HoldTypes DEF UpdateForEnable, HandlerInv, Working, TypeOK, Phase, Row
    <3> QED BY <2>21, <3>1 DEF UpdateForEnable, userVars, mfaVars, sessionVars,
               mfaHistory, sessionHistory, TypeOK
  <2>22. CASE EnablePendingTOTP(h)
    <3>1. HandlerTypeOK'
      BY <2>22, LeaveTypes DEF EnablePendingTOTP, TypeOK
    <3>2. session[h] \in Session /\ seen[h].pending \in Secret \union {None}
      BY <2>22 DEF EnablePendingTOTP, HandlerInv, Working, Phase, TypeOK, HandlerTypeOK, Seen
    <3> QED BY <2>22, <3>1, <3>2, NewIsFree DEF EnablePendingTOTP, Verify, ReplaceCodes, sessionVars,
               sessionHistory, TypeOK
  <2>23. CASE UpdateForDisable(h)
    <3>1. HandlerTypeOK'
      BY <2>23, HoldTypes DEF UpdateForDisable, TypeOK, Phase, Row
    <3> QED BY <2>23, <3>1 DEF UpdateForDisable, Remember, userVars, mfaVars, sessionVars,
               mfaHistory, TypeOK
  <2>24. CASE CommitDisable(h)
    <3>1. HandlerTypeOK'
      BY <2>24, LeaveTypes DEF CommitDisable, TypeOK
    <3> QED BY <2>24, <3>1 DEF CommitDisable, sessionVars, TypeOK
  <2>25. CASE DeleteRecoveryCodes(h)
    <3>1. HandlerTypeOK'
      BY <2>25, HoldTypes DEF DeleteRecoveryCodes, TypeOK, Phase, Row
    <3> QED BY <2>25, <3>1 DEF DeleteRecoveryCodes, userVars, mfaVars, sessionVars,
               mfaHistory, sessionHistory, TypeOK
  <2>26. CASE CommitRecoveryCodes(h)
    <3>1. HandlerTypeOK'
      BY <2>26, LeaveTypes DEF CommitRecoveryCodes, TypeOK
    <3>2. session[h] \in Session
      BY <2>26 DEF CommitRecoveryCodes, HandlerInv, Working, Phase, TypeOK, HandlerTypeOK
    <3> QED BY <2>26, <3>1, <3>2, NewIsFree DEF CommitRecoveryCodes, Verify, ReplaceCodes, sessionVars,
               sessionHistory, TypeOK
  <2>27. CASE Fail(h)
    <3>1. HandlerTypeOK'
      BY <2>27, LeaveTypes DEF Fail, TypeOK
    <3> QED BY <2>27, <3>1 DEF Fail, userVars, mfaVars, sessionVars, TypeOK
  <2> QED
    BY <1>h, <2>1, <2>2, <2>3, <2>4, <2>5, <2>6, <2>7, <2>8, <2>9, <2>10, <2>11, <2>12, <2>13,
       <2>14, <2>15, <2>16, <2>17, <2>18, <2>19, <2>20, <2>21, <2>22, <2>23, <2>24, <2>25, <2>26,
       <2>27 DEF Handle, VerifyTOTP, DisableTOTP, RegenerateRecoveryCodes
<1> QED BY <1>u, <1>x, <1>h DEF Next

--------------------------------------------------------------------------------
\* The handler of a step has a session whenever its phase asks for one.
LEMMA HandlerStep == TypeOK /\ HandlerInv /\ [Next]_vars => HandlerInv'
<1> SUFFICES ASSUME TypeOK, HandlerInv, [Next]_vars PROVE HandlerInv'
  OBVIOUS
<1> USE DEF TypeOK, HandlerTypeOK, HandlerInv, Working, Phase
<1>u. ASSUME UNCHANGED vars \/ \E x \in Session \union ResetToken : Expire(x) PROVE HandlerInv'
  BY <1>u DEF vars, Expire, handlerVars
<1>h. ASSUME NEW h \in Handler, Handle(h) PROVE HandlerInv'
  <2>1. CASE Leave(h)
    BY <2>1 DEF Leave
  <2>2. CASE Register(h) \/ Login(h)
    BY <2>2 DEF Register, Login, Begin
  <2>3. ASSUME NEW s \in Session, NEW phase \in {"logout", "hash", "prepare"}, Begin(h, s, phase)
        PROVE HandlerInv'
    BY <2>3 DEF Begin
  <2>4. ASSUME NEW s \in Session, NEW j \in 1..MaxRefresh, RefreshSession(h, s, j) PROVE HandlerInv'
    BY <2>4 DEF RefreshSession, ReadSession
  <2>5. ASSUME NEW s \in Session, ConfirmPending(h, s) PROVE HandlerInv'
    BY <2>5 DEF ConfirmPending
  <2>6. ASSUME NEW s \in Session, NEW next \in {"mark", "disable", "regenerate"},
               PresentCode(h, s, next) PROVE HandlerInv'
    BY <2>6 DEF PresentCode
  <2>7. ASSUME NEW t \in ResetToken, CheckResetToken(h, t) PROVE HandlerInv'
    BY <2>7 DEF CheckResetToken, BeginReset
  <2>8. CASE ConsumeRecoveryCode(h) /\ Go(h, goal[h])
    BY <2>8 DEF ConsumeRecoveryCode, Go
  <2>9. CASE CheckCurrentPassword(h)
    BY <2>9 DEF CheckCurrentPassword, Go
  <2>10. CASE RequestPasswordReset(h) \/ UpdateForReset(h)
    BY <2>10 DEF RequestPasswordReset, UpdateForReset, Hold
  <2>11. CASE UpdateForEnable(h) \/ UpdateForDisable(h) \/ DeleteRecoveryCodes(h)
    BY <2>11 DEF UpdateForEnable, UpdateForDisable, DeleteRecoveryCodes, Hold
  <2> HIDE DEF TypeOK, HandlerInv
  <2> QED
    BY <1>h, <2>1, <2>2, <2>3, <2>4, <2>5, <2>6, <2>7, <2>8, <2>9, <2>10, <2>11
       DEF Handle, IssueSession, AuthenticateAccessToken, BeginTOTPSetup, VerifyTOTP, DisableTOTP,
           RegenerateRecoveryCodes, RotateSession, WriteSession, Logout, ChangePassword,
           IssueResetToken, ResetPassword, StorePendingSecret, ConsumeRecoveryCode, MarkVerified,
           EnablePendingTOTP, CommitDisable, CommitRecoveryCodes, Fail
<1> QED BY <1>u, <1>h DEF Next

\* A session is verified, or about to be, only if it has presented a code.
LEMMA ProvenStep == TypeOK /\ HandlerInv /\ ProvenInv /\ ResetInv /\ [Next]_vars => ProvenInv'
<1> SUFFICES ASSUME TypeOK, HandlerInv, ProvenInv, ResetInv, [Next]_vars PROVE ProvenInv'
  OBVIOUS
<1> USE DEF TypeOK, HandlerTypeOK, HandlerInv, Working, Phase, Seen, ProvenInv
<1>u. ASSUME UNCHANGED vars \/ \E x \in Session \union ResetToken : Expire(x) PROVE ProvenInv'
  BY <1>u DEF vars, Expire, handlerVars, mfaVars, mfaHistory
<1>h. ASSUME NEW h \in Handler, Handle(h) PROVE ProvenInv'
  <2>1. CASE Leave(h) /\ verified' \subseteq verified /\ UNCHANGED proven
    BY <2>1 DEF Leave
  <2>2. CASE RotateSession(h)
    BY <2>2 DEF RotateSession, WriteSession, Leave
  <2>3. CASE MarkVerified(h) \/ EnablePendingTOTP(h) \/ CommitRecoveryCodes(h)
    <3>1. session[h] \in proven /\ Verify(session[h]) /\ Leave(h) /\ UNCHANGED proven
      BY <2>3 DEF MarkVerified, EnablePendingTOTP, CommitRecoveryCodes
    <3> QED BY <3>1 DEF Verify, Leave
  <2>4. CASE ConsumeRecoveryCode(h)
    BY <2>4 DEF ConsumeRecoveryCode, Go, Leave, mfaVars
  <2>5. CASE UpdateForEnable(h) \/ DeleteRecoveryCodes(h)
    BY <2>5 DEF UpdateForEnable, DeleteRecoveryCodes, Hold, mfaVars, mfaHistory
  <2>6. ASSUME NEW s \in Session, NEW j \in 1..MaxRefresh, RefreshSession(h, s, j) PROVE ProvenInv'
    BY <2>6 DEF RefreshSession, ReadSession, mfaVars, mfaHistory
  <2>7. ASSUME NEW s \in Session, ConfirmPending(h, s) PROVE ProvenInv'
    BY <2>7 DEF ConfirmPending, mfaVars
  <2>8. ASSUME NEW s \in Session, NEW next \in {"mark", "disable", "regenerate"},
               PresentCode(h, s, next) PROVE ProvenInv'
    BY <2>8 DEF PresentCode, mfaVars
  <2>9. ASSUME NEW t \in ResetToken, CheckResetToken(h, t) PROVE ProvenInv'
    BY <2>9 DEF CheckResetToken, BeginReset, mfaVars, mfaHistory
  <2>10. CASE Register(h) \/ Login(h)
    BY <2>10 DEF Register, Login, Begin, mfaVars, mfaHistory
  <2>11. ASSUME NEW s \in Session, NEW phase \in {"logout", "hash", "prepare"}, Begin(h, s, phase),
                UNCHANGED <<verified, proven>>
         PROVE ProvenInv'
    BY <2>11 DEF Begin
  <2>12. CASE CheckCurrentPassword(h)
    BY <2>12 DEF CheckCurrentPassword, Go, mfaVars, mfaHistory
  <2>13. CASE RequestPasswordReset(h) \/ UpdateForReset(h) \/ UpdateForDisable(h)
    BY <2>13 DEF RequestPasswordReset, UpdateForReset, UpdateForDisable, Hold, mfaVars, mfaHistory
  <2>14. CASE CommitDisable(h)
    <3>1. /\ pc[h] = "disabling" /\ before[h] \subseteq rows[h]
          /\ verified' = verified \ rows[h] /\ proven' = proven \ Outdated(h) /\ Leave(h)
      BY <2>14 DEF CommitDisable, ResetInv
    <3>2. verified' \subseteq proven'
      BY <3>1 DEF Outdated
    <3>3. ASSUME NEW g \in Handler \ {h}, Carries(g, session[g]), session[g] \in proven
          PROVE  session[g] \in proven'
      BY <3>1, <3>3 DEF Outdated
    <3>4. /\ pc'[h] = "idle"
          /\ \A g \in Handler \ {h} : pc'[g] = pc[g] /\ session'[g] = session[g] /\ seen'[g] = seen[g]
      BY <3>1 DEF Leave
    <3> QED BY <3>2, <3>3, <3>4 DEF Carries
  <2> HIDE DEF TypeOK, HandlerInv, ProvenInv
  <2> QED
    BY <1>h, <2>1, <2>2, <2>3, <2>4, <2>5, <2>6, <2>7, <2>8, <2>9, <2>10, <2>11, <2>12, <2>13,
       <2>14
       DEF Handle, IssueSession, AuthenticateAccessToken, BeginTOTPSetup, VerifyTOTP, DisableTOTP,
           RegenerateRecoveryCodes, Logout, ChangePassword, IssueResetToken, ResetPassword,
           StorePendingSecret, Fail, mfaVars, mfaHistory
<1> QED BY <1>u, <1>h DEF Next

\* The secret that is set is the one ConfirmPending has seen.
LEMMA SecretStep == TypeOK /\ HandlerInv /\ SecretInv /\ [Next]_vars => SecretInv'
<1> SUFFICES ASSUME TypeOK, HandlerInv, SecretInv, [Next]_vars PROVE SecretInv'
  OBVIOUS
<1> USE DEF TypeOK, HandlerTypeOK, HandlerInv, Phase, Seen, SecretInv, SecretIsConfirmed, MFAEnabled
<1>u. ASSUME UNCHANGED vars \/ \E x \in Session \union ResetToken : Expire(x) PROVE SecretInv'
  BY <1>u DEF vars, Expire, handlerVars, userVars, mfaHistory
<1>h. ASSUME NEW h \in Handler, Handle(h) PROVE SecretInv'
  <2>1. CASE Leave(h) /\ (UNCHANGED secret \/ secret' = None) /\ UNCHANGED confirmed
    BY <2>1 DEF Leave
  <2>2. CASE EnablePendingTOTP(h)
    BY <2>2 DEF EnablePendingTOTP, Leave
  <2>3. CASE UpdateForEnable(h)
    BY <2>3 DEF UpdateForEnable, Hold, userVars, mfaHistory
  <2>4. ASSUME NEW s \in Session, ConfirmPending(h, s) PROVE SecretInv'
    BY <2>4 DEF ConfirmPending, userVars
  <2>5. CASE ConsumeRecoveryCode(h) /\ Go(h, goal[h])
    BY <2>5 DEF ConsumeRecoveryCode, Go
  <2>6. ASSUME NEW s \in Session, NEW next \in {"mark", "disable", "regenerate"},
               PresentCode(h, s, next) PROVE SecretInv'
    BY <2>6 DEF PresentCode, userVars
  <2>7. ASSUME NEW s \in Session, NEW j \in 1..MaxRefresh, RefreshSession(h, s, j) PROVE SecretInv'
    BY <2>7 DEF RefreshSession, ReadSession, userVars, mfaHistory
  <2>8. ASSUME NEW t \in ResetToken, CheckResetToken(h, t) PROVE SecretInv'
    BY <2>8 DEF CheckResetToken, BeginReset, userVars, mfaHistory
  <2>9. CASE Register(h) \/ Login(h)
    BY <2>9 DEF Register, Login, Begin, userVars, mfaHistory
  <2>10. ASSUME NEW s \in Session, NEW phase \in {"logout", "hash", "prepare"}, Begin(h, s, phase),
                UNCHANGED <<secret, confirmed>>
         PROVE SecretInv'
    BY <2>10 DEF Begin
  <2>11. CASE CheckCurrentPassword(h)
    BY <2>11 DEF CheckCurrentPassword, Go, userVars, mfaHistory
  <2>12. CASE RequestPasswordReset(h) \/ UpdateForReset(h) \/ UpdateForDisable(h)
              \/ DeleteRecoveryCodes(h)
    BY <2>12 DEF RequestPasswordReset, UpdateForReset, UpdateForDisable, DeleteRecoveryCodes,
                 Hold, userVars, mfaHistory
  <2> HIDE DEF TypeOK, HandlerInv, SecretInv
  <2> QED
    BY <1>h, <2>1, <2>2, <2>3, <2>4, <2>5, <2>6, <2>7, <2>8, <2>9, <2>10, <2>11, <2>12
       DEF Handle, IssueSession, RotateSession, WriteSession, AuthenticateAccessToken,
           BeginTOTPSetup, VerifyTOTP, DisableTOTP, RegenerateRecoveryCodes, Logout,
           ChangePassword, IssueResetToken, ResetPassword, StorePendingSecret,
           ConsumeRecoveryCode, MarkVerified, CommitDisable, CommitRecoveryCodes, Fail,
           userVars, mfaHistory
<1> QED BY <1>u, <1>h DEF Next

\* A new code is none that was accepted: those all exist.
LEMMA CodeStep == TypeOK /\ HandlerInv /\ CodeInv /\ [Next]_vars => CodeInv'
<1> SUFFICES ASSUME TypeOK, HandlerInv, CodeInv, [Next]_vars PROVE CodeInv'
  OBVIOUS
<1> USE DEF CodeInv, CodesUsedOnce
<1>1. CASE UNCHANGED <<codes, spent>> /\ made \subseteq made'
  BY <1>1
<1>2. ASSUME NEW h \in Handler, ReplaceCodes(h), UNCHANGED spent PROVE CodeInv'
  BY <1>2, NewIsFree DEF ReplaceCodes
<1>3. ASSUME NEW h \in Handler, ConsumeRecoveryCode(h) PROVE CodeInv'
  BY <1>3 DEF ConsumeRecoveryCode
<1>4. ASSUME NEW h \in Handler, CommitDisable(h) PROVE CodeInv'
  BY <1>4 DEF CommitDisable
<1>5. CASE UNCHANGED vars \/ \E x \in Session \union ResetToken : Expire(x)
  BY <1>5 DEF vars, Expire, userVars, mfaHistory
<1> HIDE DEF CodeInv
<1>h. ASSUME NEW h \in Handler, Handle(h) PROVE CodeInv'
  <2>1. ASSUME NEW s \in Session, NEW next \in Phase, PresentCode(h, s, next) PROVE CodeInv'
    BY <2>1, <1>1 DEF PresentCode, userVars
  <2>2. ASSUME NEW s \in Session, ConfirmPending(h, s) PROVE CodeInv'
    BY <2>2, <1>1 DEF ConfirmPending, userVars
  <2>3. CASE RotateSession(h) \/ StorePendingSecret(h) \/ MarkVerified(h)
    BY <2>3, <1>1 DEF RotateSession, WriteSession, StorePendingSecret, MarkVerified, userVars
  <2>4. CASE EnablePendingTOTP(h) \/ CommitRecoveryCodes(h)
    BY <2>4, <1>2 DEF EnablePendingTOTP, CommitRecoveryCodes
  <2>5. CASE ResetPassword(h) \/ Fail(h)
    BY <2>5, <1>1 DEF ResetPassword, Fail, userVars
  <2>6. CASE UNCHANGED <<codes, mfaHistory>>
    BY <2>6, <1>1 DEF mfaHistory
  <2> QED
    BY <1>h, <1>3, <1>4, <2>1, <2>2, <2>3, <2>4, <2>5, <2>6
       DEF Handle, Register, Login, IssueSession, RefreshSession, ReadSession,
           AuthenticateAccessToken, BeginTOTPSetup, VerifyTOTP, DisableTOTP,
           RegenerateRecoveryCodes, Logout, CheckCurrentPassword, ChangePassword,
           RequestPasswordReset, IssueResetToken, CheckResetToken, BeginReset, UpdateForReset,
           UpdateForEnable, UpdateForDisable, DeleteRecoveryCodes, userVars, Phase
<1> QED BY <1>5, <1>h DEF Next

\* A reset holds the rows of all the live sessions there are: it began earlier.
LEMMA ResetStep == TypeOK /\ HandlerInv /\ ResetInv /\ [Next]_vars => ResetInv'
<1> SUFFICES ASSUME TypeOK, HandlerInv, ResetInv, [Next]_vars PROVE ResetInv'
  OBVIOUS
<1> USE DEF TypeOK, HandlerTypeOK, HandlerInv, Phase, Working, ResetInv, ResetEndsSessions, Exists
<1>u. ASSUME UNCHANGED vars \/ \E x \in Session \union ResetToken : Expire(x) PROVE ResetInv'
  BY <1>u DEF vars, Expire, handlerVars, sessionVars, sessionHistory
<1>h. ASSUME NEW h \in Handler, Handle(h) PROVE ResetInv'
  <2>1. CASE /\ UNCHANGED <<state, before, ended>>
             /\ \A g \in Handler : pc'[g] \in {"resetting", "disabling"} =>
                                      pc'[g] = pc[g] /\ rows'[g] = rows[g]
    BY <2>1
  <2>2. CASE IssueSession(h)
    <3>1. PICK s \in Session : ~Exists(s) /\ state' = [state EXCEPT ![s] = "live"]
      BY <2>2, NewIsFree DEF IssueSession
    <3> QED BY <2>2, <3>1 DEF IssueSession, Leave, sessionHistory
  <2>3. CASE Logout(h)
    BY <2>3 DEF Logout, Leave, sessionHistory
  <2>4. ASSUME NEW t \in ResetToken, CheckResetToken(h, t) PROVE ResetInv'
    BY <2>4 DEF CheckResetToken, BeginReset, Remember, sessionVars
  <2>5. CASE UpdateForReset(h)
    BY <2>5 DEF UpdateForReset, Hold, sessionVars, sessionHistory
  <2>6. CASE ResetPassword(h)
    BY <2>6 DEF ResetPassword, Leave
  <2>7. CASE Fail(h)
    BY <2>7 DEF Fail, Leave, sessionVars
  <2>8. ASSUME Leave(h), UNCHANGED <<state, before, ended>> PROVE ResetInv'
    BY <2>8, <2>1 DEF Leave
  <2>9. ASSUME NEW s \in Session \union {None}, NEW phase \in Phase \ {"resetting", "disabling"},
               Begin(h, s, phase), UNCHANGED <<state, before, ended>>
        PROVE ResetInv'
    BY <2>9, <2>1 DEF Begin
  <2>10. ASSUME NEW phase \in Phase \ {"resetting", "disabling"}, Go(h, phase), UNCHANGED <<state, before, ended>>
         PROVE ResetInv'
    BY <2>10, <2>1 DEF Go
  <2>11. ASSUME NEW phase \in Phase \ {"resetting", "disabling"}, NEW found \in SUBSET Row, Hold(h, phase, found),
                UNCHANGED <<state, before, ended>>
         PROVE ResetInv'
    BY <2>11, <2>1 DEF Hold
  <2>12. CASE RequestPasswordReset(h)
    BY <2>12, <2>11 DEF RequestPasswordReset, sessionVars, sessionHistory, Row
  <2>20. CASE UpdateForDisable(h)
    BY <2>20 DEF UpdateForDisable, Remember, Hold, sessionVars
  <2>21. CASE CommitDisable(h)
    BY <2>21 DEF CommitDisable, Leave, sessionVars
  <2>13. CASE UpdateForEnable(h) \/ DeleteRecoveryCodes(h)
    BY <2>13, <2>11 DEF UpdateForEnable, DeleteRecoveryCodes, sessionVars, sessionHistory, Row
  <2>14. CASE Register(h) \/ Login(h)
    BY <2>14, <2>9 DEF Register, Login, sessionVars, sessionHistory
  <2>15. ASSUME NEW s \in Session, NEW j \in 1..MaxRefresh, RefreshSession(h, s, j) PROVE ResetInv'
    BY <2>15, <2>1 DEF RefreshSession, ReadSession, sessionVars
  <2>16. ASSUME NEW s \in Session, ConfirmPending(h, s) PROVE ResetInv'
    BY <2>16, <2>1 DEF ConfirmPending, sessionVars, sessionHistory
  <2>17. ASSUME NEW s \in Session, NEW next \in {"mark", "disable", "regenerate"},
                PresentCode(h, s, next) PROVE ResetInv'
    BY <2>17, <2>1 DEF PresentCode, sessionVars, sessionHistory
  <2>18. CASE ConsumeRecoveryCode(h)
    BY <2>18, <2>8, <2>10 DEF ConsumeRecoveryCode, sessionVars, sessionHistory
  <2>19. CASE RotateSession(h)
    BY <2>19, <2>8 DEF RotateSession, WriteSession
  <2> HIDE DEF TypeOK, HandlerInv, ResetInv
  <2> QED
    BY <1>h, <2>2, <2>3, <2>4, <2>5, <2>6, <2>7, <2>8, <2>9, <2>10, <2>12, <2>13, <2>14, <2>15,
       <2>16, <2>17, <2>18, <2>19, <2>20, <2>21
       DEF Handle, AuthenticateAccessToken, BeginTOTPSetup, VerifyTOTP, DisableTOTP,
           RegenerateRecoveryCodes, CheckCurrentPassword, ChangePassword, IssueResetToken,
           StorePendingSecret, MarkVerified, EnablePendingTOTP,
           CommitRecoveryCodes, sessionVars, sessionHistory
<1> QED BY <1>u, <1>h DEF Next

\* A refresh token that was exchanged is an earlier one.
LEMMA RefreshStep == TypeOK /\ HandlerInv /\ RefreshInv /\ [Next]_vars => RefreshInv'
<1> SUFFICES ASSUME TypeOK, HandlerInv, RefreshInv, [Next]_vars PROVE RefreshInv'
  OBVIOUS
<1> USE DEF TypeOK, HandlerTypeOK, HandlerInv, Phase, Working, RefreshInv, ReplacedTokensRefused, Exists
<1>1. ASSUME UNCHANGED <<refresh, replaced>>, replayed' \subseteq replayed,
             \A s \in Session : Exists(s) <=> Exists(s)',
             \A h \in Handler : pc'[h] = "rotate" => pc[h] = "rotate" /\ session'[h] = session[h]
      PROVE  RefreshInv'
  BY <1>1
<1>u. ASSUME UNCHANGED vars \/ \E x \in Session \union ResetToken : Expire(x) PROVE RefreshInv'
  BY <1>u, <1>1 DEF vars, Expire, handlerVars, sessionVars, sessionHistory
<1>h. ASSUME NEW h \in Handler, Handle(h) PROVE RefreshInv'
  <2>1. ASSUME UNCHANGED <<refresh, replaced, state>>, replayed' \subseteq replayed,
               Leave(h) \/ \E phase \in Phase \ {"rotate"} : Go(h, phase)
                        \/ \E s \in Session \union {None} : Begin(h, s, phase)
                        \/ \E found \in SUBSET Row : Hold(h, phase, found)
        PROVE  RefreshInv'
    BY <2>1, <1>1 DEF Leave, Go, Begin, Hold
  <2>2. CASE IssueSession(h)
    <3>1. PICK s \in Session : /\ ~Exists(s) /\ state' = [state EXCEPT ![s] = "live"]
                               /\ refresh' = [refresh EXCEPT ![s] = 1]
      BY <2>2, NewIsFree DEF IssueSession
    <3> QED BY <2>2, <3>1 DEF IssueSession, Leave, sessionHistory
  <2>3. CASE RotateSession(h)
    BY <2>3 DEF RotateSession, WriteSession, Leave
  <2>4. ASSUME NEW s \in Session, NEW j \in 1..MaxRefresh, RefreshSession(h, s, j) PROVE RefreshInv'
    BY <2>4, BoundAssumption DEF RefreshSession, ReadSession, Authentic, sessionVars
  <2>5. CASE Logout(h)
    BY <2>5, <1>1 DEF Logout, Leave, sessionHistory
  <2>6. CASE ResetPassword(h)
    BY <2>6, <1>1 DEF ResetPassword, Leave
  <2>7. CASE ConsumeRecoveryCode(h)
    BY <2>7, <2>1 DEF ConsumeRecoveryCode, sessionVars, sessionHistory
  <2>8. CASE RequestPasswordReset(h) \/ UpdateForDisable(h) \/ UpdateForReset(h)
    BY <2>8, <2>1 DEF RequestPasswordReset, UpdateForDisable, UpdateForReset, sessionVars, sessionHistory, Row
  <2>9. CASE UpdateForEnable(h) \/ DeleteRecoveryCodes(h)
    BY <2>9, <2>1 DEF UpdateForEnable, DeleteRecoveryCodes, sessionVars, sessionHistory, Row
  <2>10. CASE Register(h) \/ Login(h) \/ CheckCurrentPassword(h)
    BY <2>10, <2>1 DEF Register, Login, CheckCurrentPassword, sessionVars, sessionHistory
  <2>11. ASSUME NEW s \in Session, ConfirmPending(h, s) PROVE RefreshInv'
    BY <2>11, <1>1 DEF ConfirmPending, sessionVars, sessionHistory
  <2>12. ASSUME NEW s \in Session, NEW next \in {"mark", "disable", "regenerate"},
                PresentCode(h, s, next) PROVE RefreshInv'
    BY <2>12, <1>1 DEF PresentCode, sessionVars, sessionHistory
  <2>13. ASSUME NEW t \in ResetToken, CheckResetToken(h, t) PROVE RefreshInv'
    BY <2>13, <1>1 DEF CheckResetToken, BeginReset, sessionVars
  <2>14. ASSUME NEW s \in Session, NEW phase \in {"logout", "hash"}, AuthenticateAccessToken(h, s, phase)
         PROVE RefreshInv'
    BY <2>14, <2>1 DEF AuthenticateAccessToken, sessionVars, sessionHistory
  <2>15. ASSUME NEW s \in Session, NEW a \in BOOLEAN, BeginTOTPSetup(h, s, a) PROVE RefreshInv'
    BY <2>15, <2>1 DEF BeginTOTPSetup, sessionVars, sessionHistory
  <2> HIDE DEF TypeOK, HandlerInv, RefreshInv
  <2> QED
    BY <1>h, <2>1, <2>2, <2>3, <2>4, <2>5, <2>6, <2>7, <2>8, <2>9, <2>10, <2>11, <2>12, <2>13,
       <2>14, <2>15
       DEF Handle, VerifyTOTP, DisableTOTP, RegenerateRecoveryCodes, ChangePassword,
           IssueResetToken, StorePendingSecret, MarkVerified, EnablePendingTOTP, CommitDisable,
           CommitRecoveryCodes, Fail, sessionVars, sessionHistory
<1> QED BY <1>u, <1>h DEF Next

\* A refresh that will write a session back as not verified, though it is to stay
\* verified, was under way when the session was verified.
LEMMA KeptStep == TypeOK /\ HandlerInv /\ KeptInv /\ [Next]_vars => KeptInv'
<1> SUFFICES ASSUME TypeOK, HandlerInv, KeptInv, [Next]_vars PROVE KeptInv'
  OBVIOUS
<1> USE DEF TypeOK, HandlerTypeOK, HandlerInv, Phase, Working, Seen, KeptInv, VerificationKept
<1>1. ASSUME UNCHANGED <<verified, owed, raced>>,
             \A h \in Handler : pc'[h] = "rotate" => /\ pc[h] = "rotate"
                                                     /\ session'[h] = session[h] /\ seen'[h] = seen[h]
      PROVE  KeptInv'
  BY <1>1
<1>u. ASSUME UNCHANGED vars \/ \E x \in Session \union ResetToken : Expire(x) PROVE KeptInv'
  BY <1>u, <1>1 DEF vars, Expire, handlerVars, mfaVars, mfaHistory
<1>h. ASSUME NEW h \in Handler, Handle(h) PROVE KeptInv'
  <2>1. ASSUME UNCHANGED <<verified, owed, raced>>,
               Leave(h) \/ \E phase \in Phase \ {"rotate"} : Go(h, phase)
                        \/ \E s \in Session \union {None} : Begin(h, s, phase)
                        \/ \E found \in SUBSET Row : Hold(h, phase, found)
        PROVE  KeptInv'
    BY <2>1, <1>1 DEF Leave, Go, Begin, Hold
  <2>2. ASSUME NEW s \in Session, Verify(s), Leave(h) PROVE KeptInv'
    BY <2>2 DEF Verify, Leave
  <2>3. CASE RotateSession(h)
    BY <2>3 DEF RotateSession, WriteSession, Leave
  <2>4. ASSUME NEW s \in Session, NEW j \in 1..MaxRefresh, RefreshSession(h, s, j) PROVE KeptInv'
    BY <2>4 DEF RefreshSession, ReadSession, mfaVars, mfaHistory
  <2>5. CASE MarkVerified(h) \/ EnablePendingTOTP(h) \/ CommitRecoveryCodes(h)
    BY <2>5, <2>2 DEF MarkVerified, EnablePendingTOTP, CommitRecoveryCodes
  <2>6. CASE ResetPassword(h) \/ CommitDisable(h)
    BY <2>6 DEF ResetPassword, CommitDisable, Leave
  <2>7. CASE ConsumeRecoveryCode(h)
    BY <2>7, <2>1 DEF ConsumeRecoveryCode, mfaVars
  <2>8. CASE RequestPasswordReset(h) \/ UpdateForDisable(h) \/ UpdateForReset(h)
    BY <2>8, <2>1 DEF RequestPasswordReset, UpdateForDisable, UpdateForReset, mfaVars, mfaHistory, Row
  <2>9. CASE UpdateForEnable(h) \/ DeleteRecoveryCodes(h)
    BY <2>9, <2>1 DEF UpdateForEnable, DeleteRecoveryCodes, mfaVars, mfaHistory, Row
  <2>10. CASE Register(h) \/ Login(h) \/ CheckCurrentPassword(h)
    BY <2>10, <2>1 DEF Register, Login, CheckCurrentPassword, mfaVars, mfaHistory
  <2>11. ASSUME NEW s \in Session, ConfirmPending(h, s) PROVE KeptInv'
    BY <2>11, <1>1 DEF ConfirmPending, mfaVars
  <2>12. ASSUME NEW s \in Session, NEW next \in {"mark", "disable", "regenerate"},
                PresentCode(h, s, next) PROVE KeptInv'
    BY <2>12, <1>1 DEF PresentCode, mfaVars
  <2>13. ASSUME NEW t \in ResetToken, CheckResetToken(h, t) PROVE KeptInv'
    BY <2>13, <1>1 DEF CheckResetToken, BeginReset, mfaVars, mfaHistory
  <2>14. ASSUME NEW s \in Session, NEW phase \in {"logout", "hash"}, AuthenticateAccessToken(h, s, phase)
         PROVE KeptInv'
    BY <2>14, <2>1 DEF AuthenticateAccessToken, mfaVars, mfaHistory
  <2>15. ASSUME NEW s \in Session, NEW a \in BOOLEAN, BeginTOTPSetup(h, s, a) PROVE KeptInv'
    BY <2>15, <2>1 DEF BeginTOTPSetup, mfaVars, mfaHistory
  <2>16. CASE IssueSession(h) \/ Logout(h) \/ ChangePassword(h) \/ IssueResetToken(h)
    BY <2>16, <2>1 DEF IssueSession, Logout, ChangePassword, IssueResetToken, mfaVars, mfaHistory
  <2>17. CASE StorePendingSecret(h)
    BY <2>17, <2>1 DEF StorePendingSecret
  <2>18. CASE Fail(h)
    BY <2>18 DEF Fail, Leave, mfaVars
  <2> HIDE DEF TypeOK, HandlerInv, KeptInv
  <2> QED
    BY <1>h, <2>3, <2>4, <2>5, <2>6, <2>7, <2>8, <2>9, <2>10, <2>11, <2>12, <2>13,
       <2>14, <2>15, <2>16, <2>17, <2>18
       DEF Handle, VerifyTOTP, DisableTOTP, RegenerateRecoveryCodes
<1> QED BY <1>u, <1>h DEF Next

\* The invariant holds for any number of handlers, sessions, tokens, secrets and codes.
LEMMA Invariance == Spec => []Inv
<1>1. Inv /\ [Next]_vars => Inv'
  BY TypeStep, HandlerStep, ProvenStep, SecretStep, CodeStep, ResetStep, RefreshStep, KeptStep
     DEF Inv
<1> QED BY <1>1, InitInv, PTL DEF Spec

--------------------------------------------------------------------------------
\* Every variable has its type, however many requests are handled.
THEOREM TypeCorrect == Spec => []TypeOK
  BY Invariance, PTL DEF Inv

\* A finished reset has revoked every session that existed when it began, for any
\* number of sessions and of handlers beside it.
THEOREM ResetEndsSessionsHolds == Spec => []ResetEndsSessions
<1>1. Inv => ResetEndsSessions
  BY DEF Inv, ResetInv
<1> QED BY <1>1, Invariance, PTL

\* An exchanged refresh token begins no other refresh.
THEOREM ReplacedTokensRefusedHolds == Spec => []ReplacedTokensRefused
<1>1. Inv => ReplacedTokensRefused
  BY DEF Inv, RefreshInv
<1> QED BY <1>1, Invariance, PTL

\* In production a session reaches the dashboard only after it has presented a code.
THEOREM AccessNeedsCodeHolds == Spec => []AccessNeedsCode
<1>1. Inv => AccessNeedsCode
  BY DEF Inv, ProvenInv, AccessNeedsCode, Admitted
<1> QED BY <1>1, Invariance, PTL

\* The secret of the account is one for which a valid code was presented.
THEOREM SecretIsConfirmedHolds == Spec => []SecretIsConfirmed
<1>1. Inv => SecretIsConfirmed
  BY DEF Inv, SecretInv
<1> QED BY <1>1, Invariance, PTL

\* No recovery code is accepted twice.
THEOREM CodesUsedOnceHolds == Spec => []CodesUsedOnce
<1>1. Inv => CodesUsedOnce
  BY DEF Inv, CodeInv
<1> QED BY <1>1, Invariance, PTL

\* Only a refresh that overlaps the verification of its session loses it.
THEOREM VerificationKeptHolds == Spec => []VerificationKept
<1>1. Inv => VerificationKept
  BY DEF Inv, KeptInv
<1> QED BY <1>1, Invariance, PTL

\* A closed session stays closed, whatever a handler had read while it was open.
THEOREM ClosedStaysClosedHolds == Spec => ClosedStaysClosed
<1>1. ASSUME Inv, [Next]_vars, NEW s \in Session, Closed(s) PROVE Closed(s)'
  <2>t. /\ state \in [Session -> {"none", "live", "revoked"}]
        /\ pc \in [Handler -> Phase] /\ session \in [Handler -> Session \union {None}]
        /\ \A h \in Handler : pc[h] \in {"rotate", "logout"} => session[h] \in Session
        /\ \A h \in Handler : pc[h] = "consume" => goal[h] # "rotate"
    BY <1>1 DEF Inv, TypeOK, HandlerTypeOK, HandlerInv, Phase, Working
  <2>1. ASSUME state[s] = "revoked" => state'[s] = "revoked",
               s \in expired => s \in expired',
               \A h \in Handler : pc'[h] = "rotate" /\ session'[h] = s => pc[h] = "rotate" /\ session[h] = s
        PROVE  Closed(s)'
    BY <1>1, <2>1 DEF Closed
  <2>u. ASSUME UNCHANGED vars \/ \E x \in Session \union ResetToken : Expire(x) PROVE Closed(s)'
    BY <2>u, <2>1 DEF vars, Expire, handlerVars, sessionVars
  <2>h. ASSUME NEW h \in Handler, Handle(h) PROVE Closed(s)'
    <3>1. ASSUME UNCHANGED state, UNCHANGED expired,
                 Leave(h) \/ \E phase \in Phase \ {"rotate"} : Go(h, phase)
                          \/ \E r \in Session \union {None} : Begin(h, r, phase)
          PROVE  Closed(s)'
      BY <3>1, <2>1, <2>t DEF Leave, Go, Begin, Phase
    <3>2. CASE IssueSession(h)
      <4>1. PICK r \in Session : ~Exists(r) /\ state' = [state EXCEPT ![r] = "live"]
        BY <3>2, NewIsFree DEF IssueSession
      <4> QED BY <3>2, <4>1, <2>1, <2>t DEF IssueSession, Leave, Exists
    <3>3. CASE RotateSession(h)
      BY <3>3, <1>1, <2>t DEF RotateSession, WriteSession, Leave, Closed
    <3>4. ASSUME NEW r \in Session, NEW j \in 1..MaxRefresh, RefreshSession(h, r, j) PROVE Closed(s)'
      BY <3>4, <1>1, <2>t DEF RefreshSession, ReadSession, Authentic, sessionVars, Closed
    <3>5. CASE Logout(h) \/ ResetPassword(h)
      BY <3>5, <2>1, <2>t DEF Logout, ResetPassword, Leave
    <3>6. CASE ConsumeRecoveryCode(h)
      BY <3>6, <2>1, <2>t DEF ConsumeRecoveryCode, Go, Leave, sessionVars
    <3>7. CASE RequestPasswordReset(h) \/ UpdateForDisable(h) \/ UpdateForReset(h)
      BY <3>7, <2>1, <2>t DEF RequestPasswordReset, UpdateForDisable, UpdateForReset, Hold, sessionVars
    <3>8. CASE UpdateForEnable(h) \/ DeleteRecoveryCodes(h)
      BY <3>8, <2>1, <2>t DEF UpdateForEnable, DeleteRecoveryCodes, Hold, sessionVars
    <3>9. CASE Register(h) \/ Login(h) \/ CheckCurrentPassword(h)
      BY <3>9, <3>1 DEF Phase, Register, Login, CheckCurrentPassword, sessionVars
    <3>10. ASSUME NEW r \in Session, ConfirmPending(h, r) PROVE Closed(s)'
      BY <3>10, <2>1, <2>t DEF ConfirmPending, sessionVars
    <3>11. ASSUME NEW r \in Session, NEW next \in {"mark", "disable", "regenerate"},
                  PresentCode(h, r, next) PROVE Closed(s)'
      BY <3>11, <2>1, <2>t DEF PresentCode, sessionVars
    <3>12. ASSUME NEW t \in ResetToken, CheckResetToken(h, t) PROVE Closed(s)'
      BY <3>12, <2>1, <2>t DEF CheckResetToken, BeginReset, sessionVars
    <3>13. ASSUME NEW r \in Session, NEW phase \in {"logout", "hash"}, AuthenticateAccessToken(h, r, phase)
           PROVE Closed(s)'
      BY <3>13, <3>1 DEF Phase, AuthenticateAccessToken, sessionVars
    <3>14. ASSUME NEW r \in Session, NEW a \in BOOLEAN, BeginTOTPSetup(h, r, a) PROVE Closed(s)'
      BY <3>14, <3>1 DEF Phase, BeginTOTPSetup, sessionVars
    <3>15. CASE ChangePassword(h) \/ IssueResetToken(h) \/ StorePendingSecret(h) \/ MarkVerified(h)
      BY <3>15, <3>1 DEF Phase, ChangePassword, IssueResetToken, StorePendingSecret, MarkVerified, sessionVars
    <3>16. CASE EnablePendingTOTP(h) \/ CommitDisable(h) \/ CommitRecoveryCodes(h) \/ Fail(h)
      BY <3>16, <3>1 DEF Phase, EnablePendingTOTP, CommitDisable, CommitRecoveryCodes, Fail, sessionVars
    <3> QED
      BY <2>h, <3>2, <3>3, <3>4, <3>5, <3>6, <3>7, <3>8, <3>9, <3>10, <3>11, <3>12, <3>13,
         <3>14, <3>15, <3>16 DEF Handle, VerifyTOTP, DisableTOTP, RegenerateRecoveryCodes
  <2> QED BY <1>1, <2>u, <2>h DEF Next
<1>2. Inv /\ [Next]_vars => [\A s \in Session : Closed(s) => Closed(s)']_vars
  BY <1>1
<1> QED BY <1>2, Invariance, PTL DEF Spec, ClosedStaysClosed

\* A reset token that is dead begins no reset, and none of its state comes back.
LEMMA DeadStep ==
  ASSUME Inv, [Next]_vars, NEW t \in ResetToken, Dead(t) PROVE Dead(t)'
<1>t. /\ token \in [ResetToken -> {"none", "unused", "used"}]
      /\ pc \in [Handler -> Phase]
      /\ key \in [Handler -> ResetToken \union Code \union {None}]
      /\ \A h \in Handler : pc[h] = "rotate" => session[h] \in Session
      /\ \A h \in Handler : pc[h] = "consume" => goal[h] \in {"mark", "disable", "regenerate"}
  BY DEF Inv, TypeOK, HandlerTypeOK, HandlerInv, Phase, Working
<1>1. ASSUME token[t] = "used" => token'[t] = "used",
             t \in expired => t \in expired',
             \A h \in Handler : pc'[h] \in {"reset", "resetting"} /\ key'[h] = t
                                 => pc[h] \in {"reset", "resetting"} /\ key[h] = t
      PROVE  Dead(t)'
  BY <1>1 DEF Dead
<1>u. ASSUME UNCHANGED vars \/ \E x \in Session \union ResetToken : Expire(x) PROVE Dead(t)'
  BY <1>u, <1>1 DEF vars, Expire, handlerVars
<1>h. ASSUME NEW h \in Handler, Handle(h) PROVE Dead(t)'
  <2>1. ASSUME UNCHANGED token, UNCHANGED expired,
               Leave(h) \/ \E phase \in Phase \ {"reset", "resetting"} : Go(h, phase)
                        \/ \E r \in Session \union {None} : Begin(h, r, phase)
                        \/ \E found \in SUBSET Row : Hold(h, phase, found)
        PROVE  Dead(t)'
    BY <2>1, <1>1, <1>t DEF Leave, Go, Begin, Hold, Phase
  <2>2. CASE IssueResetToken(h)
    <3>1. PICK new \in ResetToken :
              /\ token[new] = "none"
              /\ token' = [x \in ResetToken |-> IF x = new THEN "unused"
                                                  ELSE IF x \in rows[h] THEN "used" ELSE token[x]]
      BY <2>2, NewIsFree DEF IssueResetToken
    <3> QED BY <2>2, <3>1, <1>1, <1>t DEF IssueResetToken, Leave
  <2>3. CASE ResetPassword(h)
    BY <2>3, <1>1, <1>t DEF ResetPassword, Leave
  <2>4. CASE RotateSession(h)
    BY <2>4, <1>1, <1>t, RowAssumption DEF RotateSession, WriteSession, Leave
  <2>5. ASSUME NEW x \in ResetToken, CheckResetToken(h, x) PROVE Dead(t)'
    BY <2>5, <1>1, <1>t DEF CheckResetToken, BeginReset, Unused, Dead
  <2>6. CASE UpdateForReset(h)
    BY <2>6, <1>1, <1>t DEF UpdateForReset, Hold
  <2>7. CASE ConsumeRecoveryCode(h)
    BY <2>7, <1>1, <1>t DEF ConsumeRecoveryCode, Go, Leave
  <2>8. ASSUME NEW s \in Session, NEW next \in {"mark", "disable", "regenerate"},
               PresentCode(h, s, next) PROVE Dead(t)'
    BY <2>8, <1>1, <1>t DEF PresentCode
  <2>9. ASSUME NEW s \in Session, ConfirmPending(h, s) PROVE Dead(t)'
    BY <2>9, <1>1, <1>t DEF ConfirmPending
  <2>10. ASSUME NEW s \in Session, NEW j \in 1..MaxRefresh, RefreshSession(h, s, j) PROVE Dead(t)'
    BY <2>10, <1>1, <1>t DEF RefreshSession, ReadSession
  <2>11. ASSUME NEW s \in Session, NEW phase \in {"logout", "hash"}, AuthenticateAccessToken(h, s, phase)
         PROVE Dead(t)'
    BY <2>11, <2>1 DEF AuthenticateAccessToken, Phase
  <2>12. ASSUME NEW s \in Session, NEW a \in BOOLEAN, BeginTOTPSetup(h, s, a) PROVE Dead(t)'
    BY <2>12, <2>1 DEF BeginTOTPSetup, Phase
  <2>13. CASE Register(h) \/ Login(h) \/ CheckCurrentPassword(h)
    BY <2>13, <2>1 DEF Register, Login, CheckCurrentPassword, Phase
  <2>14. CASE RequestPasswordReset(h) \/ UpdateForDisable(h)
    BY <2>14, <1>1, <1>t DEF RequestPasswordReset, UpdateForDisable, Hold
  <2>15. CASE UpdateForEnable(h) \/ DeleteRecoveryCodes(h)
    BY <2>15, <1>1, <1>t DEF UpdateForEnable, DeleteRecoveryCodes, Hold
  <2>16. CASE IssueSession(h) \/ Logout(h) \/ ChangePassword(h) \/ StorePendingSecret(h)
    BY <2>16, <2>1 DEF IssueSession, Logout, ChangePassword, StorePendingSecret
  <2>17. CASE MarkVerified(h) \/ EnablePendingTOTP(h) \/ CommitDisable(h)
    BY <2>17, <2>1 DEF MarkVerified, EnablePendingTOTP, CommitDisable
  <2>18. CASE CommitRecoveryCodes(h) \/ Fail(h)
    BY <2>18, <2>1 DEF CommitRecoveryCodes, Fail
  <2> QED
    BY <1>h, <2>2, <2>3, <2>4, <2>5, <2>6, <2>7, <2>8, <2>9, <2>10, <2>11, <2>12, <2>13,
       <2>14, <2>15, <2>16, <2>17, <2>18
       DEF Handle, VerifyTOTP, DisableTOTP, RegenerateRecoveryCodes
<1> QED BY <1>u, <1>h DEF Next

\* A code that was accepted or deleted is never issued again.
LEMMA WithdrawnStep ==
  ASSUME [Next]_vars, NEW c \in Code, Withdrawn(c) PROVE Withdrawn(c)'
<1> USE DEF Withdrawn
<1>1. CASE codes' \subseteq codes /\ made \subseteq made'
  BY <1>1
<1>2. ASSUME NEW h \in Handler, ReplaceCodes(h) PROVE Withdrawn(c)'
  BY <1>2, NewIsFree DEF ReplaceCodes
<1> HIDE DEF Withdrawn
<1>u. ASSUME UNCHANGED vars \/ \E x \in Session \union ResetToken : Expire(x) PROVE Withdrawn(c)'
  BY <1>u, <1>1 DEF vars, Expire, userVars, mfaHistory
<1>h. ASSUME NEW h \in Handler, Handle(h) PROVE Withdrawn(c)'
  <2>1. ASSUME NEW s \in Session, NEW next \in Phase, PresentCode(h, s, next) PROVE Withdrawn(c)'
    BY <2>1, <1>1 DEF PresentCode, userVars
  <2>2. ASSUME NEW s \in Session, ConfirmPending(h, s) PROVE Withdrawn(c)'
    BY <2>2, <1>1 DEF ConfirmPending, userVars
  <2>3. CASE RotateSession(h) \/ StorePendingSecret(h) \/ MarkVerified(h)
    BY <2>3, <1>1 DEF RotateSession, WriteSession, StorePendingSecret, MarkVerified, userVars
  <2>4. CASE EnablePendingTOTP(h) \/ CommitRecoveryCodes(h)
    BY <2>4, <1>2 DEF EnablePendingTOTP, CommitRecoveryCodes
  <2>5. CASE ResetPassword(h) \/ Fail(h)
    BY <2>5, <1>1 DEF ResetPassword, Fail, userVars
  <2>6. CASE ConsumeRecoveryCode(h) \/ CommitDisable(h)
    BY <2>6, <1>1 DEF ConsumeRecoveryCode, CommitDisable
  <2>7. CASE UNCHANGED <<codes, mfaHistory>>
    BY <2>7, <1>1 DEF mfaHistory
  <2> QED
    BY <1>h, <2>1, <2>2, <2>3, <2>4, <2>5, <2>6, <2>7
       DEF Handle, Register, Login, IssueSession, RefreshSession, ReadSession,
           AuthenticateAccessToken, BeginTOTPSetup, VerifyTOTP, DisableTOTP,
           RegenerateRecoveryCodes, Logout, CheckCurrentPassword, ChangePassword,
           RequestPasswordReset, IssueResetToken, CheckResetToken, BeginReset, UpdateForReset,
           UpdateForEnable, UpdateForDisable, DeleteRecoveryCodes, userVars, Phase
<1> QED BY <1>u, <1>h DEF Next

\* A request that comes with a withdrawn code is refused, though the code may have been
\* valid when it was given.
LEMMA WithdrawnRefused ==
  ASSUME Inv, [Next]_vars, NEW h \in Handler, pc[h] = "consume", Withdrawn(key[h])
  PROVE  pc'[h] \in {"consume", "idle"}
<1>0. pc \in [Handler -> Phase]
  BY DEF Inv, TypeOK, HandlerTypeOK
<1>1. CASE UNCHANGED pc
  BY <1>1
<1>2. ASSUME NEW g \in Handler, Leave(g) PROVE pc'[h] \in {"consume", "idle"}
  BY <1>0, <1>2 DEF Leave
<1>3. ASSUME NEW g \in Handler \ {h}, NEW phase, pc' = [pc EXCEPT ![g] = phase]
      PROVE  pc'[h] = "consume"
  BY <1>0, <1>3
<1>4. CASE ConsumeRecoveryCode(h)
  BY <1>2, <1>4 DEF ConsumeRecoveryCode, Withdrawn
<1>u. CASE UNCHANGED vars \/ \E x \in Session \union ResetToken : Expire(x)
  BY <1>u, <1>1 DEF vars, Expire, handlerVars
<1>h. ASSUME NEW g \in Handler, Handle(g) PROVE pc'[h] \in {"consume", "idle"}
  <2>1. ASSUME ~Leave(g), g # h PROVE \E phase : pc' = [pc EXCEPT ![g] = phase]
    <3>1. ASSUME NEW s \in Session, NEW j \in 1..MaxRefresh, RefreshSession(g, s, j)
          PROVE  pc' = [pc EXCEPT ![g] = "rotate"]
      BY <3>1 DEF RefreshSession, ReadSession
    <3>2. ASSUME NEW s \in Session, NEW next, PresentCode(g, s, next)
          PROVE  \E phase : pc' = [pc EXCEPT ![g] = phase]
      BY <3>2 DEF PresentCode
    <3>3. ASSUME NEW s \in Session, ConfirmPending(g, s)
          PROVE  pc' = [pc EXCEPT ![g] = "enable"]
      BY <3>3 DEF ConfirmPending
    <3>4. ASSUME NEW t \in ResetToken, CheckResetToken(g, t)
          PROVE  pc' = [pc EXCEPT ![g] = "reset"]
      BY <3>4 DEF CheckResetToken, BeginReset
    <3>5. ASSUME NEW phase, Go(g, phase) \/ (\E s : Begin(g, s, phase)) \/ (\E f : Hold(g, phase, f))
          PROVE  pc' = [pc EXCEPT ![g] = phase]
      BY <3>5 DEF Go, Begin, Hold
    <3> QED
      BY <1>h, <2>1, <3>1, <3>2, <3>3, <3>4, <3>5
         DEF Handle, Register, Login, IssueSession, AuthenticateAccessToken, BeginTOTPSetup,
             VerifyTOTP, DisableTOTP, RegenerateRecoveryCodes, RotateSession, WriteSession, Logout,
             CheckCurrentPassword, ChangePassword, RequestPasswordReset, IssueResetToken,
             UpdateForReset, ResetPassword, StorePendingSecret, ConsumeRecoveryCode, MarkVerified,
             UpdateForEnable, EnablePendingTOTP, UpdateForDisable, CommitDisable,
             DeleteRecoveryCodes, CommitRecoveryCodes, Fail
  <2>2. ASSUME ~Leave(g), g = h PROVE ConsumeRecoveryCode(g)
    BY <1>h, <2>2
       DEF Handle, Register, Login, IssueSession, RefreshSession, ReadSession,
           AuthenticateAccessToken, BeginTOTPSetup, ConfirmPending, PresentCode, VerifyTOTP,
           DisableTOTP, RegenerateRecoveryCodes, RotateSession, WriteSession, Logout,
           CheckCurrentPassword, ChangePassword, RequestPasswordReset, IssueResetToken,
           CheckResetToken, BeginReset, UpdateForReset, ResetPassword, StorePendingSecret,
           MarkVerified, UpdateForEnable, EnablePendingTOTP, UpdateForDisable, CommitDisable,
           DeleteRecoveryCodes, CommitRecoveryCodes, Fail, Begin
  <2> QED BY <1>2, <1>3, <1>4, <2>1, <2>2
<1> QED BY <1>u, <1>h DEF Next

\* Reset tokens, recovery codes and refresh tokens are each good for one use, but for
\* requests that overlap.
THEOREM OneTimeOnlyHolds == Spec => OneTimeOnly
<1>1. Inv /\ [Next]_vars => replayed' \subseteq replayed
  BY RefreshStep DEF Inv, RefreshInv, ReplacedTokensRefused
<1>2. ASSUME Inv, [Next]_vars, NEW h \in Handler, pc[h] = "consume", Withdrawn(key[h])
      PROVE  pc'[h] \in {"consume", "idle"}
  BY <1>2, WithdrawnRefused
<1>3. Inv /\ [Next]_vars => [NoSecondUse]_vars
  BY <1>1, <1>2, DeadStep, WithdrawnStep DEF NoSecondUse
<1> QED BY <1>3, Invariance, PTL DEF Spec, OneTimeOnly
================================================================================
