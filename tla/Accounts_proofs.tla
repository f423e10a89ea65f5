---------------------------- MODULE Accounts_proofs ----------------------------
(***************************************************************************)
(* Proofs about the life of an account: that of the first user (FirstUser), *)
(* for any number of forms, instances of the server, registrations and      *)
(* faults; the forced change of a password (ForcedChange), for any number of *)
(* requests, sessions and administrators' forms; what a barred user reaches  *)
(* (Standing), for any number of browsers, requests and bars; and the trust   *)
(* in a device (TrustedDevices), for any number of cookies and sign-ins.     *)
(***************************************************************************)
EXTENDS FirstUser, ForcedChange, Standing, TrustedDevices, TLAPS

-----------------------------------------------------------------------------
(* The first user. *)

InSection(f) == form[f] \in {"check", "user", "password"}

\* Why one administrator is made: while no connection is lost the form that is
\* in the section has the lock, the re-check saw no user and none of the page's
\* has been added since.
LockInv ==
    ~lostLock =>
        /\ \A f \in Forms : InSection(f) => setupLock = f
        /\ \A f \in Forms : form[f] = "user" => users \cap Forms = {}
        /\ OneFirstUser

\* Why setup does not close without one: a user of the page has a password, is
\* about to be given one, or its handler ended there.
PasswordInv ==
    /\ \A f \in Forms : form[f] = "password" => f \in users
    /\ \A f \in Forms \cap users : f \in logins \/ f \in interrupted \/ form[f] = "password"
    /\ closed # {} => users # {}

SetupInv == SetupTypeOK /\ LockInv /\ PasswordInv

-----------------------------------------------------------------------------
LEMMA SetupInvInit == ASSUME SetupAssumption PROVE SetupInit => SetupInv
  <1> SUFFICES ASSUME SetupInit PROVE SetupInv
    OBVIOUS
  <1>1. lostLock \in BOOLEAN
    BY DEF SetupInit
  <1>2. \A f \in Forms : form[f] = "new" /\ at[f] = Unlocked
    BY DEF SetupInit
  <1>3. SetupTypeOK
    BY <1>1, <1>2 DEF SetupInit, SetupTypeOK, Working, Answers, SetupAssumption
  <1>4. LockInv /\ PasswordInv
    BY <1>2 DEF SetupInit, LockInv, PasswordInv, InSection, OneFirstUser
  <1> QED
    BY <1>3, <1>4 DEF SetupInv

\* Every step keeps the variables well typed.
LEMMA SetupTypeStep ==
  ASSUME SetupAssumption, SetupTypeOK, PasswordInv, [SetupNext]_setupVars
  PROVE  SetupTypeOK'
  <1> USE DEF SetupTypeOK, Working, Answers, SetupAssumption, To, Unlock
  <1>1. ASSUME NEW f \in Forms, Acquire(f) \/ GiveUp(f) \/ Check(f) PROVE SetupTypeOK'
    BY <1>1 DEF Acquire, GiveUp, TimesOut, Check
  <1>2. ASSUME NEW f \in Forms, CreateUser(f) \/ CreateAccount(f) PROVE SetupTypeOK'
    BY <1>2 DEF CreateUser, CreateAccount, PasswordInv
  <1>3. ASSUME NEW f \in Forms, Throws(f) \/ LoseLock(f) PROVE SetupTypeOK'
    <2>1. lostLock' \in BOOLEAN
      BY <1>3, Zenon DEF Throws, LoseLock
    <2> QED
      BY <1>3, <2>1 DEF Throws, LoseLock, Fault
  <1>4. ASSUME NEW p \in Processes, Look(p) \/ Crash(p) PROVE SetupTypeOK'
    BY <1>4 DEF Look, Remembered, Crash, Fault
  <1>5. ASSUME NEW f \in Forms, NEW p \in Processes, Post(f, p) PROVE SetupTypeOK'
    BY <1>5 DEF Post, Remembered
  <1>6. ASSUME NEW u \in SignUps, SignUp(u) PROVE SetupTypeOK'
    BY <1>6 DEF SignUp
  <1>7. CASE UNCHANGED setupVars
    BY <1>7 DEF setupVars
  <1> QED
    BY <1>1, <1>2, <1>3, <1>4, <1>5, <1>6, <1>7 DEF SetupNext

\* While no connection is lost the lock keeps the forms apart.
LEMMA SetupLockStep ==
  ASSUME SetupAssumption, SetupTypeOK, LockInv, [SetupNext]_setupVars
  PROVE  LockInv'
  <1> SUFFICES ASSUME ~lostLock' PROVE LockInv'
    BY DEF LockInv
  <1> USE DEF LockInv, InSection, OneFirstUser, To, Unlock, SetupAssumption
  <1>1. ~lostLock
    BY Zenon DEF SetupNext, setupVars, Acquire, GiveUp, Check, CreateUser, CreateAccount, Throws, LoseLock,
                 Look, Crash, Post, SignUp
  <1>2. ASSUME NEW f \in Forms, Acquire(f) PROVE LockInv'
    BY <1>1, <1>2 DEF Acquire, SetupTypeOK
  <1>3. ASSUME NEW f \in Forms, GiveUp(f) PROVE LockInv'
    BY <1>1, <1>3 DEF GiveUp, TimesOut, SetupTypeOK
  <1>4. ASSUME NEW f \in Forms, Check(f) PROVE LockInv'
    BY <1>1, <1>4 DEF Check, StillEmpty, SetupTypeOK
  <1>5. ASSUME NEW f \in Forms, CreateUser(f) PROVE LockInv'
    BY <1>1, <1>5 DEF CreateUser, SetupTypeOK
  <1>6. ASSUME NEW f \in Forms, CreateAccount(f) PROVE LockInv'
    BY <1>1, <1>6 DEF CreateAccount, SetupTypeOK
  <1>7. ASSUME NEW f \in Forms, Throws(f) PROVE LockInv'
    BY <1>1, <1>7 DEF Throws, Working, SetupTypeOK
  <1>8. ASSUME NEW f \in Forms, LoseLock(f) PROVE LockInv'
    BY <1>8 DEF LoseLock
  <1>9. ASSUME NEW p \in Processes, Crash(p) PROVE LockInv'
    BY <1>1, <1>9 DEF Crash, Working, SetupTypeOK
  <1>10. ASSUME NEW f \in Forms, NEW p \in Processes, Post(f, p) PROVE LockInv'
    BY <1>1, <1>10 DEF Post, SetupTypeOK
  <1>11. ASSUME NEW u \in SignUps, SignUp(u) PROVE LockInv'
    BY <1>1, <1>11 DEF SignUp
  <1>12. ASSUME NEW p \in Processes, Look(p) PROVE LockInv'
    BY <1>1, <1>12 DEF Look
  <1>13. CASE UNCHANGED setupVars
    BY <1>1, <1>13 DEF setupVars
  <1> QED
    BY <1>2, <1>3, <1>4, <1>5, <1>6, <1>7, <1>8, <1>9, <1>10, <1>11, <1>12, <1>13 DEF SetupNext

\* A user of the page is never left without a password unnoticed.
LEMMA PasswordStep ==
  ASSUME SetupAssumption, SetupTypeOK, PasswordInv, [SetupNext]_setupVars
  PROVE  PasswordInv'
  <1> USE DEF PasswordInv, To, Unlock
  <1>1. ASSUME NEW f \in Forms, Acquire(f) \/ GiveUp(f) \/ Check(f) \/ CreateUser(f) PROVE PasswordInv'
    BY <1>1 DEF Acquire, GiveUp, TimesOut, Check, CreateUser, SetupTypeOK
  <1>2. ASSUME NEW f \in Forms, CreateAccount(f) PROVE PasswordInv'
    BY <1>2 DEF CreateAccount, SetupTypeOK
  <1>3. ASSUME NEW f \in Forms, Throws(f) \/ LoseLock(f) PROVE PasswordInv'
    BY <1>3 DEF Throws, LoseLock, Working, SetupTypeOK
  <1>4. ASSUME NEW p \in Processes, Look(p) \/ Crash(p) PROVE PasswordInv'
    BY <1>4 DEF Look, Remembered, Crash, Working, SetupTypeOK
  <1>5. ASSUME NEW f \in Forms, NEW p \in Processes, Post(f, p) PROVE PasswordInv'
    BY <1>5 DEF Post, Remembered, SetupTypeOK
  <1>6. ASSUME NEW u \in SignUps, SignUp(u) PROVE PasswordInv'
    BY <1>6 DEF SignUp
  <1>7. CASE UNCHANGED setupVars
    BY <1>7 DEF setupVars
  <1> QED
    BY <1>1, <1>2, <1>3, <1>4, <1>5, <1>6, <1>7 DEF SetupNext

\* The invariant holds throughout.
LEMMA SetupInvariant == ASSUME SetupAssumption PROVE SetupSpec => []SetupInv
  <1>1. SetupInv /\ [SetupNext]_setupVars => SetupInv'
    BY SetupTypeStep, SetupLockStep, PasswordStep DEF SetupInv
  <1> QED
    BY <1>1, SetupInvInit, PTL DEF SetupSpec

-----------------------------------------------------------------------------
\* The variables of the set-up always have their types.
THEOREM SetupTypeCorrect == ASSUME SetupAssumption PROVE SetupSpec => []SetupTypeOK
  <1>1. SetupInv => SetupTypeOK
    BY DEF SetupInv
  <1> QED
    BY <1>1, SetupInvariant, PTL

\* However many forms are posted to however many instances, the page makes one
\* administrator as long as no connection is lost under the lock
\* (admin/first-user.ts createFirstUser).
THEOREM OneAdministrator == ASSUME SetupAssumption PROVE SetupSpec => []OneFirstUser
  <1>1. SetupInv => OneFirstUser
    BY DEF SetupInv, LockInv, OneFirstUser
  <1> QED
    BY <1>1, SetupInvariant, PTL

\* Whatever fails, set-up closes to everybody only with an administrator who can
\* sign in, a registration, or a form that ended between its two statements
\* (isSetupPending, createFirstUser).
THEOREM ClosedWithAnAdmin == ASSUME SetupAssumption PROVE SetupSpec => []ClosedSetupHasAnAdmin
  <1>1. SetupInv => ClosedSetupHasAnAdmin
    BY DEF SetupInv, PasswordInv, SetupTypeOK, ClosedSetupHasAnAdmin
  <1> QED
    BY <1>1, SetupInvariant, PTL

-----------------------------------------------------------------------------
(* The forced change of a password. *)

\* Why the wall stands: a temporary password whose administrator got through,
\* and that no change of the user's outran, finds the flag up; and no change
\* that was between its writes when it was set can take it down.
WallInv ==
    password.temporary /\ password.n \notin outrun =>
        /\ flag \/ Unfinished
        /\ \A v \in Visits : visit[v].pc # "written"

\* Why a change leaves nothing behind: every session that is not late was
\* opened with the password in force, and what a change has written is in force
\* or has been replaced.
SettledInv ==
    /\ settled <= password.n
    /\ \A v \in Visits : visit[v].pc \in {"verified", "written", "cleared"} =>
            visit[v].with <= password.n
    /\ ReplacedPasswordsOpenNothing

ForcedInv == ForcedTypeOK /\ WallInv /\ SettledInv

-----------------------------------------------------------------------------
\* The records the actions write are of their types.
LEMMA RecordTypes ==
  ASSUME ForcedAssumption, ForcedTypeOK
  PROVE  /\ \A n \in 0..MaxPasswords, b \in BOOLEAN : [n |-> n, temporary |-> b] \in PasswordRecords
         /\ AwayVisit \in VisitRecords
         /\ \A n \in 0..MaxPasswords : NewSession(n) \in SessionRecords
         /\ \A n \in 0..MaxPasswords, b \in BOOLEAN, pc \in Stages, s \in Sessions \cup {NoSession} :
                [pc |-> pc, seen |-> b, own |-> s, with |-> n] \in VisitRecords
  <1>1. 0 \in 0..MaxPasswords
    BY DEF ForcedAssumption
  <1>2. AwayVisit \in VisitRecords
    BY <1>1, Zenon DEF AwayVisit, VisitRecords, Stages
  <1>3. \A n \in 0..MaxPasswords : NewSession(n) \in SessionRecords
    <2>1. password.n \in 0..MaxPasswords
      BY Zenon DEF ForcedTypeOK, PasswordRecords
    <2> QED
      BY <2>1, Zenon DEF NewSession, SessionRecords
  <1>4. \A n \in 0..MaxPasswords, b \in BOOLEAN : [n |-> n, temporary |-> b] \in PasswordRecords
    BY Zenon DEF PasswordRecords
  <1>5. \A n \in 0..MaxPasswords, b \in BOOLEAN, pc \in Stages, s \in Sessions \cup {NoSession} :
            [pc |-> pc, seen |-> b, own |-> s, with |-> n] \in VisitRecords
    BY Zenon DEF VisitRecords
  <1> QED
    BY <1>2, <1>3, <1>4, <1>5

LEMMA ForcedInvInit == ASSUME ForcedAssumption PROVE ForcedInit => ForcedInv
  <1> SUFFICES ASSUME ForcedInit PROVE ForcedInv
    OBVIOUS
  <1>1. ForcedTypeOK
    <2>1. AwayVisit \in VisitRecords
      BY 0 \in 0..MaxPasswords, Zenon DEF AwayVisit, VisitRecords, Stages
    <2>2. password \in PasswordRecords /\ flag \in BOOLEAN
      BY 0 \in 0..MaxPasswords, Zenon DEF ForcedInit, PasswordRecords
    <2> QED
      BY <2>1, <2>2 DEF ForcedInit, ForcedTypeOK, ForcedAssumption
  <1>2. WallInv /\ SettledInv
    BY DEF ForcedInit, WallInv, SettledInv, AwayVisit, ReplacedPasswordsOpenNothing
  <1> QED
    BY <1>1, <1>2 DEF ForcedInv

\* An identifier that is free is found.
LEMMA FreeSessionIsFree ==
  ASSUME NEW s \in Sessions, session[s] = NoSession
  PROVE  FreeSession \in Sessions /\ session[FreeSession] = NoSession
  BY DEF FreeSession

\* Every step keeps the variables well typed.
LEMMA ForcedTypeStep ==
  ASSUME ForcedAssumption, ForcedTypeOK, SettledInv, [ForcedNext]_forcedVars
  PROVE  ForcedTypeOK'
  <1> USE DEF ForcedTypeOK, ForcedAssumption, Stages, VisitRecords, Leaves
  <1>1. ASSUME NEW v \in Visits, ReadAccount(v) \/ Gate(v) \/ Act(v) \/ Breaks(v)
        PROVE  ForcedTypeOK'
    <2>1. password.n \in 0..MaxPasswords
      BY Zenon DEF PasswordRecords
    <2>2. CASE ReadAccount(v)
      <3>1. visit' = [visit EXCEPT ![v] =
                [pc |-> "verified", seen |-> flag, own |-> NoSession, with |-> password.n]]
        BY <2>2 DEF ReadAccount
      <3>2. [pc |-> "verified", seen |-> flag, own |-> NoSession, with |-> password.n] \in VisitRecords
        BY <2>1, Zenon
      <3>3. visit' \in [Visits -> VisitRecords]
        BY <3>1, <3>2, Zenon
      <3> QED
        BY <2>2, <3>3 DEF ReadAccount
    <2>3. CASE Gate(v) \/ Act(v) \/ Breaks(v)
      <3> HIDE DEF VisitRecords
      <3>1. [AwayVisit EXCEPT !.pc = "passed"] \in VisitRecords
        BY RecordTypes, Zenon DEF VisitRecords, Stages
      <3>2. visit' \in [Visits -> VisitRecords]
        BY <2>3, <3>1, RecordTypes, Zenon DEF Gate, Act, Breaks
      <3>3. UNCHANGED <<password, flag, session, setter, outrun, settled>>
        BY <2>3, Zenon DEF Gate, Act, Breaks
      <3> QED
        BY <3>2, <3>3
    <2> QED
      BY <1>1, <2>2, <2>3
  <1>2. ASSUME NEW v \in Visits, OpenSession(v) PROVE ForcedTypeOK'
    <2>1. FreeSession \in Sessions
      BY <1>2, FreeSessionIsFree DEF OpenSession
    <2>2. session' \in [Sessions -> SessionRecords \cup {NoSession}]
      BY <1>2, <2>1, RecordTypes DEF OpenSession
    <2> QED
      BY <1>2, <2>1, <2>2, RecordTypes DEF OpenSession
  <1>3. ASSUME NEW v \in Visits, NEW s \in Sessions, Arrive(v, s) PROVE ForcedTypeOK'
    BY <1>3 DEF Arrive
  <1>4. ASSUME NEW v \in Visits, WritePassword(v) PROVE ForcedTypeOK'
    <2>1. password.n + 1 \in 0..MaxPasswords
      BY <1>4 DEF WritePassword, PasswordRecords
    <2>2. password' \in PasswordRecords
      BY <1>4, <2>1, RecordTypes DEF WritePassword
    <2> QED
      BY <1>4, <2>1, <2>2 DEF WritePassword
  <1>5. ASSUME NEW v \in Visits, ClearMustChangePassword(v) PROVE ForcedTypeOK'
    BY <1>5 DEF ClearMustChangePassword
  <1>6. ASSUME NEW v \in Visits, EndSessions(v) PROVE ForcedTypeOK'
    <2>1. session' \in [Sessions -> SessionRecords \cup {NoSession}]
      BY <1>6, RecordTypes DEF EndSessions
    <2> QED
      BY <1>6, <2>1, RecordTypes DEF EndSessions
  <1>7. ASSUME NEW s \in Sessions, EndSession(s) PROVE ForcedTypeOK'
    BY <1>7 DEF EndSession
  <1>8. ASSUME NEW a \in Setters, SetUserPassword(a) \/ RaiseFlag(a) \/ FlagCallFails(a)
        PROVE  ForcedTypeOK'
    <2>1. CASE SetUserPassword(a)
      <3>1. password.n + 1 \in 1..MaxPasswords
        BY <2>1 DEF SetUserPassword, PasswordRecords
      <3>2. password' \in PasswordRecords
        <4>1. password.n + 1 \in 0..MaxPasswords
          BY <3>1
        <4>2. [n |-> password.n + 1, temporary |-> TRUE] \in PasswordRecords
          BY <4>1, Zenon DEF PasswordRecords
        <4> QED
          BY <2>1, <4>2, Zenon DEF SetUserPassword
      <3>3. setter' \in [Setters -> [pc : {"new", "set", "done", "failed"}, n : 0..MaxPasswords]]
        BY <2>1, <3>1 DEF SetUserPassword
      <3>4. outrun' \subseteq 1..MaxPasswords
        BY <2>1, <3>1 DEF SetUserPassword
      <3>5. UNCHANGED <<flag, session, visit, settled>>
        BY <2>1, Zenon DEF SetUserPassword
      <3> HIDE DEF VisitRecords
      <3> QED
        BY <3>2, <3>3, <3>4, <3>5
    <2>2. CASE RaiseFlag(a) \/ FlagCallFails(a)
      <3>1. setter' \in [Setters -> [pc : {"new", "set", "done", "failed"}, n : 0..MaxPasswords]]
        BY <2>2 DEF RaiseFlag, FlagCallFails
      <3>2. flag' \in BOOLEAN /\ UNCHANGED <<password, session, visit, outrun, settled>>
        BY <2>2, Zenon DEF RaiseFlag, FlagCallFails
      <3> HIDE DEF VisitRecords
      <3> QED
        BY <3>1, <3>2
    <2> QED
      BY <1>8, <2>1, <2>2
  <1>9. CASE UNCHANGED forcedVars
    BY <1>9 DEF forcedVars
  <1> QED
    BY <1>1, <1>2, <1>3, <1>4, <1>5, <1>6, <1>7, <1>8, <1>9 DEF ForcedNext

\* Every step keeps the wall standing.
LEMMA WallStep ==
  ASSUME ForcedAssumption, ForcedTypeOK, WallInv, [ForcedNext]_forcedVars
  PROVE  WallInv'
  <1> USE DEF ForcedTypeOK, ForcedAssumption, WallInv, Unfinished, VisitRecords, PasswordRecords, AwayVisit, Leaves
  <1>1. ASSUME NEW v \in Visits,
               ReadAccount(v) \/ OpenSession(v) \/ Gate(v) \/ Act(v) \/ EndSessions(v) \/ Breaks(v)
        PROVE  WallInv'
    BY <1>1 DEF ReadAccount, OpenSession, Gate, Act, EndSessions, Breaks
  <1>2. ASSUME NEW v \in Visits, NEW s \in Sessions, Arrive(v, s) PROVE WallInv'
    BY <1>2 DEF Arrive
  <1>3. ASSUME NEW v \in Visits, WritePassword(v) PROVE WallInv'
    BY <1>3 DEF WritePassword
  <1>4. ASSUME NEW v \in Visits, ClearMustChangePassword(v) PROVE WallInv'
    BY <1>4 DEF ClearMustChangePassword
  <1>5. ASSUME NEW s \in Sessions, EndSession(s) PROVE WallInv'
    BY <1>5 DEF EndSession
  <1>6. ASSUME NEW a \in Setters, SetUserPassword(a) PROVE WallInv'
    BY <1>6 DEF SetUserPassword
  <1>7. ASSUME NEW a \in Setters, RaiseFlag(a) \/ FlagCallFails(a) PROVE WallInv'
    BY <1>7 DEF RaiseFlag, FlagCallFails
  <1>8. CASE UNCHANGED forcedVars
    BY <1>8 DEF forcedVars
  <1> QED
    BY <1>1, <1>2, <1>3, <1>4, <1>5, <1>6, <1>7, <1>8 DEF ForcedNext

\* Every step leaves only late sessions behind the newest change.
LEMMA SettledStep ==
  ASSUME ForcedAssumption, ForcedTypeOK, SettledInv, [ForcedNext]_forcedVars
  PROVE  SettledInv'
  <1> USE DEF ForcedTypeOK, ForcedAssumption, SettledInv, ReplacedPasswordsOpenNothing,
              VisitRecords, SessionRecords, PasswordRecords, Late, AwayVisit, Leaves, NewSession
  <1>1. ASSUME NEW v \in Visits, ReadAccount(v) \/ Gate(v) \/ Act(v) \/ Breaks(v)
        PROVE  SettledInv'
    BY <1>1 DEF ReadAccount, Gate, Act, Breaks
  <1>2. ASSUME NEW v \in Visits, OpenSession(v) PROVE SettledInv'
    <2>1. FreeSession \in Sessions
      BY <1>2, FreeSessionIsFree DEF OpenSession
    <2>2. \A s \in Sessions : session'[s] =
            IF s = FreeSession THEN NewSession(visit[v].with) ELSE session[s]
      BY <1>2, <2>1 DEF OpenSession
    <2>3. ReplacedPasswordsOpenNothing'
      BY <1>2, <2>2 DEF OpenSession
    <2> QED
      BY <1>2, <2>3 DEF OpenSession
  <1>3. ASSUME NEW v \in Visits, NEW s \in Sessions, Arrive(v, s) PROVE SettledInv'
    BY <1>3 DEF Arrive
  <1>4. ASSUME NEW v \in Visits, WritePassword(v) PROVE SettledInv'
    BY <1>4 DEF WritePassword
  <1>5. ASSUME NEW v \in Visits, ClearMustChangePassword(v) PROVE SettledInv'
    BY <1>5 DEF ClearMustChangePassword
  <1>6. ASSUME NEW v \in Visits, EndSessions(v) PROVE SettledInv'
    <2>1. \A s \in Sessions : session'[s] \in {NoSession, NewSession(visit[v].with)}
      BY <1>6 DEF EndSessions, Revoked
    <2>2. settled' <= password.n
      BY <1>6 DEF EndSessions
    <2>3. ReplacedPasswordsOpenNothing'
      BY <1>6, <2>1, <2>2 DEF EndSessions
    <2> QED
      BY <1>6, <2>2, <2>3 DEF EndSessions
  <1>7. ASSUME NEW s \in Sessions, EndSession(s) PROVE SettledInv'
    BY <1>7 DEF EndSession
  <1>8. ASSUME NEW a \in Setters, SetUserPassword(a) \/ RaiseFlag(a) \/ FlagCallFails(a)
        PROVE  SettledInv'
    BY <1>8 DEF SetUserPassword, RaiseFlag, FlagCallFails
  <1>9. CASE UNCHANGED forcedVars
    BY <1>9 DEF forcedVars
  <1> QED
    BY <1>1, <1>2, <1>3, <1>4, <1>5, <1>6, <1>7, <1>8, <1>9 DEF ForcedNext

LEMMA ForcedInvariant == ASSUME ForcedAssumption PROVE ForcedSpec => []ForcedInv
  <1>1. ForcedInit => ForcedInv
    BY ForcedInvInit
  <1>2. ForcedInv /\ [ForcedNext]_forcedVars => ForcedInv'
    BY ForcedTypeStep, WallStep, SettledStep DEF ForcedInv
  <1> QED
    BY <1>1, <1>2, PTL DEF ForcedSpec

-----------------------------------------------------------------------------
\* While the wall stands, what passes is a user with a password of their own: the
\* gates read the flag of the row (session-standing.ts, require-session.ts,
\* authorize.ts), and only the two gaps named leave it down.
THEOREM TemporaryPasswordStops ==
  ASSUME ForcedAssumption
  PROVE  ForcedSpec => TemporaryPasswordBuysNothing
  <1>1. ForcedInv /\ [ForcedNext]_forcedVars =>
          [\A v \in Visits : Passes(v) =>
              ~password.temporary \/ Unfinished \/ password.n \in outrun]_forcedVars
    <2> SUFFICES ASSUME ForcedInv, ForcedNext, NEW v \in Visits, Passes(v)
                 PROVE  ~password.temporary \/ Unfinished \/ password.n \in outrun
      OBVIOUS
    <2> USE DEF Passes, ForcedInv, ForcedTypeOK, VisitRecords, PasswordRecords, AwayVisit, Leaves
    <2>1. ~flag
      <3>1. ASSUME NEW w \in Visits, Gate(w) PROVE ~flag
        BY <3>1 DEF Gate, MustChange
      <3>2. ASSUME NEW w \in Visits,
                   ReadAccount(w) \/ OpenSession(w) \/ Act(w) \/ WritePassword(w)
                   \/ ClearMustChangePassword(w) \/ EndSessions(w) \/ Breaks(w)
            PROVE  FALSE
        BY <3>2 DEF ReadAccount, OpenSession, Act, WritePassword, ClearMustChangePassword,
                    EndSessions, Breaks
      <3>3. ASSUME NEW w \in Visits, NEW s \in Sessions, Arrive(w, s) PROVE FALSE
        BY <3>3 DEF Arrive
      <3>4. ASSUME NEW s \in Sessions, EndSession(s) PROVE FALSE
        BY <3>4 DEF EndSession
      <3>5. ASSUME NEW a \in Setters, SetUserPassword(a) \/ RaiseFlag(a) \/ FlagCallFails(a)
            PROVE  FALSE
        BY <3>5 DEF SetUserPassword, RaiseFlag, FlagCallFails
      <3> QED
        BY <3>1, <3>2, <3>3, <3>4, <3>5 DEF ForcedNext
    <2> QED
      BY <2>1 DEF WallInv
  <1> QED
    BY <1>1, ForcedInvariant, PTL DEF ForcedSpec, TemporaryPasswordBuysNothing

\* A change or a reset that is through leaves no session of an earlier password,
\* but the late ones (change-password.ts: revokeOtherSessions).
THEOREM ReplacedPasswordsEnd ==
  ASSUME ForcedAssumption
  PROVE  ForcedSpec => []ReplacedPasswordsOpenNothing
  <1>1. ForcedInv => ReplacedPasswordsOpenNothing
    BY DEF ForcedInv, SettledInv
  <1> QED
    BY <1>1, ForcedInvariant, PTL
-----------------------------------------------------------------------------
(* Standing: why a bar bites in time.                                      *)

\* The moments of a sign-in and of a bar, in their order.
MomentsInv ==
    /\ minute \in Nat
    /\ barred <=> barredAt # NoTime
    /\ barredAt # NoTime => barredAt \in Nat /\ barredAt <= minute
    /\ \A b \in Browsers :
        /\ browser[b].since \in Nat /\ browser[b].copied \in Nat /\ browser[b].copied <= minute
        /\ browser[b].pc \in {"read", "gated"} =>
            browser[b].since <= minute /\ minute <= browser[b].since + SignInTime
        /\ browser[b].ended # NoTime => browser[b].ended \in Nat

\* A copy that says the user may sign in was made at most a sign-in's time after
\* a bar, and no copy is made of a row that has gone.
CopiesInv == \A b \in Browsers :
    /\ browser[b].pc \in {"read", "gated"} /\ browser[b].seen /\ barred => browser[b].since <= barredAt
    /\ browser[b].pc = "in" /\ browser[b].seen /\ barred => browser[b].copied <= barredAt + SignInTime
    /\ browser[b].ended # NoTime => browser[b].pc = "in" /\ browser[b].copied <= browser[b].ended

\* What would be admitted now has met the condition already.
AsksInv == \A q \in Asks : ask[q].pc = "asked" =>
    /\ ask[q].kind # "key" => browser[ask[q].from].pc = "in"
    /\ ~barred /\ (ask[q].kind = "key" \/ HasRow(ask[q].from)) => ask[q].met

BrowserRecords == [pc : {"out", "read", "gated", "in"}, since : 0..MaxMinute, seen : BOOLEAN,
                   copied : 0..MaxMinute, ended : (0..MaxMinute) \cup {NoTime}]
AskRecords == [pc : {"none", "asked", "passed"}, kind : {"page", "form", "key"},
               from : Browsers, met : BOOLEAN]

StandingInv == StandingTypeOK /\ MomentsInv /\ CopiesInv /\ AsksInv

LEMMA StandingInit0 == ASSUME StandingAssumption PROVE StandingInit => StandingInv
  <1> SUFFICES ASSUME StandingInit PROVE StandingInv
    OBVIOUS
  <1>1. PICK c \in Browsers : ask = [q \in Asks |-> NoAsk(c)]
    BY DEF StandingInit
  <1>2. 0 \in 0..MaxMinute /\ NoTime # 0 /\ barred = FALSE /\ barredAt = NoTime /\ minute = 0
    BY DEF StandingInit, StandingAssumption
  <1>3. browser = [b \in Browsers |-> NewBrowser]
    BY DEF StandingInit
  <1>4. StandingTypeOK
    <2>1. browser \in [Browsers -> BrowserRecords]
      BY <1>2, <1>3 DEF NewBrowser, BrowserRecords
    <2>2. ask \in [Asks -> AskRecords]
      BY <1>1 DEF NoAsk, AskRecords
    <2>3. \A b \in Browsers : browser[b].ended # NoTime => browser[b].pc = "in"
      BY <1>3 DEF NewBrowser
    <2>4. barring \in [Bars -> {"new", "written", "done"}]
      BY DEF StandingInit
    <2> QED
      BY <1>2, <2>1, <2>2, <2>3, <2>4 DEF StandingTypeOK, BrowserRecords, AskRecords
  <1>5. MomentsInv /\ CopiesInv
    BY <1>2, <1>3 DEF MomentsInv, CopiesInv, NewBrowser
  <1>6. AsksInv
    BY <1>1 DEF AsksInv, NoAsk
  <1> QED
    BY <1>4, <1>5, <1>6 DEF StandingInv

LEMMA SignInReadsStep == ASSUME StandingAssumption, StandingInv, NEW b \in Browsers, SignInReads(b) PROVE StandingInv'
  <1>1. StandingTypeOK'
    <2>1. 0 \in 0..MaxMinute /\ minute \in 0..MaxMinute /\ barred \in BOOLEAN
      BY DEF StandingAssumption, StandingInv, StandingTypeOK
    <2>2. [NewBrowser EXCEPT !.pc = "read", !.since = minute, !.seen = ~barred] \in BrowserRecords
      BY <2>1 DEF NewBrowser, BrowserRecords
    <2>3. browser \in [Browsers -> BrowserRecords]
      BY DEF StandingInv, StandingTypeOK, BrowserRecords
    <2>4. browser' \in [Browsers -> BrowserRecords]
      BY <2>2, <2>3 DEF SignInReads
    <2>5. \A c \in Browsers : browser'[c].ended # NoTime => browser'[c].pc = "in"
      BY <2>3 DEF SignInReads, NewBrowser, StandingInv, StandingTypeOK
    <2> QED
      BY <2>4, <2>5 DEF SignInReads, StandingInv, StandingTypeOK, BrowserRecords
  <1>2. MomentsInv'
    BY DEF StandingAssumption, StandingInv, StandingTypeOK, MomentsInv, CopiesInv, AsksInv, HasRow, SignInReads, NewBrowser
  <1>3. CopiesInv'
    BY DEF StandingAssumption, StandingInv, StandingTypeOK, MomentsInv, CopiesInv, AsksInv, HasRow, SignInReads, NewBrowser
  <1>4. AsksInv'
    BY DEF StandingAssumption, StandingInv, StandingTypeOK, MomentsInv, CopiesInv, AsksInv, HasRow, SignInReads, NewBrowser
  <1> QED
    BY <1>1, <1>2, <1>3, <1>4 DEF StandingInv

LEMMA GatedStep == ASSUME StandingAssumption, StandingInv, NEW b \in Browsers, Gated(b) PROVE StandingInv'
  <1>1. StandingTypeOK'
    BY DEF StandingAssumption, StandingInv, StandingTypeOK, HasRow, Gated, NewBrowser
  <1>2. MomentsInv'
    BY DEF StandingAssumption, StandingInv, StandingTypeOK, MomentsInv, CopiesInv, AsksInv, HasRow, Gated, NewBrowser
  <1>3. CopiesInv'
    BY DEF StandingAssumption, StandingInv, StandingTypeOK, MomentsInv, CopiesInv, AsksInv, HasRow, Gated, NewBrowser
  <1>4. AsksInv'
    BY DEF StandingAssumption, StandingInv, StandingTypeOK, MomentsInv, CopiesInv, AsksInv, HasRow, Gated, NewBrowser
  <1> QED
    BY <1>1, <1>2, <1>3, <1>4 DEF StandingInv

LEMMA SessionOpensStep == ASSUME StandingAssumption, StandingInv, NEW b \in Browsers, SessionOpens(b) PROVE StandingInv'
  <1>1. StandingTypeOK'
    <2>1. 0 \in 0..MaxMinute /\ minute \in 0..MaxMinute
      BY DEF StandingAssumption, StandingInv, StandingTypeOK
    <2>2. browser \in [Browsers -> BrowserRecords]
      BY DEF StandingInv, StandingTypeOK, BrowserRecords
    <2>3. browser' = [browser EXCEPT ![b] = [browser[b] EXCEPT !.pc = "in", !.since = 0, !.copied = minute]]
      BY <2>2 DEF SessionOpens, BrowserRecords
    <2>4. [browser[b] EXCEPT !.pc = "in", !.since = 0, !.copied = minute] \in BrowserRecords
      BY <2>1, <2>2 DEF BrowserRecords
    <2>5. browser' \in [Browsers -> BrowserRecords]
      BY <2>2, <2>3, <2>4
    <2>6. \A c \in Browsers : browser'[c].ended # NoTime => browser'[c].pc = "in"
      BY <2>2, <2>3 DEF StandingInv, StandingTypeOK, BrowserRecords
    <2> QED
      BY <2>5, <2>6 DEF SessionOpens, StandingInv, StandingTypeOK, BrowserRecords
  <1>2. MomentsInv'
    BY DEF StandingAssumption, StandingInv, StandingTypeOK, MomentsInv, CopiesInv, AsksInv, HasRow, SessionOpens
  <1>3. CopiesInv'
    BY DEF StandingAssumption, StandingInv, StandingTypeOK, MomentsInv, CopiesInv, AsksInv, HasRow, SessionOpens
  <1>4. AsksInv'
    BY DEF StandingAssumption, StandingInv, StandingTypeOK, MomentsInv, CopiesInv, AsksInv, HasRow, SessionOpens
  <1> QED
    BY <1>1, <1>2, <1>3, <1>4 DEF StandingInv

LEMMA SessionRevokedStep == ASSUME StandingAssumption, StandingInv, NEW b \in Browsers, SessionRevoked(b) PROVE StandingInv'
  <1>1. StandingTypeOK'
    BY DEF StandingAssumption, StandingInv, StandingTypeOK, HasRow, SessionRevoked, Ended
  <1>2. MomentsInv'
    BY DEF StandingAssumption, StandingInv, StandingTypeOK, MomentsInv, CopiesInv, AsksInv, HasRow, SessionRevoked, Ended
  <1>3. CopiesInv'
    BY DEF StandingAssumption, StandingInv, StandingTypeOK, MomentsInv, CopiesInv, AsksInv, HasRow, SessionRevoked, Ended
  <1>4. AsksInv'
    BY DEF StandingAssumption, StandingInv, StandingTypeOK, MomentsInv, CopiesInv, AsksInv, HasRow, SessionRevoked, Ended
  <1> QED
    BY <1>1, <1>2, <1>3, <1>4 DEF StandingInv

LEMMA AskComesStep == ASSUME StandingAssumption, StandingInv, NEW q \in Asks, NEW b \in Browsers, NEW k \in {"page", "form", "key"}, AskComes(q, b, k) PROVE StandingInv'
  <1>1. StandingTypeOK'
    BY DEF StandingAssumption, StandingInv, StandingTypeOK, HasRow, AskComes
  <1>2. MomentsInv'
    BY DEF StandingAssumption, StandingInv, StandingTypeOK, MomentsInv, CopiesInv, AsksInv, HasRow, AskComes
  <1>3. CopiesInv'
    BY DEF StandingAssumption, StandingInv, StandingTypeOK, MomentsInv, CopiesInv, AsksInv, HasRow, AskComes
  <1>4. AsksInv'
    BY DEF StandingAssumption, StandingInv, StandingTypeOK, MomentsInv, CopiesInv, AsksInv, HasRow, AskComes
  <1> QED
    BY <1>1, <1>2, <1>3, <1>4 DEF StandingInv

LEMMA RepliedStep == ASSUME StandingAssumption, StandingInv, NEW q \in Asks, Replied(q) PROVE StandingInv'
  <1>1. StandingTypeOK'
    BY DEF StandingAssumption, StandingInv, StandingTypeOK, HasRow, Replied, Recopied
  <1>2. MomentsInv'
    BY DEF StandingAssumption, StandingInv, StandingTypeOK, MomentsInv, CopiesInv, AsksInv, HasRow, Replied, Recopied
  <1>3. CopiesInv'
    BY DEF StandingAssumption, StandingInv, StandingTypeOK, MomentsInv, CopiesInv, AsksInv, HasRow, Replied, Recopied
  <1>4. AsksInv'
    BY DEF StandingAssumption, StandingInv, StandingTypeOK, MomentsInv, CopiesInv, AsksInv, HasRow, Replied, Recopied
  <1> QED
    BY <1>1, <1>2, <1>3, <1>4 DEF StandingInv

LEMMA AskDoneStep == ASSUME StandingAssumption, StandingInv, NEW q \in Asks, AskDone(q) PROVE StandingInv'
  <1>1. StandingTypeOK'
    BY DEF StandingAssumption, StandingInv, StandingTypeOK, HasRow, AskDone
  <1>2. MomentsInv'
    BY DEF StandingAssumption, StandingInv, StandingTypeOK, MomentsInv, CopiesInv, AsksInv, HasRow, AskDone
  <1>3. CopiesInv'
    BY DEF StandingAssumption, StandingInv, StandingTypeOK, MomentsInv, CopiesInv, AsksInv, HasRow, AskDone
  <1>4. AsksInv'
    BY DEF StandingAssumption, StandingInv, StandingTypeOK, MomentsInv, CopiesInv, AsksInv, HasRow, AskDone
  <1> QED
    BY <1>1, <1>2, <1>3, <1>4 DEF StandingInv

LEMMA BarUserStep == ASSUME StandingAssumption, StandingInv, NEW a \in Bars, BarUser(a) PROVE StandingInv'
  <1>1. StandingTypeOK'
    BY DEF StandingAssumption, StandingInv, StandingTypeOK, HasRow, BarUser, Bar
  <1>2. MomentsInv'
    BY DEF StandingAssumption, StandingInv, StandingTypeOK, MomentsInv, CopiesInv, AsksInv, HasRow, BarUser, Bar
  <1>3. CopiesInv'
    BY DEF StandingAssumption, StandingInv, StandingTypeOK, MomentsInv, CopiesInv, AsksInv, HasRow, BarUser, Bar
  <1>4. AsksInv'
    BY DEF StandingAssumption, StandingInv, StandingTypeOK, MomentsInv, CopiesInv, AsksInv, HasRow, BarUser, Bar
  <1> QED
    BY <1>1, <1>2, <1>3, <1>4 DEF StandingInv

LEMMA EndUserSessionsStep == ASSUME StandingAssumption, StandingInv, NEW a \in Bars, EndUserSessions(a) PROVE StandingInv'
  <1>1. StandingTypeOK'
    BY DEF StandingAssumption, StandingInv, StandingTypeOK, HasRow, EndUserSessions, Ended
  <1>2. MomentsInv'
    BY DEF StandingAssumption, StandingInv, StandingTypeOK, MomentsInv, CopiesInv, AsksInv, HasRow, EndUserSessions, Ended
  <1>3. CopiesInv'
    BY DEF StandingAssumption, StandingInv, StandingTypeOK, MomentsInv, CopiesInv, AsksInv, HasRow, EndUserSessions, Ended
  <1>4. AsksInv'
    BY DEF StandingAssumption, StandingInv, StandingTypeOK, MomentsInv, CopiesInv, AsksInv, HasRow, EndUserSessions, Ended
  <1> QED
    BY <1>1, <1>2, <1>3, <1>4 DEF StandingInv

LEMMA BarringFailsStep == ASSUME StandingAssumption, StandingInv, NEW a \in Bars, BarringFails(a) PROVE StandingInv'
  <1>1. StandingTypeOK'
    BY DEF StandingAssumption, StandingInv, StandingTypeOK, HasRow, BarringFails
  <1>2. MomentsInv'
    BY DEF StandingAssumption, StandingInv, StandingTypeOK, MomentsInv, CopiesInv, AsksInv, HasRow, BarringFails
  <1>3. CopiesInv'
    BY DEF StandingAssumption, StandingInv, StandingTypeOK, MomentsInv, CopiesInv, AsksInv, HasRow, BarringFails
  <1>4. AsksInv'
    BY DEF StandingAssumption, StandingInv, StandingTypeOK, MomentsInv, CopiesInv, AsksInv, HasRow, BarringFails
  <1> QED
    BY <1>1, <1>2, <1>3, <1>4 DEF StandingInv

LEMMA WriteStatusStep == ASSUME StandingAssumption, StandingInv, NEW a \in Bars, WriteStatus(a) PROVE StandingInv'
  <1>1. StandingTypeOK'
    BY DEF StandingAssumption, StandingInv, StandingTypeOK, HasRow, WriteStatus, Bar
  <1>2. MomentsInv'
    BY DEF StandingAssumption, StandingInv, StandingTypeOK, MomentsInv, CopiesInv, AsksInv, HasRow, WriteStatus, Bar
  <1>3. CopiesInv'
    BY DEF StandingAssumption, StandingInv, StandingTypeOK, MomentsInv, CopiesInv, AsksInv, HasRow, WriteStatus, Bar
  <1>4. AsksInv'
    BY DEF StandingAssumption, StandingInv, StandingTypeOK, MomentsInv, CopiesInv, AsksInv, HasRow, WriteStatus, Bar
  <1> QED
    BY <1>1, <1>2, <1>3, <1>4 DEF StandingInv

LEMMA RestoredStep == ASSUME StandingAssumption, StandingInv, NEW l \in BOOLEAN, Restored(l) PROVE StandingInv'
  <1> DEFINE Lapsed(b) == IF l /\ browser[b].pc # "out" THEN [browser[b] EXCEPT !.seen = TRUE] ELSE browser[b]
  <1> DEFINE Waits(q) == ask[q].pc = "asked" /\ (ask[q].kind = "key" \/ HasRow(ask[q].from))
  <1> DEFINE Marked(q) == [ask[q] EXCEPT !.met = ask[q].met \/ Waits(q)]
  <1>1. /\ browser \in [Browsers -> BrowserRecords] /\ ask \in [Asks -> AskRecords]
        /\ barred' = FALSE /\ barredAt' = NoTime
        /\ UNCHANGED <<barring, minute>>
    BY DEF StandingInv, StandingTypeOK, BrowserRecords, AskRecords, Restored
  <1>2. browser' = [b \in Browsers |-> Lapsed(b)] /\ ask' = [q \in Asks |-> Marked(q)]
    BY DEF Restored
  <1>3. ASSUME NEW b \in Browsers
        PROVE  /\ Lapsed(b) \in BrowserRecords
               /\ Lapsed(b).pc = browser[b].pc /\ Lapsed(b).since = browser[b].since
               /\ Lapsed(b).copied = browser[b].copied /\ Lapsed(b).ended = browser[b].ended
    BY <1>1 DEF BrowserRecords
  <1>4. ASSUME NEW q \in Asks
        PROVE  /\ Marked(q).pc = ask[q].pc /\ Marked(q).kind = ask[q].kind /\ Marked(q).from = ask[q].from
               /\ Marked(q).met = (ask[q].met \/ Waits(q))
    BY <1>1 DEF AskRecords
  <1>5. ASSUME NEW q \in Asks PROVE Marked(q) \in AskRecords
    <2>1. (ask[q].met \/ Waits(q)) \in BOOLEAN
      OBVIOUS
    <2> QED
      BY <1>1, <2>1 DEF AskRecords
  <1> HIDE DEF Lapsed, Marked
  <1>6. StandingTypeOK'
    <2>1. browser' \in [Browsers -> BrowserRecords] /\ ask' \in [Asks -> AskRecords]
      BY <1>2, <1>3, <1>5
    <2>2. \A b \in Browsers : browser'[b].ended # NoTime => browser'[b].pc = "in"
      BY <1>2, <1>3 DEF StandingInv, StandingTypeOK
    <2> QED
      BY <1>1, <2>1, <2>2 DEF StandingInv, StandingTypeOK, BrowserRecords, AskRecords
  <1>7. MomentsInv'
    BY <1>1, <1>2, <1>3 DEF StandingInv, MomentsInv
  <1>8. CopiesInv'
    BY <1>1, <1>2, <1>3 DEF StandingInv, CopiesInv
  <1>9. AsksInv'
    <2> SUFFICES ASSUME NEW q \in Asks, ask'[q].pc = "asked"
                 PROVE  /\ ask'[q].kind # "key" => browser'[ask'[q].from].pc = "in"
                        /\ (ask'[q].kind = "key" \/ (browser'[ask'[q].from].pc = "in" /\ browser'[ask'[q].from].ended = NoTime))
                             => ask'[q].met
      BY DEF AsksInv, HasRow
    <2>1. /\ ask[q].from \in Browsers /\ ask[q].pc = "asked"
          /\ ask'[q].kind = ask[q].kind /\ ask'[q].from = ask[q].from
          /\ ask'[q].met = (ask[q].met \/ Waits(q))
      BY <1>1, <1>2, <1>4 DEF AskRecords
    <2>2. (browser'[ask'[q].from].pc = "in" /\ browser'[ask'[q].from].ended = NoTime) <=> HasRow(ask[q].from)
      BY <2>1, <1>2, <1>3 DEF HasRow
    <2>3. ask'[q].kind # "key" => browser'[ask'[q].from].pc = "in"
      BY <2>1, <1>2, <1>3 DEF StandingInv, AsksInv
    <2> QED
      BY <2>1, <2>2, <2>3
  <1> QED
    BY <1>6, <1>7, <1>8, <1>9 DEF StandingInv

LEMMA MinutePassesStep == ASSUME StandingAssumption, StandingInv, MinutePasses PROVE StandingInv'
  <1>1. StandingTypeOK'
    BY DEF StandingAssumption, StandingInv, StandingTypeOK, HasRow, MinutePasses
  <1>2. MomentsInv'
    BY DEF StandingAssumption, StandingInv, StandingTypeOK, MomentsInv, CopiesInv, AsksInv, HasRow, MinutePasses
  <1>3. CopiesInv'
    BY DEF StandingAssumption, StandingInv, StandingTypeOK, MomentsInv, CopiesInv, AsksInv, HasRow, MinutePasses
  <1>4. AsksInv'
    BY DEF StandingAssumption, StandingInv, StandingTypeOK, MomentsInv, CopiesInv, AsksInv, HasRow, MinutePasses
  <1> QED
    BY <1>1, <1>2, <1>3, <1>4 DEF StandingInv

LEMMA StandingInvariant == ASSUME StandingAssumption PROVE StandingSpec => []StandingInv
  <1>1. StandingInit => StandingInv
    BY StandingInit0
  <1>2. StandingInv /\ [StandingNext]_standingVars => StandingInv'
    <2> SUFFICES ASSUME StandingInv, [StandingNext]_standingVars PROVE StandingInv'
      OBVIOUS
    <2>1. CASE StandingNext
      BY <2>1, SignInReadsStep, GatedStep, SessionOpensStep, SessionRevokedStep, AskComesStep,
         RepliedStep, AskDoneStep, BarUserStep, EndUserSessionsStep, BarringFailsStep, WriteStatusStep,
         RestoredStep, MinutePassesStep DEF StandingNext
    <2>2. CASE UNCHANGED standingVars
      BY <2>2 DEF standingVars, StandingInv, StandingTypeOK, MomentsInv, CopiesInv, AsksInv, HasRow
    <2> QED
      BY <2>1, <2>2
  <1> QED
    BY <1>1, <1>2, PTL DEF StandingSpec

\* Every variable of the standing always has its type.
THEOREM StandingTypeCorrect == StandingSpec => []StandingTypeOK
  <1>1. StandingInv => StandingTypeOK
    BY DEF StandingInv
  <1> QED
    BY <1>1, StandingInvariant, StandingAssumption, PTL

\* However a bar, its deletion of the sessions, sign-ins and requests fall: no
\* form and no key passes on what was over when it came, and a page only on a
\* copy of its time (http/require-session.ts, http/session.ts).
THEOREM BarsBite == StandingSpec => BarsBiteInTime
  <1>1. StandingInv /\ [StandingNext]_standingVars =>
        [\A q \in Asks : PassesNow(q) =>
            IF ask[q].kind # "page" THEN ask[q].met
            ELSE LET b == ask[q].from IN
                 /\ barred => minute < barredAt + CacheTime + SignInTime
                 /\ browser[b].ended # NoTime => minute < browser[b].ended + CacheTime]_standingVars
    <2> SUFFICES ASSUME StandingInv, StandingNext, NEW q \in Asks, PassesNow(q)
                 PROVE  IF ask[q].kind # "page" THEN ask[q].met
                        ELSE /\ barred => minute < barredAt + CacheTime + SignInTime
                             /\ browser[ask[q].from].ended # NoTime =>
                                    minute < browser[ask[q].from].ended + CacheTime
      OBVIOUS
    <2>1. Replied(q)
      <3>1. ask[q].pc = "asked" /\ ask'[q].pc = "passed" /\ ask \in [Asks -> AskRecords]
        BY DEF PassesNow, StandingInv, StandingTypeOK, AskRecords
      <3>2. ask' # ask
        BY <3>1
      <3>3. CASE \E l \in BOOLEAN : Restored(l)
        <4>1. ask'[q].pc = ask[q].pc
          BY <3>1, <3>3 DEF Restored, AskRecords
        <4> QED
          BY <3>1, <4>1
      <3>4. CASE \E p \in Asks : \/ \E b \in Browsers, k \in {"page", "form", "key"} : AskComes(p, b, k)
                               \/ Replied(p) \/ AskDone(p)
        <4>1. PICK p \in Asks : \/ \E b \in Browsers, k \in {"page", "form", "key"} : AskComes(p, b, k)
                              \/ Replied(p) \/ AskDone(p)
          BY <3>4
        <4>2. CASE p # q
          <5>1. ask'[q] = ask[q]
            BY <3>1, <4>1, <4>2 DEF AskComes, Replied, AskDone
          <5> QED
            BY <3>1, <5>1
        <4>3. CASE p = q
          BY <3>1, <4>1, <4>3 DEF AskComes, AskDone
        <4> QED
          BY <4>2, <4>3
      <3>5. CASE ask' = ask
        BY <3>2, <3>5
      <3> QED
        BY <3>3, <3>4, <3>5 DEF StandingNext, SignInReads, Gated, SessionOpens, SessionRevoked, BarUser,
           EndUserSessions, BarringFails, WriteStatus, MinutePasses
    <2>2. Granted(q)
      BY <2>1 DEF Replied, PassesNow, StandingInv, StandingTypeOK
    <2>3. CASE ByCopy(q)
      <3>1. /\ ask[q].kind = "page" /\ ask[q].pc = "asked" /\ ask[q].from \in Browsers
            /\ browser[ask[q].from].seen /\ browser[ask[q].from].pc = "in"
            /\ minute < browser[ask[q].from].copied + CacheTime
        BY <2>1, <2>2, <2>3 DEF Granted, ByCopy, Replied, StandingInv, StandingTypeOK, AsksInv
      <3> QED
        BY <3>1, StandingAssumption DEF StandingAssumption, StandingInv, MomentsInv, CopiesInv
    <2>4. CASE ~ByCopy(q)
      BY <2>1, <2>2, <2>4 DEF Granted, Replied, OfKey, OfRow, HasRow, StandingInv, StandingTypeOK, AsksInv
    <2> QED
      BY <2>3, <2>4
  <1> QED
    BY <1>1, StandingInvariant, StandingAssumption, PTL DEF StandingSpec, BarsBiteInTime

-----------------------------------------------------------------------------
(* Trusted devices: why a trust ends, and a clearing takes all.            *)

\* A row of a trust that nobody forked carries its date, and so does a sign-in
\* that replaces it: while it has only found the row, the row is there.
CeilingInv ==
    /\ \A c \in Cookies : trust[c] # NoRow /\ ~trust[c].past.forked =>
        /\ trust[c].first = trust[c].past.issued
        /\ trust[c].expires <= trust[c].first + MaxWindows * Days
    /\ \A s \in SignIns : signin[s].pc = "found" => signin[s].cookie \in Cookies
    /\ \A s \in SignIns : signin[s].pc = "found" /\ ~signin[s].past.forked =>
        /\ trust[signin[s].cookie] # NoRow
        /\ ~trust[signin[s].cookie].past.forked
        /\ trust[signin[s].cookie].past.issued = signin[s].past.issued
    /\ \A s \in SignIns : signin[s].pc = "deleted" /\ ~signin[s].past.forked =>
        signin[s].stash = signin[s].past.issued

\* What was given before the last clearing is in hand of an overtaken sign-in, or
\* comes of one.
ClearedInv ==
    /\ \A c \in Cookies : trust[c] # NoRow /\ trust[c].past.former => trust[c].past.escaped
    /\ \A s \in SignIns : signin[s].pc \in {"found", "deleted"} /\ signin[s].past.former =>
        signin[s].past.escaped

DevicesInv == DevicesTypeOK /\ CeilingInv /\ ClearedInv /\ NobodyIsLockedOut

SignInRecords == [pc : {"away", "found", "deleted", "asked", "in"}, cookie : Cookies \cup {NoRow},
                  stash : Int \cup {NoRow}, past : Past]

\* What losing its row does to a sign-in.
LEMMA RobbedIs ==
  ASSUME DevicesTypeOK, NEW gone, NEW s, NEW x \in SignIns
  PROVE  /\ Robbed(gone, s)[x] \in SignInRecords
         /\ Robbed(gone, s)[x].pc = signin[x].pc /\ Robbed(gone, s)[x].cookie = signin[x].cookie
         /\ Robbed(gone, s)[x].stash = signin[x].stash
         /\ Robbed(gone, s)[x].past.former = signin[x].past.former
         /\ Robbed(gone, s)[x].past.escaped = signin[x].past.escaped
         /\ x = s => Robbed(gone, s)[x] = signin[x]
         /\ ~Robbed(gone, s)[x].past.forked =>
              /\ Robbed(gone, s)[x] = signin[x]
              /\ x # s /\ signin[x].pc = "found" => signin[x].cookie \notin gone
  <1>1. signin[x] \in SignInRecords
    BY DEF DevicesTypeOK, SignInRecords
  <1>2. CASE x # s /\ signin[x].pc = "found" /\ signin[x].cookie \in gone
    <2>1. Robbed(gone, s)[x] = [signin[x] EXCEPT !.past = [signin[x].past EXCEPT !.forked = TRUE, !.issued = 0]]
      BY <1>1, <1>2 DEF Robbed, SignInRecords, Past
    <2>2. ASSUME NEW p \in Past
          PROVE  /\ [p EXCEPT !.forked = TRUE, !.issued = 0] \in Past
                 /\ [p EXCEPT !.forked = TRUE, !.issued = 0].former = p.former
                 /\ [p EXCEPT !.forked = TRUE, !.issued = 0].escaped = p.escaped
                 /\ [p EXCEPT !.forked = TRUE, !.issued = 0].forked = TRUE
      <3>1. [p EXCEPT !.forked = TRUE, !.issued = 0] = [[p EXCEPT !.forked = TRUE] EXCEPT !.issued = 0]
        BY DEF Past
      <3>2. /\ [p EXCEPT !.forked = TRUE] \in Past /\ [p EXCEPT !.forked = TRUE].forked = TRUE
            /\ [p EXCEPT !.forked = TRUE].former = p.former /\ [p EXCEPT !.forked = TRUE].escaped = p.escaped
        BY DEF Past
      <3>3. ASSUME NEW r \in Past
            PROVE  /\ [r EXCEPT !.issued = 0] \in Past /\ [r EXCEPT !.issued = 0].forked = r.forked
                   /\ [r EXCEPT !.issued = 0].former = r.former /\ [r EXCEPT !.issued = 0].escaped = r.escaped
        BY DEF Past
      <3> QED
        BY <3>1, <3>2, <3>3
    <2>3. signin[x].past \in Past
      BY <1>1 DEF SignInRecords
    <2> QED
      BY <1>1, <1>2, <2>1, <2>2, <2>3 DEF SignInRecords
  <1>3. CASE ~(x # s /\ signin[x].pc = "found" /\ signin[x].cookie \in gone)
    <2>1. Robbed(gone, s)[x] = signin[x]
      BY <1>3 DEF Robbed
    <2> QED
      BY <1>1, <1>3, <2>1
  <1> QED
    BY <1>2, <1>3

\* A clearing leaves no row, and marks every sign-in that is replacing one.
LEMMA ClearIs ==
  ASSUME DevicesTypeOK, Clear
  PROVE  /\ trust' = [c \in Cookies |-> NoRow]
         /\ signin' \in [SignIns -> SignInRecords]
         /\ \A x \in SignIns :
              /\ signin'[x].pc = signin[x].pc /\ signin'[x].cookie = signin[x].cookie
              /\ signin'[x].stash = signin[x].stash
              /\ signin[x].pc \in {"found", "deleted"} =>
                   /\ signin'[x].past.escaped
                   /\ ~signin'[x].past.forked =>
                        /\ ~signin[x].past.forked /\ signin'[x].past.issued = signin[x].past.issued
                        /\ signin[x].pc = "found" /\ x # NoRow => signin[x].cookie \notin OfUser
  <1>1. trust' = [c \in Cookies |-> NoRow]
    BY DEF Clear, Without, OfUser
  <1>2. ASSUME NEW x \in SignIns
        PROVE  /\ signin'[x] \in SignInRecords
               /\ signin'[x].pc = signin[x].pc /\ signin'[x].cookie = signin[x].cookie
               /\ signin'[x].stash = signin[x].stash
               /\ signin[x].pc \in {"found", "deleted"} =>
                    /\ signin'[x].past.escaped
                    /\ ~signin'[x].past.forked =>
                         /\ ~signin[x].past.forked /\ signin'[x].past.issued = signin[x].past.issued
                         /\ signin[x].pc = "found" /\ x # NoRow => signin[x].cookie \notin OfUser
    <2> DEFINE y == Robbed(OfUser, NoRow)[x]
    <2>1. signin[x] \in SignInRecords
      BY DEF DevicesTypeOK, SignInRecords
    <2>2. /\ y \in SignInRecords
          /\ y.pc = signin[x].pc /\ y.cookie = signin[x].cookie /\ y.stash = signin[x].stash
          /\ ~y.past.forked =>
              /\ y = signin[x]
              /\ x # NoRow /\ signin[x].pc = "found" => signin[x].cookie \notin OfUser
      BY RobbedIs
    <2>3. signin'[x] = IF signin[x].pc \in {"found", "deleted"}
                       THEN [y EXCEPT !.past.former = TRUE, !.past.escaped = TRUE] ELSE signin[x]
      BY DEF Clear
    <2> HIDE DEF y
    <2>4. CASE signin[x].pc \in {"found", "deleted"}
      <3>1. signin'[x] = [y EXCEPT !.past = [y.past EXCEPT !.former = TRUE, !.escaped = TRUE]]
        BY <2>2, <2>3, <2>4 DEF SignInRecords, Past
      <3>2. ASSUME NEW p \in Past
            PROVE  /\ [p EXCEPT !.former = TRUE, !.escaped = TRUE] \in Past
                   /\ [p EXCEPT !.former = TRUE, !.escaped = TRUE].issued = p.issued
                   /\ [p EXCEPT !.former = TRUE, !.escaped = TRUE].forked = p.forked
                   /\ [p EXCEPT !.former = TRUE, !.escaped = TRUE].escaped = TRUE
        BY DEF Past
      <3>3. y.past \in Past
        BY <2>2 DEF SignInRecords
      <3>4. signin'[x] \in SignInRecords /\ signin'[x].past = [y.past EXCEPT !.former = TRUE, !.escaped = TRUE]
            /\ signin'[x].pc = y.pc /\ signin'[x].cookie = y.cookie /\ signin'[x].stash = y.stash
        BY <2>2, <3>1, <3>2, <3>3 DEF SignInRecords
      <3> QED
        BY <2>2, <3>2, <3>3, <3>4
    <2>5. CASE signin[x].pc \notin {"found", "deleted"}
      BY <2>1, <2>3, <2>5
    <2> QED
      BY <2>4, <2>5
  <1>3. signin' \in [SignIns -> SignInRecords]
    <2>1. signin' = [x \in SignIns |-> signin'[x]]
      BY DEF Clear
    <2> QED
      BY <1>2, <2>1
  <1> QED
    BY <1>1, <1>2, <1>3

\* A new row, of whatever past.
LEMMA RowIs ==
  ASSUME DevicesAssumption, now \in Int, NEW first \in Int, NEW past \in Past
  PROVE  /\ Row(first, past) \in TrustRow /\ Row(first, past).first = first
         /\ Row(first, past).past = past
         /\ Row(first, past).expires <= first + MaxWindows * Days
  <1>1. Lesser(now + Days, first + MaxWindows * Days) \in Int
        /\ Lesser(now + Days, first + MaxWindows * Days) <= first + MaxWindows * Days
    BY DEF Lesser, MaxWindows, DevicesAssumption
  <1> QED
    BY <1>1 DEF Row, TrustRow

-----------------------------------------------------------------------------
LEMMA AwayIs == Away \in SignInRecords /\ Away.pc = "away" /\ [Away EXCEPT !.pc = "in"] \in SignInRecords
  <1>1. NewPast(0) \in Past
    BY DEF NewPast, Past
  <1> QED
    BY <1>1 DEF Away, SignInRecords

LEMMA DevicesInvInit == ASSUME DevicesAssumption PROVE DevicesInit => DevicesInv
  <1> SUFFICES ASSUME DevicesInit PROVE DevicesInv
    OBVIOUS
  <1>1. Away \in SignInRecords /\ Away.pc = "away"
    BY AwayIs
  <1>2. trust = [c \in Cookies |-> NoRow] /\ signin = [s \in SignIns |-> Away] /\ now = 0 /\ brokenOff = FALSE
    BY DEF DevicesInit
  <1>3. DevicesTypeOK
    <2>1. signin \in [SignIns -> SignInRecords] /\ trust \in [Cookies -> TrustRow \cup {NoRow}]
      BY <1>1, <1>2
    <2>2. reset \in [Resets -> {"new", "devices", "flag", "sessions", "done"}]
      BY DEF DevicesInit
    <2>3. enrolled \in BOOLEAN /\ enabled \in BOOLEAN /\ brokenOff \in BOOLEAN
      BY DEF DevicesInit
    <2> QED
      BY <1>2, <2>1, <2>2, <2>3 DEF DevicesTypeOK, SignInRecords
  <1>4. CeilingInv /\ ClearedInv
    BY <1>1, <1>2 DEF CeilingInv, ClearedInv
  <1>5. NobodyIsLockedOut
    BY DEF DevicesInit, NobodyIsLockedOut
  <1> QED
    BY <1>3, <1>4, <1>5 DEF DevicesInv

\* Every step keeps the variables well typed.
LEMMA DevicesTypeStep ==
  ASSUME DevicesAssumption, DevicesTypeOK, CeilingInv, [DevicesNext]_deviceVars
  PROVE  DevicesTypeOK'
  <1>1. /\ trust \in [Cookies -> TrustRow \cup {NoRow}] /\ signin \in [SignIns -> SignInRecords]
        /\ now \in Int
    BY DEF DevicesTypeOK, SignInRecords
  <1>2. ASSUME NEW s \in SignIns, Begin(s) \/ Verify(s) \/ Leave(s) PROVE DevicesTypeOK'
    <2>1. signin' \in [SignIns -> SignInRecords]
      <3>1. signin' = [signin EXCEPT ![s].pc = "in"] \/ signin' = [signin EXCEPT ![s].pc = "asked"]
            \/ signin' = [signin EXCEPT ![s] = Away]
        BY <1>2 DEF Begin, Verify, Leave
      <3> QED
        BY <1>1, <3>1, AwayIs DEF SignInRecords
    <2> QED
      BY <1>2, <2>1 DEF Begin, Verify, Leave, DevicesTypeOK, SignInRecords
  <1>3. ASSUME NEW s \in SignIns, NEW c \in Cookies, BeginTrusted(s, c) PROVE DevicesTypeOK'
    <2>1. trust[c].past \in Past
      BY <1>1, <1>3 DEF BeginTrusted, Live, TrustRow
    <2>2. signin' \in [SignIns -> SignInRecords]
      BY <1>1, <1>3, <2>1 DEF BeginTrusted, SignInRecords
    <2> QED
      BY <1>3, <2>2 DEF BeginTrusted, DevicesTypeOK, SignInRecords
  <1>4. ASSUME NEW gone, NEW s PROVE Without(gone) \in [Cookies -> TrustRow \cup {NoRow}]
                                     /\ Robbed(gone, s) \in [SignIns -> SignInRecords]
    <2>1. Without(gone) \in [Cookies -> TrustRow \cup {NoRow}]
      BY <1>1 DEF Without
    <2>2. Robbed(gone, s) = [x \in SignIns |-> Robbed(gone, s)[x]]
      BY DEF Robbed
    <2>3. \A x \in SignIns : Robbed(gone, s)[x] \in SignInRecords
      BY RobbedIs
    <2> QED
      BY <2>1, <2>2, <2>3
  <1>5. ASSUME NEW s \in SignIns, DeleteOld(s) PROVE DevicesTypeOK'
    <2> DEFINE c == signin[s].cookie
    <2> DEFINE R == Robbed({c}, s)
    <2>1. c \in Cookies /\ Stashed(c) \in Int \cup {NoRow}
      BY <1>1, <1>5 DEF DeleteOld, CeilingInv, Stashed, TrustRow
    <2>2. R \in [SignIns -> SignInRecords] /\ trust' \in [Cookies -> TrustRow \cup {NoRow}]
      BY <1>4, <1>5 DEF DeleteOld
    <2>3. signin' = [R EXCEPT ![s].pc = "deleted", ![s].stash = Stashed(c)]
      BY <1>5 DEF DeleteOld
    <2> HIDE DEF R, c
    <2>4. signin' \in [SignIns -> SignInRecords]
      BY <2>1, <2>2, <2>3 DEF SignInRecords
    <2> QED
      BY <1>5, <2>2, <2>4 DEF DeleteOld, DevicesTypeOK, SignInRecords
  <1>6. ASSUME NEW s \in SignIns, CreateNew(s) \/ VerifyAndTrust(s) PROVE DevicesTypeOK'
    <2>1. PICK first \in Int, past \in Past : trust' = [trust EXCEPT ![NewCookie] = Row(first, past)]
      <3>1. CASE CreateNew(s)
        <4>1. signin[s] \in SignInRecords
          BY <1>1
        <4>2. (IF signin[s].stash = NoRow THEN now ELSE signin[s].stash) \in Int /\ signin[s].past \in Past
          BY <1>1, <4>1 DEF SignInRecords
        <4> QED
          BY <3>1, <4>2 DEF CreateNew
      <3>2. CASE VerifyAndTrust(s)
        <4>1. NewPast(now) \in Past
          BY <1>1 DEF NewPast, Past
        <4> QED
          BY <1>1, <3>2, <4>1 DEF VerifyAndTrust
      <3> QED
        BY <1>6, <3>1, <3>2
    <2>2. trust' \in [Cookies -> TrustRow \cup {NoRow}]
      BY <1>1, <2>1, RowIs
    <2>3. signin' \in [SignIns -> SignInRecords]
      <3>1. signin' = [signin EXCEPT ![s].pc = "in"] \/ signin' = [signin EXCEPT ![s] = [Away EXCEPT !.pc = "in"]]
        BY <1>6 DEF CreateNew, VerifyAndTrust
      <3> QED
        BY <1>1, <3>1, AwayIs DEF SignInRecords
    <2> QED
      BY <1>6, <2>2, <2>3 DEF CreateNew, VerifyAndTrust, DevicesTypeOK, SignInRecords
  <1>7. ASSUME NEW s \in SignIns, Enroll(s) PROVE DevicesTypeOK'
    BY <1>7 DEF Enroll, DevicesTypeOK
  <1>8. ASSUME NEW s \in SignIns, Disable(s) PROVE DevicesTypeOK'
    <2>1. trust' \in [Cookies -> TrustRow \cup {NoRow}] /\ signin' \in [SignIns -> SignInRecords]
      BY <1>1, <1>8, ClearIs DEF Disable
    <2> QED
      BY <1>8, <2>1 DEF Disable, DevicesTypeOK, SignInRecords
  <1>9. ASSUME NEW s \in SignIns, NEW c \in Cookies, ForgetOne(s, c) PROVE DevicesTypeOK'
    BY <1>4, <1>9 DEF ForgetOne, DevicesTypeOK, SignInRecords
  <1>10. ASSUME NEW x \in Resets, ResetFactor(x) \/ ResetFlag(x) PROVE DevicesTypeOK'
    BY <1>10 DEF ResetFactor, ResetFlag, Flag, DevicesTypeOK
  <1>11. ASSUME NEW x \in Resets, ResetDevices(x) PROVE DevicesTypeOK'
    <2>1. trust' \in [Cookies -> TrustRow \cup {NoRow}] /\ signin' \in [SignIns -> SignInRecords]
      BY <1>11, ClearIs DEF ResetDevices
    <2> QED
      BY <1>11, <2>1 DEF ResetDevices, DevicesTypeOK, SignInRecords
  <1>12. ASSUME NEW x \in Resets, ResetSessions(x) PROVE DevicesTypeOK'
    <2>1. signin' \in [SignIns -> SignInRecords]
      BY <1>1, <1>12, AwayIs DEF ResetSessions
    <2> QED
      BY <1>12, <2>1 DEF ResetSessions, DevicesTypeOK, SignInRecords
  <1>13. ASSUME NEW x \in Resets, ResetBreaksOff(x) PROVE DevicesTypeOK'
    <2>1. brokenOff' \in BOOLEAN
      BY <1>13, Zenon DEF ResetBreaksOff
    <2> QED
      BY <1>13, <2>1 DEF ResetBreaksOff, DevicesTypeOK
  <1>14. CASE SweepExpired
    BY <1>4, <1>14 DEF SweepExpired, DevicesTypeOK, SignInRecords
  <1>15. CASE DaysPass
    BY <1>15 DEF DaysPass, DevicesTypeOK
  <1>16. CASE UNCHANGED deviceVars
    BY <1>16 DEF deviceVars, DevicesTypeOK
  <1> QED
    BY <1>2, <1>3, <1>5, <1>6, <1>7, <1>8, <1>9, <1>10, <1>11, <1>12, <1>13, <1>14, <1>15, <1>16 DEF DevicesNext

-----------------------------------------------------------------------------
\* A new row for an identifier that is free disturbs no other.
LEMMA NewRowStep ==
  ASSUME DevicesAssumption, DevicesTypeOK, CeilingInv, ClearedInv, SomeFree,
         NEW first \in Int, NEW past \in Past,
         ~past.forked => first = past.issued,
         past.former => past.escaped,
         trust' = [trust EXCEPT ![NewCookie] = Row(first, past)],
         NEW s \in SignIns, NEW y \in SignInRecords, y.pc = "in", signin' = [signin EXCEPT ![s] = y]
  PROVE  CeilingInv' /\ ClearedInv'
  <1>1. NewCookie \in Cookies /\ Free(NewCookie)
    BY DEF NewCookie, SomeFree
  <1>2. /\ trust \in [Cookies -> TrustRow \cup {NoRow}] /\ signin \in [SignIns -> SignInRecords]
        /\ now \in Int
    BY DEF DevicesTypeOK, SignInRecords
  <1>3. /\ Row(first, past).first = first /\ Row(first, past).past = past
        /\ Row(first, past).expires <= first + MaxWindows * Days
    BY <1>2, RowIs
  <1>4. \A c \in Cookies : trust'[c] = IF c = NewCookie THEN Row(first, past) ELSE trust[c]
    BY <1>1, <1>2
  <1>5. \A x \in SignIns : signin'[x] = IF x = s THEN y ELSE signin[x]
    BY <1>2
  <1>6. \A x \in SignIns : signin[x].pc = "found" => signin[x].cookie # NewCookie
    BY <1>1 DEF Free
  <1> HIDE DEF Row
  <1> QED
    BY <1>1, <1>3, <1>4, <1>5, <1>6 DEF CeilingInv, ClearedInv

\* Rows that go take no date with them, but for the sign-ins that had found them.
LEMMA GoneStep ==
  ASSUME DevicesTypeOK, CeilingInv, ClearedInv, NEW gone, NEW s,
         s \in SignIns => signin[s].pc # "found",
         trust' = Without(gone), signin' = Robbed(gone, s)
  PROVE  CeilingInv' /\ ClearedInv'
  <1>1. \A c \in Cookies : trust'[c] = IF c \in gone THEN NoRow ELSE trust[c]
    BY DEF Without
  <1>2. \A x \in SignIns :
          /\ signin'[x].pc = signin[x].pc /\ signin'[x].cookie = signin[x].cookie
          /\ signin'[x].past.former = signin[x].past.former
          /\ signin'[x].past.escaped = signin[x].past.escaped
          /\ ~signin'[x].past.forked =>
               /\ signin'[x] = signin[x]
               /\ x # s /\ signin[x].pc = "found" => signin[x].cookie \notin gone
    BY RobbedIs
  <1> QED
    BY <1>1, <1>2 DEF CeilingInv, ClearedInv

\* The invariant of the trusts.
LEMMA TrustStep ==
  ASSUME DevicesAssumption, DevicesTypeOK, CeilingInv, ClearedInv, [DevicesNext]_deviceVars
  PROVE  CeilingInv' /\ ClearedInv'
  <1>1. /\ trust \in [Cookies -> TrustRow \cup {NoRow}] /\ signin \in [SignIns -> SignInRecords]
        /\ now \in Int
    BY DEF DevicesTypeOK, SignInRecords
  <1>2. ASSUME UNCHANGED trust,
               \A x \in SignIns : signin'[x] = signin[x] \/ signin'[x].pc \notin {"found", "deleted"}
        PROVE  CeilingInv' /\ ClearedInv'
    BY <1>2 DEF CeilingInv, ClearedInv
  <1>3. ASSUME NEW s \in SignIns, Begin(s) \/ Verify(s) \/ Leave(s) PROVE CeilingInv' /\ ClearedInv'
    <2>1. \A x \in SignIns : signin'[x] = signin[x] \/ signin'[x].pc \notin {"found", "deleted"}
      <3>1. signin' = [signin EXCEPT ![s].pc = "in"] \/ signin' = [signin EXCEPT ![s].pc = "asked"]
            \/ signin' = [signin EXCEPT ![s] = Away]
        BY <1>3 DEF Begin, Verify, Leave
      <3> QED
        BY <1>1, <3>1, AwayIs DEF SignInRecords
    <2> QED
      BY <1>2, <1>3, <2>1 DEF Begin, Verify, Leave
  <1>4. ASSUME NEW s \in SignIns, NEW c \in Cookies, BeginTrusted(s, c) PROVE CeilingInv' /\ ClearedInv'
    <2>1. signin' = [signin EXCEPT ![s] = [pc |-> "found", cookie |-> c, stash |-> NoRow, past |-> trust[c].past]]
          /\ trust' = trust /\ trust[c] # NoRow
      BY <1>4 DEF BeginTrusted, Live
    <2> QED
      BY <1>1, <2>1 DEF CeilingInv, ClearedInv
  <1>5. ASSUME NEW s \in SignIns, DeleteOld(s) PROVE CeilingInv' /\ ClearedInv'
    <2> DEFINE c == signin[s].cookie
    <2> DEFINE R == Robbed({c}, s)
    <2>1. c \in Cookies /\ signin[s].pc = "found"
      BY <1>5 DEF DeleteOld, CeilingInv
    <2>2. \A x \in SignIns :
            /\ R[x] \in SignInRecords
            /\ R[x].pc = signin[x].pc /\ R[x].cookie = signin[x].cookie /\ R[x].stash = signin[x].stash
            /\ R[x].past.former = signin[x].past.former /\ R[x].past.escaped = signin[x].past.escaped
            /\ x = s => R[x] = signin[x]
            /\ ~R[x].past.forked => R[x] = signin[x] /\ (x # s /\ signin[x].pc = "found" => signin[x].cookie # c)
      BY RobbedIs
    <2>3. DOMAIN R = SignIns
      BY DEF Robbed
    <2>4. signin' = [R EXCEPT ![s].pc = "deleted", ![s].stash = Stashed(c)]
      BY <1>5 DEF DeleteOld
    <2>5. \A d \in Cookies : trust'[d] = IF d = c THEN NoRow ELSE trust[d]
      BY <1>5 DEF DeleteOld, Without
    <2> HIDE DEF R
    <2>6. \A x \in SignIns : x # s => signin'[x] = R[x]
      BY <2>3, <2>4
    <2>7. /\ signin'[s].pc = "deleted" /\ signin'[s].stash = Stashed(c) /\ signin'[s].past = signin[s].past
      BY <2>2, <2>3, <2>4 DEF SignInRecords
    <2>8. ~signin[s].past.forked => Stashed(c) = signin[s].past.issued
      BY <2>1 DEF Stashed, CeilingInv
    <2>9. CeilingInv'
      BY <2>2, <2>5, <2>6, <2>7, <2>8 DEF CeilingInv
    <2>10. ClearedInv'
      BY <2>1, <2>2, <2>5, <2>6, <2>7 DEF ClearedInv
    <2> QED
      BY <2>9, <2>10
  <1>6. ASSUME NEW s \in SignIns, CreateNew(s) PROVE CeilingInv' /\ ClearedInv'
    <2> DEFINE first == IF signin[s].stash = NoRow THEN now ELSE signin[s].stash
    <2>1. signin[s] \in SignInRecords /\ signin[s].pc = "deleted"
      BY <1>1, <1>6 DEF CreateNew
    <2>2. first \in Int /\ signin[s].past \in Past
      BY <1>1, <2>1 DEF SignInRecords
    <2>3. ~signin[s].past.forked => first = signin[s].past.issued
      BY <2>1 DEF CeilingInv, SignInRecords, Past, DevicesAssumption
    <2>4. signin[s].past.former => signin[s].past.escaped
      BY <2>1 DEF ClearedInv
    <2>5. [Away EXCEPT !.pc = "in"] \in SignInRecords /\ [Away EXCEPT !.pc = "in"].pc = "in"
      BY AwayIs DEF Away
    <2>6. /\ SomeFree /\ trust' = [trust EXCEPT ![NewCookie] = Row(first, signin[s].past)]
          /\ signin' = [signin EXCEPT ![s] = [Away EXCEPT !.pc = "in"]]
      BY <1>6 DEF CreateNew
    <2> HIDE DEF first
    <2> QED
      BY <2>2, <2>3, <2>4, <2>5, <2>6, NewRowStep
  <1>7. ASSUME NEW s \in SignIns, VerifyAndTrust(s) PROVE CeilingInv' /\ ClearedInv'
    <2>1. NewPast(now) \in Past /\ NewPast(now).issued = now /\ NewPast(now).former = FALSE
      BY <1>1 DEF NewPast, Past
    <2>2. [signin[s] EXCEPT !.pc = "in"] \in SignInRecords /\ [signin[s] EXCEPT !.pc = "in"].pc = "in"
      BY <1>1 DEF SignInRecords
    <2>3. /\ SomeFree /\ trust' = [trust EXCEPT ![NewCookie] = Row(now, NewPast(now))]
          /\ signin' = [signin EXCEPT ![s] = [signin[s] EXCEPT !.pc = "in"]]
      BY <1>7 DEF VerifyAndTrust
    <2> QED
      BY <1>1, <2>1, <2>2, <2>3, NewRowStep
  <1>8. ASSUME Clear PROVE CeilingInv' /\ ClearedInv'
    <2>1. \A c \in Cookies : trust'[c] = NoRow
      BY <1>8, ClearIs
    <2>2. ASSUME NEW x \in SignIns
          PROVE  /\ signin'[x].pc = signin[x].pc /\ signin'[x].cookie = signin[x].cookie
                 /\ signin'[x].stash = signin[x].stash
                 /\ signin[x].pc \in {"found", "deleted"} =>
                      /\ signin'[x].past.escaped
                      /\ ~signin'[x].past.forked =>
                           ~signin[x].past.forked /\ signin'[x].past.issued = signin[x].past.issued
                 /\ signin[x].pc = "found" => signin'[x].past.forked
      <3>1. x # NoRow
        BY DEF DevicesAssumption
      <3>2. signin[x].pc = "found" /\ ~signin[x].past.forked => signin[x].cookie \in OfUser
        BY DEF CeilingInv, OfUser
      <3> QED
        BY <1>8, <3>1, <3>2, ClearIs
    <2> QED
      BY <2>1, <2>2 DEF CeilingInv, ClearedInv
  <1>9. ASSUME NEW s \in SignIns, Enroll(s) \/ Disable(s) PROVE CeilingInv' /\ ClearedInv'
    BY <1>2, <1>8, <1>9 DEF Enroll, Disable
  <1>10. ASSUME NEW s \in SignIns, NEW c \in Cookies, ForgetOne(s, c) PROVE CeilingInv' /\ ClearedInv'
    BY <1>10, GoneStep DEF ForgetOne
  <1>11. ASSUME NEW x \in Resets, ResetFactor(x) \/ ResetDevices(x) \/ ResetFlag(x) \/ ResetBreaksOff(x)
         PROVE  CeilingInv' /\ ClearedInv'
    BY <1>2, <1>8, <1>11 DEF ResetFactor, ResetDevices, ResetFlag, ResetBreaksOff
  <1>12. ASSUME NEW x \in Resets, ResetSessions(x) PROVE CeilingInv' /\ ClearedInv'
    <2>1. \A y \in SignIns : signin'[y] = signin[y] \/ signin'[y].pc \notin {"found", "deleted"}
      BY <1>12, AwayIs DEF ResetSessions
    <2> QED
      BY <1>2, <1>12, <2>1 DEF ResetSessions
  <1>13. CASE SweepExpired
    BY <1>13, GoneStep DEF SweepExpired, DevicesAssumption
  <1>14. CASE DaysPass \/ UNCHANGED deviceVars
    BY <1>2, <1>14 DEF DaysPass, deviceVars
  <1> QED
    BY <1>3, <1>4, <1>5, <1>6, <1>7, <1>9, <1>10, <1>11, <1>12, <1>13, <1>14 DEF DevicesNext

\* No step takes the factor away and leaves the flag, but a reset on its way.
LEMMA FactorStep ==
  ASSUME DevicesTypeOK, NobodyIsLockedOut, [DevicesNext]_deviceVars
  PROVE  NobodyIsLockedOut'
  <1> USE DEF NobodyIsLockedOut, DevicesTypeOK
  <1>1. ASSUME UNCHANGED <<enrolled, enabled, reset, brokenOff>> PROVE NobodyIsLockedOut'
    BY <1>1
  <1>2. ASSUME NEW s \in SignIns,
               \/ Begin(s) \/ DeleteOld(s) \/ Verify(s) \/ Leave(s) \/ Enroll(s) \/ Disable(s)
               \/ CreateNew(s) \/ VerifyAndTrust(s)
        PROVE  NobodyIsLockedOut'
    BY <1>1, <1>2 DEF Begin, DeleteOld, Verify, Leave, Enroll, Disable, CreateNew, VerifyAndTrust
  <1>3. ASSUME NEW s \in SignIns, NEW c \in Cookies, BeginTrusted(s, c) \/ ForgetOne(s, c)
        PROVE  NobodyIsLockedOut'
    BY <1>1, <1>3 DEF BeginTrusted, ForgetOne
  <1>4. ASSUME NEW x \in Resets, ResetFactor(x) PROVE NobodyIsLockedOut'
    <2>1. reset'[x] = "devices"
      BY <1>4 DEF ResetFactor
    <2> QED
      BY <2>1
  <1>5. ASSUME NEW x \in Resets, ResetDevices(x) PROVE NobodyIsLockedOut'
    <2>1. reset'[x] = "flag"
      BY <1>5 DEF ResetDevices
    <2> QED
      BY <2>1
  <1>6. ASSUME NEW x \in Resets, ResetFlag(x) PROVE NobodyIsLockedOut'
    BY <1>6 DEF ResetFlag, Flag
  <1>7. ASSUME NEW x \in Resets, ResetSessions(x) PROVE NobodyIsLockedOut'
    <2>1. \A y \in Resets : reset[y] \in {"devices", "flag"} => reset'[y] = reset[y]
      BY <1>7 DEF ResetSessions
    <2> QED
      BY <1>7, <2>1 DEF ResetSessions
  <1>8. ASSUME NEW x \in Resets, ResetBreaksOff(x) PROVE NobodyIsLockedOut'
    <2>1. CASE reset[x] # "sessions"
      <3>1. brokenOff' = TRUE
        BY <1>8, <2>1, Zenon DEF ResetBreaksOff
      <3> QED
        BY <3>1
    <2>2. CASE reset[x] = "sessions"
      <3>1. \A y \in Resets : reset[y] \in {"devices", "flag"} => reset'[y] = reset[y]
        BY <1>8, <2>2 DEF ResetBreaksOff
      <3>2. brokenOff' <=> brokenOff
        BY <1>8, <2>2, Zenon DEF ResetBreaksOff
      <3>3. enabled' = enabled /\ enrolled' = enrolled
        BY <1>8 DEF ResetBreaksOff
      <3> QED
        BY <3>1, <3>2, <3>3
    <2> QED
      BY <2>1, <2>2
  <1>9. CASE SweepExpired \/ DaysPass \/ UNCHANGED deviceVars
    BY <1>1, <1>9 DEF SweepExpired, DaysPass, deviceVars
  <1> QED
    BY <1>2, <1>3, <1>4, <1>5, <1>6, <1>7, <1>8, <1>9 DEF DevicesNext

LEMMA DevicesInvariant == ASSUME DevicesAssumption PROVE DevicesSpec => []DevicesInv
  <1>1. DevicesInit => DevicesInv
    BY DevicesInvInit
  <1>2. DevicesInv /\ [DevicesNext]_deviceVars => DevicesInv'
    BY DevicesTypeStep, TrustStep, FactorStep DEF DevicesInv
  <1> QED
    BY <1>1, <1>2, PTL DEF DevicesSpec

\* However often it is renewed, and whatever takes its rows, a trust nobody
\* forked ends three windows after it was given (trustedDeviceVerificationHooks).
THEOREM TrustEnds == DevicesSpec => []TrustEndsAtTheCeiling
  <1>1. DevicesInv => TrustEndsAtTheCeiling
    BY DEF DevicesInv, CeilingInv, TrustEndsAtTheCeiling
  <1> QED
    BY <1>1, DevicesInvariant, DevicesAssumption, PTL

\* A cleared trust opens nothing, unless a sign-in was replacing its row
\* (clearTrustedDevices).
THEOREM ClearingTakesAll == DevicesSpec => []ClearedTrustOpensNothing
  <1>1. DevicesInv => ClearedTrustOpensNothing
    BY DEF DevicesInv, ClearedInv, ClearedTrustOpensNothing, Live
  <1> QED
    BY <1>1, DevicesInvariant, DevicesAssumption, PTL

\* A factor that is asked for exists, but for a reset on its way or broken off
\* (resetTwoFactor).
THEOREM NoLockOut == DevicesSpec => []NobodyIsLockedOut
  <1>1. DevicesInv => NobodyIsLockedOut
    BY DEF DevicesInv
  <1> QED
    BY <1>1, DevicesInvariant, DevicesAssumption, PTL
=============================================================================
