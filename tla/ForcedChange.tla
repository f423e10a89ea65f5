---------------------------- MODULE ForcedChange ----------------------------
(***************************************************************************)
(* The forced change of a temporary password, for one user                 *)
(* (http/admin-actions.ts, auth/options/session-standing.ts, routes/login,  *)
(* auth/change-password.ts, auth/options/database-hooks.ts).                *)
(*                                                                         *)
(* An administrator's form sets the password in one call and raises         *)
(* user.mustChangePassword in a second; the user's change writes the        *)
(* password, takes the flag down in a hook after the write and then ends    *)
(* the other sessions.  None of it is in one transaction, a sign-in reads   *)
(* the flag before it has a session, and any of them can stop half way.     *)
(* What the wall stands in front of reads the flag from the row.  Requests   *)
(* it lets through whatever the flag says are left out: plain reads, and    *)
(* those that change the password, sign in or sign out.                     *)
(***************************************************************************)
EXTENDS Integers

CONSTANTS
    Visits,      \* requests of the user's browsers, several at a time
    Setters,     \* administrators' forms that set a temporary password
    Sessions,    \* identifiers of session rows
    NoSession,   \* no such row
    MaxPasswords \* bound on the passwords there have been

ASSUME ForcedAssumption == MaxPasswords \in Nat /\ NoSession \notin Sessions

VARIABLES
    password,    \* the account's: which one it is, and whether it is temporary
    flag,        \* user.mustChangePassword
    session,     \* session[s]: the password it was opened with, the one then in force
    visit,       \* visit[v]: where it is, the flag it saw, its session and password
    setter,      \* setter[a]: where the form is, and the password it set
    outrun,      \* history: the temporary ones set between a change's two writes
    settled      \* history: the newest password whose change ended the sessions

forcedVars == <<password, flag, session, visit, setter, outrun, settled>>

AwayVisit == [pc |-> "away", seen |-> FALSE, own |-> NoSession, with |-> 0]

ForcedInit ==
    /\ password = [n |-> 0, temporary |-> FALSE]
    /\ flag = FALSE
    /\ session = [s \in Sessions |-> NoSession]
    /\ visit = [v \in Visits |-> AwayVisit]
    /\ setter = [a \in Setters |-> [pc |-> "new", n |-> 0]]
    /\ outrun = {}
    /\ settled = 0

NewSession(n) == [with |-> n, under |-> password.n]

\* An identifier nobody has; which one does not matter.
FreeSession == CHOOSE s \in Sessions : session[s] = NoSession

Leaves(v) == visit' = [visit EXCEPT ![v] = AwayVisit]

-----------------------------------------------------------------------------
(* Signing in.                                                             *)

\* /sign-in/email reads the user and verifies the password.
ReadAccount(v) ==
    /\ visit[v].pc = "away"
    /\ visit' = [visit EXCEPT ![v] =
            [pc |-> "verified", seen |-> flag, own |-> NoSession, with |-> password.n]]
    /\ UNCHANGED <<password, flag, session, setter, outrun, settled>>

\* The session is created.  A user seen with the flag up is sent to the change
\* of the password, or else, as is whoever gave a second factor, on to the
\* authorization that waited.
OpenSession(v) ==
    /\ visit[v].pc = "verified"
    /\ \E s \in Sessions : session[s] = NoSession
    /\ session' = [session EXCEPT ![FreeSession] = NewSession(visit[v].with)]
    /\ \/ visit[v].seen /\ Leaves(v)
       \/ visit' = [visit EXCEPT ![v].pc = "gate", ![v].own = FreeSession, ![v].with = 0]
    /\ UNCHANGED <<password, flag, setter, outrun, settled>>

\* A sign-out, or the session is revoked or runs out.
EndSession(s) ==
    /\ session[s] # NoSession
    /\ session' = [session EXCEPT ![s] = NoSession]
    /\ UNCHANGED <<password, flag, visit, setter, outrun, settled>>

-----------------------------------------------------------------------------
(* What the wall stands in front of: a form post, a write of the API, an    *)
(* authorization.                                                          *)

\* The page was rendered, or the cookie's copy written, with the flag as it is.
Arrive(v, s) ==
    /\ visit[v].pc = "away" /\ session[s] # NoSession
    /\ visit' = [visit EXCEPT ![v] = [pc |-> "gate", seen |-> flag, own |-> s, with |-> 0]]
    /\ UNCHANGED <<password, flag, session, setter, outrun, settled>>

\* Mutant: the flag as the sign-in or the cookie's copy has it.
MustChangeMutant(v) == visit[v].seen

\* The flag of the row.
MustChange(v) == flag

\* assertSessionStanding, requireSession and the authorize route's gate.
Gate(v) ==
    /\ visit[v].pc = "gate"
    /\ IF session[visit[v].own] # NoSession /\ ~MustChange(v)
       THEN visit' = [visit EXCEPT ![v] = [AwayVisit EXCEPT !.pc = "passed"]] ELSE Leaves(v)
    /\ UNCHANGED <<password, flag, session, setter, outrun, settled>>

\* The endpoint does what was asked.
Act(v) ==
    /\ visit[v].pc = "passed"
    /\ Leaves(v)
    /\ UNCHANGED <<password, flag, session, setter, outrun, settled>>

-----------------------------------------------------------------------------
(* The user sets the password.                                             *)

\* /change-password has verified the current one and writes the new one, whatever
\* the account's has become; /reset-password does so for who has the link.
WritePassword(v) ==
    /\ visit[v].pc = "away" /\ password.n < MaxPasswords
    /\ password' = [n |-> password.n + 1, temporary |-> FALSE]
    /\ \E s \in {NoSession} \cup {x \in Sessions : session[x] # NoSession} :
            visit' = [visit EXCEPT ![v] =
                [pc |-> "written", seen |-> FALSE, own |-> s, with |-> password.n + 1]]
    /\ UNCHANGED <<flag, session, setter, outrun, settled>>

\* account.update.after takes the flag down, whatever the row has become.
ClearMustChangePassword(v) ==
    /\ visit[v].pc = "written"
    /\ flag' = FALSE
    /\ visit' = [visit EXCEPT ![v].pc = "cleared"]
    /\ UNCHANGED <<password, session, setter, outrun, settled>>

\* Mutant: a change ends the session it was made in and leaves the others.
RevokedMutant(v) == {visit[v].own}

\* revokeOtherSessions, revokeSessionsOnPasswordReset: all of the user's.
Revoked(v) == Sessions

\* The sessions go, and a change gets a new one of its own.
EndSessions(v) ==
    /\ visit[v].pc = "cleared"
    /\ session' = [s \in Sessions |->
            IF s = visit[v].own THEN NewSession(visit[v].with)
            ELSE IF s \in Revoked(v) THEN NoSession ELSE session[s]]
    /\ settled' = IF visit[v].with > settled THEN visit[v].with ELSE settled
    /\ Leaves(v)
    /\ UNCHANGED <<password, flag, setter, outrun>>

\* The handler throws, or the process dies.
Breaks(v) ==
    /\ visit[v].pc # "away"
    /\ Leaves(v)
    /\ UNCHANGED <<password, flag, session, setter, outrun, settled>>

-----------------------------------------------------------------------------
(* An administrator sets it: two calls (http/admin-actions.ts).             *)

SetUserPassword(a) ==
    /\ setter[a].pc = "new" /\ password.n < MaxPasswords
    /\ password' = [n |-> password.n + 1, temporary |-> TRUE]
    /\ setter' = [setter EXCEPT ![a] = [pc |-> "set", n |-> password.n + 1]]
    /\ outrun' = outrun \cup
            {n \in {password.n + 1} : \E v \in Visits : visit[v].pc = "written"}
    /\ UNCHANGED <<flag, session, visit, settled>>

RaiseFlag(a) ==
    /\ setter[a].pc = "set"
    /\ flag' = TRUE
    /\ setter' = [setter EXCEPT ![a].pc = "done"]
    /\ UNCHANGED <<password, session, visit, outrun, settled>>

\* The second call is refused or never made; the password stays.
FlagCallFails(a) ==
    /\ setter[a].pc = "set"
    /\ setter' = [setter EXCEPT ![a].pc = "failed"]
    /\ UNCHANGED <<password, flag, session, visit, outrun, settled>>

-----------------------------------------------------------------------------
ForcedNext ==
    \/ \E v \in Visits :
        \/ ReadAccount(v) \/ OpenSession(v) \/ Gate(v) \/ Act(v) \/ WritePassword(v)
        \/ ClearMustChangePassword(v) \/ EndSessions(v) \/ Breaks(v)
        \/ \E s \in Sessions : Arrive(v, s)
    \/ \E s \in Sessions : EndSession(s)
    \/ \E a \in Setters : SetUserPassword(a) \/ RaiseFlag(a) \/ FlagCallFails(a)

ForcedSpec == ForcedInit /\ [][ForcedNext]_forcedVars

-----------------------------------------------------------------------------
Stages == {"away", "verified", "gate", "passed", "written", "cleared"}

PasswordRecords == [n : 0..MaxPasswords, temporary : BOOLEAN]
SessionRecords == [with : 0..MaxPasswords, under : 0..MaxPasswords]
VisitRecords ==
    [pc : Stages, seen : BOOLEAN, own : Sessions \cup {NoSession}, with : 0..MaxPasswords]

ForcedTypeOK ==
    /\ password \in PasswordRecords
    /\ flag \in BOOLEAN
    /\ session \in [Sessions -> SessionRecords \cup {NoSession}]
    /\ visit \in [Visits -> VisitRecords]
    /\ setter \in [Setters -> [pc : {"new", "set", "done", "failed"}, n : 0..MaxPasswords]]
    /\ outrun \subseteq 1..MaxPasswords
    /\ settled \in 0..MaxPasswords

\* The administrator's second call is still to come, or failed.
Unfinished == \E a \in Setters : setter[a].n = password.n /\ setter[a].pc \in {"set", "failed"}

Passes(v) == visit[v].pc = "gate" /\ visit'[v].pc = "passed"

\* "a temporary password can never buy an authorization code" (login.tsx), nor
\* anything else behind the wall: nothing passes while the password in force is
\* temporary.  Two gaps are left: the one between the administrator's two calls,
\* and a password set between the two writes of the user's own change, whose
\* hook takes the flag down afterwards.
TemporaryPasswordBuysNothing ==
    [][\A v \in Visits : Passes(v) =>
        ~password.temporary \/ Unfinished \/ password.n \in outrun]_forcedVars

\* It was opened with a password already replaced.
Late(s) == session[s].with < session[s].under

\* "neither should anything minted with it be" (database-hooks.ts): when a
\* change or a reset is through, no session is left that an earlier password
\* opened, but those opened after it was replaced, by a sign-in that had
\* verified it before or by another change.
ReplacedPasswordsOpenNothing ==
    \A s \in Sessions : session[s] # NoSession /\ ~Late(s) => session[s].with >= settled
=============================================================================
