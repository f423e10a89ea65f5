----------------------------- MODULE FirstUser -----------------------------
(***************************************************************************)
(* The first-run page: the first user is created as an administrator under  *)
(* the advisory lock bootstrapAdmin (admin/first-user.ts, routes/setup.tsx, *)
(* db/advisory-lock.ts), by whichever of several instances is asked first.  *)
(*                                                                         *)
(* The lock is waited for at most a minute.  The user and the password are  *)
(* two statements outside a transaction, the connection that holds the lock *)
(* may be lost under them, a library call between them may never return,    *)
(* and a self-registration takes no lock at all.  Users are not deleted     *)
(* here: self-deletion is off and the last administrator cannot be.         *)
(***************************************************************************)
EXTENDS FiniteSets, Naturals

CONSTANTS
    Forms,       \* submissions of the setup page, each with an address of its own
    Processes,   \* instances of the server
    SignUps,     \* self-registrations
    Unlocked,    \* nobody holds the lock, nobody serves the form
    MaxFaults    \* bound on lost connections, crashes and failed statements

ASSUME SetupAssumption ==
    /\ Unlocked \notin Forms \cup Processes
    /\ Forms \cap SignUps = {}
    /\ MaxFaults \in Nat

VARIABLES
    users,       \* the table: the forms and sign-ups that have a user in it
    logins,      \* those that have an account with a password
    setupLock,   \* the form that holds bootstrapAdmin
    form,        \* form[f]: where its handler is
    at,          \* at[f]: the process that serves f
    closed,      \* the processes that have memoized "not pending"
    faults,      \* how many there have been
    lostLock,    \* history: a form went on after its connection was lost
    interrupted  \* history: the forms that ended between the two statements

setupVars == <<users, logins, setupLock, form, at, closed, faults, lostLock, interrupted>>

Working == {"wait", "check", "user", "password"}
Answers == {"created", "already", "error"}

SetupInit ==
    /\ users = {} /\ logins = {}
    /\ setupLock = Unlocked
    /\ form = [f \in Forms |-> "new"]
    /\ at = [f \in Forms |-> Unlocked]
    /\ closed = {}
    /\ faults = 0
    /\ lostLock = FALSE /\ interrupted = {}

Unlock(f) == setupLock' = IF setupLock = f THEN Unlocked ELSE setupLock
To(f, pc) == form' = [form EXCEPT ![f] = pc]

\* isSetupPending: "false" is remembered, "true" is asked again.
SeesPending(p) == p \notin closed /\ users = {}

\* Mutant: both answers are memoized.
RememberedMutant(p) == closed' = closed \cup {p}

Remembered(p) == closed' = IF users # {} THEN closed \cup {p} ELSE closed

-----------------------------------------------------------------------------
(* POST /setup.                                                            *)

Post(f, p) ==
    /\ form[f] = "new"
    /\ To(f, IF SeesPending(p) THEN "wait" ELSE "already")
    /\ at' = [at EXCEPT ![f] = IF SeesPending(p) THEN p ELSE @]
    /\ Remembered(p)
    /\ UNCHANGED <<users, logins, setupLock, faults, lostLock, interrupted>>

\* A page or a start-up asks whether setup is pending.
Look(p) ==
    /\ users # {} /\ p \notin closed
    /\ Remembered(p)
    /\ UNCHANGED <<users, logins, setupLock, form, at, faults, lostLock, interrupted>>

Acquire(f) ==
    /\ form[f] = "wait" /\ setupLock = Unlocked
    /\ setupLock' = f
    /\ To(f, "check")
    /\ UNCHANGED <<users, logins, at, closed, faults, lostLock, interrupted>>

\* Mutant: `set local` outside a transaction, which PostgreSQL discards.
TimesOutMutant(f) == FALSE

\* lock_timeout
TimesOut(f) == form[f] = "wait" /\ setupLock # Unlocked

GiveUp(f) ==
    /\ TimesOut(f)
    /\ To(f, "error")
    /\ UNCHANGED <<users, logins, setupLock, at, closed, faults, lostLock, interrupted>>

\* Mutant: the pre-check on the pooled connection is taken for the answer.
StillEmptyMutant(f) == form[f] = "check"

\* The re-check under the lock.
StillEmpty(f) == users = {}

Check(f) ==
    /\ form[f] = "check"
    /\ IF StillEmpty(f)
       THEN To(f, "user") /\ UNCHANGED setupLock
       ELSE To(f, "already") /\ Unlock(f)
    /\ UNCHANGED <<users, logins, at, closed, faults, lostLock, interrupted>>

\* createUserWithoutRequest: the administrator, active and verified.
CreateUser(f) ==
    /\ form[f] = "user"
    /\ users' = users \cup {f}
    /\ To(f, "password")
    /\ UNCHANGED <<logins, setupLock, at, closed, faults, lostLock, interrupted>>

\* createAccount, the unlock and markSetupComplete.
CreateAccount(f) ==
    /\ form[f] = "password"
    /\ logins' = logins \cup {f}
    /\ closed' = closed \cup {at[f]}
    /\ Unlock(f) /\ To(f, "created")
    /\ UNCHANGED <<users, at, faults, lostLock, interrupted>>

-----------------------------------------------------------------------------
(* Whatever else happens.                                                  *)

\* A user with a password who is no administrator.
SignUp(u) ==
    /\ u \notin users
    /\ users' = users \cup {u} /\ logins' = logins \cup {u}
    /\ UNCHANGED <<setupLock, form, at, closed, faults, lostLock, interrupted>>

Fault == faults < MaxFaults /\ faults' = faults + 1

\* A statement throws: the lock is released and the page says server_error.
Throws(f) ==
    /\ Fault
    /\ form[f] \in Working
    /\ Unlock(f) /\ To(f, "error")
    /\ interrupted' = interrupted \cup {g \in {f} : form[g] = "password"}
    /\ UNCHANGED <<users, logins, at, closed, lostLock>>

\* The connection with the lock is lost; the handler uses the others and goes on.
LoseLock(f) ==
    /\ Fault
    /\ setupLock = f
    /\ setupLock' = Unlocked
    /\ lostLock' = TRUE
    /\ UNCHANGED <<users, logins, form, at, closed, interrupted>>

\* The process dies, with its memo and the handlers it ran.
Crash(p) ==
    /\ Fault
    /\ LET hit == {f \in Forms : at[f] = p /\ form[f] \in Working} IN
       /\ form' = [f \in Forms |-> IF f \in hit THEN "error" ELSE form[f]]
       /\ setupLock' = IF setupLock \in hit THEN Unlocked ELSE setupLock
       /\ interrupted' = interrupted \cup {f \in hit : form[f] = "password"}
    /\ closed' = closed \ {p}
    /\ UNCHANGED <<users, logins, at, lostLock>>

SetupNext ==
    \/ \E f \in Forms : Acquire(f) \/ GiveUp(f) \/ Check(f) \/ CreateUser(f)
                        \/ CreateAccount(f) \/ Throws(f) \/ LoseLock(f)
    \/ \E p \in Processes : Look(p) \/ Crash(p) \/ \E f \in Forms : Post(f, p)
    \/ \E u \in SignUps : SignUp(u)

\* The database grants the lock or times the wait out, and answers the check.
\* Nothing is assumed of the library calls that create the user.
SetupFairness == \A f \in Forms :
    /\ WF_setupVars(Acquire(f)) /\ WF_setupVars(GiveUp(f)) /\ WF_setupVars(Check(f))

SetupSpec == SetupInit /\ [][SetupNext]_setupVars /\ SetupFairness

-----------------------------------------------------------------------------
(* Properties.                                                             *)

\* Every variable stays in its type; the holder of the lock is in its section,
\* and who has a password is a user.
SetupTypeOK ==
    /\ users \subseteq Forms \cup SignUps /\ logins \subseteq users
    /\ setupLock \in Forms \cup {Unlocked}
    /\ form \in [Forms -> {"new"} \cup Working \cup Answers]
    /\ at \in [Forms -> Processes \cup {Unlocked}]
    /\ \A f \in Forms : form[f] \in Working => at[f] \in Processes
    /\ closed \subseteq Processes
    /\ faults \in 0..MaxFaults
    /\ lostLock \in BOOLEAN
    /\ interrupted \subseteq Forms
    /\ \A f \in Forms : setupLock = f => form[f] \in {"check", "user", "password"}

\* However many forms are posted to however many instances, the page makes one
\* administrator, unless a connection was lost under the lock
\* (createFirstUser's re-check).
OneFirstUser ==
    ~lostLock => \A f, g \in users \cap Forms : f = g

\* Once setup is closed to anybody and no form is between its two statements,
\* an administrator can sign in, unless a registration came before the form or
\* a handler ended between the statements, which leaves a user without a
\* password (isSetupPending's memo, createFirstUser).
ClosedSetupHasAnAdmin ==
    (closed # {} \/ users # {}) /\ (\A f \in Forms : form[f] # "password")
        => (Forms \cap logins) \cup (SignUps \cap users) \cup interrupted # {}

\* A form that waits for the lock is answered or gets it, whatever becomes of
\* the one that holds it (withAdvisoryLock's lock_timeout).
WaitersAreAnswered ==
    \A f \in Forms : form[f] = "wait" ~> form[f] # "wait"
=============================================================================
