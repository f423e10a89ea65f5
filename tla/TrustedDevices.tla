--------------------------- MODULE TrustedDevices ---------------------------
(***************************************************************************)
(* The browsers a user has told to skip the second factor, and the reset of *)
(* that factor (auth/trusted-devices.ts, admin/endpoints.ts, hooks.ts).     *)
(*                                                                         *)
(* Each sign-in of a trusted browser replaces its row: Better Auth finds    *)
(* it, deletes it and creates another, and two hooks carry the first issue  *)
(* from the one to the other and cap the expiry.  The three are statements  *)
(* of their own, and so are the writes of a reset: other sign-ins, a reset, *)
(* the disabling of the factor, the account page and the retention job come *)
(* between them.  One user is modelled; a cookie without a row is like none. *)
(***************************************************************************)
EXTENDS Integers

CONSTANTS
    Cookies,     \* identifiers of trust rows
    SignIns,     \* sign-ins of the user, from one browser or several
    Resets,      \* administrators' resets
    Days,        \* twoFactor.trustDeviceDays
    NoRow,       \* no trust row; nothing stashed
    MaxNow       \* bound on the time

ASSUME DevicesAssumption ==
    /\ Days \in Nat
    /\ NoRow \notin Int /\ NoRow \notin SignIns

VARIABLES
    trust,       \* trust[c]: the row [first, expires, past], or NoRow
    signin,      \* signin[s]: where it is, its cookie, what delete.before stashed
    enrolled,    \* there is a row in two_factor
    enabled,     \* user.twoFactorEnabled
    reset,       \* reset[x]: where the reset is
    now,
    brokenOff    \* history: a reset stopped before it reached the user's flag

deviceVars == <<trust, signin, enrolled, enabled, reset, now, brokenOff>>

MaxWindows == 3
Lesser(a, b) == IF a < b THEN a ELSE b

\* History of a trust across its rows: when the user gave it; whether it is
\* forked, somebody else having taken a row while a sign-in replaced it (it has
\* no date then); whether it was given before the last clearing; and whether it
\* escaped that, a sign-in being overtaken.
NewPast(t) == [issued |-> t, forked |-> FALSE, former |-> FALSE, escaped |-> FALSE]

Away == [pc |-> "away", cookie |-> NoRow, stash |-> NoRow, past |-> NewPast(0)]
Free(c) == trust[c] = NoRow /\ \A s \in SignIns : signin[s].cookie # c

\* An identifier nobody has; which one does not matter.
SomeFree == \E c \in Cookies : Free(c)
NewCookie == CHOOSE c \in Cookies : Free(c)

DevicesInit ==
    /\ trust = [c \in Cookies |-> NoRow]
    /\ signin = [s \in SignIns |-> Away]
    /\ enrolled = TRUE /\ enabled = TRUE
    /\ reset = [x \in Resets |-> "new"]
    /\ now = 0
    /\ brokenOff = FALSE

-----------------------------------------------------------------------------
(* Rows that go.                                                           *)

\* The rows in gone are deleted by somebody else than the sign-in s: who has
\* found one of them will find nothing to delete.
Robbed(gone, s) == [x \in SignIns |->
    IF x # s /\ signin[x].pc = "found" /\ signin[x].cookie \in gone
    THEN [signin[x] EXCEPT !.past.forked = TRUE, !.past.issued = 0] ELSE signin[x]]

Without(gone) == [c \in Cookies |-> IF c \in gone THEN NoRow ELSE trust[c]]

\* The plugin's own check of the row a cookie names.
Live(c) == trust[c] # NoRow /\ trust[c].expires > now

\* Mutant: only those given in this window.
OfUserMutant == {c \in Cookies : Live(c) /\ trust[c].first + Days > now}

\* trustedDevicesOf
OfUser == {c \in Cookies : trust[c] # NoRow}

\* clearTrustedDevices
Clear ==
    /\ trust' = [c \in Cookies |-> IF Without(OfUser)[c] = NoRow THEN NoRow
                                   ELSE [trust[c] EXCEPT !.past.former = TRUE]]
    /\ signin' = [s \in SignIns |->
                    IF signin[s].pc \in {"found", "deleted"}
                    THEN [Robbed(OfUser, NoRow)[s] EXCEPT !.past.former = TRUE, !.past.escaped = TRUE]
                    ELSE signin[s]]

-----------------------------------------------------------------------------
(* Sign-ins.                                                               *)

\* The password was right, and without a second factor nothing more is asked; a
\* trusted browser goes on to replace its row.
BeginTrusted(s, c) ==
    /\ signin[s].pc = "away" /\ enabled /\ Live(c)
    /\ signin' = [signin EXCEPT ![s] =
                    [pc |-> "found", cookie |-> c, stash |-> NoRow, past |-> trust[c].past]]
    /\ UNCHANGED <<trust, enrolled, enabled, reset, now, brokenOff>>

Begin(s) ==
    /\ signin[s].pc = "away"
    /\ signin' = [signin EXCEPT ![s].pc = IF enabled THEN "asked" ELSE "in"]
    /\ UNCHANGED <<trust, enrolled, enabled, reset, now, brokenOff>>

\* Mutant: the hook does not see the row.
StashedMutant(c) == NoRow

\* delete.before, which runs only if there is a row.
Stashed(c) == IF trust[c] = NoRow THEN NoRow ELSE trust[c].first

DeleteOld(s) ==
    /\ signin[s].pc = "found"
    /\ LET c == signin[s].cookie IN
       /\ trust' = Without({c})
       /\ signin' = [Robbed({c}, s) EXCEPT ![s].pc = "deleted", ![s].stash = Stashed(c)]
    /\ UNCHANGED <<enrolled, enabled, reset, now, brokenOff>>

\* create.before with capTrustedDeviceExpiry.
Row(first, past) ==
    [first |-> first, expires |-> Lesser(now + Days, first + MaxWindows * Days), past |-> past]

CreateNew(s) ==
    /\ signin[s].pc = "deleted" /\ SomeFree
    /\ trust' = [trust EXCEPT ![NewCookie] =
                   Row(IF signin[s].stash = NoRow THEN now ELSE signin[s].stash, signin[s].past)]
    /\ signin' = [signin EXCEPT ![s] = [Away EXCEPT !.pc = "in"]]
    /\ UNCHANGED <<enrolled, enabled, reset, now, brokenOff>>

\* The second factor, in a request of its own.
Verify(s) ==
    /\ signin[s].pc = "asked" /\ enrolled
    /\ signin' = [signin EXCEPT ![s].pc = "in"]
    /\ UNCHANGED <<trust, enrolled, enabled, reset, now, brokenOff>>

\* The user trusts the browser with it.
VerifyAndTrust(s) ==
    /\ signin[s].pc = "asked" /\ enrolled /\ SomeFree
    /\ signin' = [signin EXCEPT ![s].pc = "in"]
    /\ trust' = [trust EXCEPT ![NewCookie] = Row(now, NewPast(now))]
    /\ UNCHANGED <<enrolled, enabled, reset, now, brokenOff>>

Leave(s) ==
    /\ signin[s].pc \in {"in", "asked"}
    /\ signin' = [signin EXCEPT ![s] = Away]
    /\ UNCHANGED <<trust, enrolled, enabled, reset, now, brokenOff>>

-----------------------------------------------------------------------------
(* The user's settings, behind a session.                                  *)

Enroll(s) ==
    /\ signin[s].pc = "in" /\ ~enabled
    /\ enrolled' = TRUE /\ enabled' = TRUE
    /\ UNCHANGED <<trust, signin, reset, now, brokenOff>>

\* /two-factor/disable and the after hook, whose failure is logged.
Disable(s) ==
    /\ signin[s].pc = "in" /\ enabled
    /\ enrolled' = FALSE /\ enabled' = FALSE
    /\ Clear \/ UNCHANGED <<trust, signin>>
    /\ UNCHANGED <<reset, now, brokenOff>>

\* clearTrustedDevice, from the account page.
ForgetOne(s, c) ==
    /\ signin[s].pc = "in" /\ trust[c] # NoRow
    /\ trust' = Without({c})
    /\ signin' = Robbed({c}, s)
    /\ UNCHANGED <<enrolled, enabled, reset, now, brokenOff>>

-----------------------------------------------------------------------------
(* /idp/reset-two-factor, statement by statement.                          *)

ResetFactor(x) ==
    /\ reset[x] = "new"
    /\ reset' = [reset EXCEPT ![x] = "devices"]
    /\ enrolled' = FALSE
    /\ UNCHANGED <<trust, signin, enabled, now, brokenOff>>

ResetDevices(x) ==
    /\ reset[x] = "devices"
    /\ reset' = [reset EXCEPT ![x] = "flag"]
    /\ Clear
    /\ UNCHANGED <<enrolled, enabled, now, brokenOff>>

\* Mutant: the flag is left to the next enrolment.
FlagMutant == enabled

Flag == FALSE

ResetFlag(x) ==
    /\ reset[x] = "flag"
    /\ reset' = [reset EXCEPT ![x] = "sessions"]
    /\ enabled' = Flag /\ brokenOff' = FALSE
    /\ UNCHANGED <<trust, signin, enrolled, now>>

\* The sessions go and the tokens with them.
ResetSessions(x) ==
    /\ reset[x] = "sessions"
    /\ reset' = [reset EXCEPT ![x] = "done"]
    /\ signin' = [s \in SignIns |-> IF signin[s].pc = "in" THEN Away ELSE signin[s]]
    /\ UNCHANGED <<trust, enrolled, enabled, now, brokenOff>>

\* A statement throws; what was written stays.
ResetBreaksOff(x) ==
    /\ reset[x] \in {"devices", "flag", "sessions"}
    /\ reset' = [reset EXCEPT ![x] = "done"]
    /\ brokenOff' = (brokenOff \/ reset[x] # "sessions")
    /\ UNCHANGED <<trust, signin, enrolled, enabled, now>>

-----------------------------------------------------------------------------
\* The retention job takes expired rows.
SweepExpired ==
    /\ LET expired == {c \in Cookies : trust[c] # NoRow /\ trust[c].expires < now} IN
       /\ expired # {}
       /\ trust' = Without(expired)
       /\ signin' = Robbed(expired, NoRow)
    /\ UNCHANGED <<enrolled, enabled, reset, now, brokenOff>>

DaysPass ==
    /\ now < MaxNow
    /\ now' = now + 1
    /\ UNCHANGED <<trust, signin, enrolled, enabled, reset, brokenOff>>

DevicesNext ==
    \/ \E s \in SignIns :
        \/ Begin(s) \/ DeleteOld(s) \/ Verify(s) \/ Leave(s) \/ Enroll(s) \/ Disable(s)
        \/ CreateNew(s) \/ VerifyAndTrust(s)
        \/ \E c \in Cookies : BeginTrusted(s, c) \/ ForgetOne(s, c)
    \/ \E x \in Resets : ResetFactor(x) \/ ResetDevices(x) \/ ResetFlag(x) \/ ResetSessions(x)
                         \/ ResetBreaksOff(x)
    \/ SweepExpired \/ DaysPass

DevicesSpec == DevicesInit /\ [][DevicesNext]_deviceVars

-----------------------------------------------------------------------------
(* Properties.                                                             *)

Past == [issued : Int, forked : BOOLEAN, former : BOOLEAN, escaped : BOOLEAN]
TrustRow == [first : Int, expires : Int, past : Past]

\* Every variable stays in its type.
DevicesTypeOK ==
    /\ trust \in [Cookies -> TrustRow \cup {NoRow}]
    /\ signin \in [SignIns -> [pc : {"away", "found", "deleted", "asked", "in"},
                               cookie : Cookies \cup {NoRow}, stash : Int \cup {NoRow}, past : Past]]
    /\ enrolled \in BOOLEAN /\ enabled \in BOOLEAN /\ brokenOff \in BOOLEAN
    /\ reset \in [Resets -> {"new", "devices", "flag", "sessions", "done"}]
    /\ now \in Int

\* However often a trusted browser signs in, its trust ends three windows after
\* the user gave it, and the page says since when; unless somebody else took a
\* row away from a sign-in that was replacing it
\* (trustedDeviceVerificationHooks).
TrustEndsAtTheCeiling ==
    \A c \in Cookies : trust[c] # NoRow /\ ~trust[c].past.forked =>
        /\ trust[c].first = trust[c].past.issued
        /\ trust[c].expires <= trust[c].past.issued + MaxWindows * Days

\* A trust given before the user's devices were cleared opens nothing after it,
\* unless a sign-in was replacing its row meanwhile (clearTrustedDevices).
ClearedTrustOpensNothing ==
    \A c \in Cookies : Live(c) /\ trust[c].past.former => trust[c].past.escaped

\* A user of whom a second factor is asked has one, unless a reset is on its way
\* to the flag or stopped before it and nobody has repeated it (resetTwoFactor's
\* writes).
NobodyIsLockedOut ==
    enabled => enrolled \/ brokenOff \/ \E x \in Resets : reset[x] \in {"devices", "flag"}
=============================================================================
