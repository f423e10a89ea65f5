------------------------------ MODULE Standing ------------------------------
(***************************************************************************)
(* Who may act: the sessions of one user and what is asked with them while  *)
(* administrators bar the user and let them in again                        *)
(* (auth/options/database-hooks.ts, http/session.ts, http/require-session,  *)
(* auth/options/api-key-gate.ts, auth/plugins/idp-plugin.ts).               *)
(*                                                                         *)
(* Barred stands for what assertUserMaySignIn refuses: a ban in force, a    *)
(* status that is pending or rejected.  The gate in front of a new session  *)
(* reads the user in a statement of its own, so a bar and its deletion of   *)
(* the sessions can fall between the read and the row.  A browser's cookie  *)
(* carries a copy of the user and is believed for a while.                  *)
(***************************************************************************)
EXTENDS Integers

CONSTANTS
    Browsers,    \* the user's browsers, each of which signs in once
    Asks,        \* requests, several at a time
    Bars,        \* calls that bar the user
    CacheTime,   \* session.cookieCacheMinutes
    SignInTime,  \* bound on the time from a sign-in's first read to its cookie
    NoTime,      \* not yet
    MaxMinute    \* bound on the time

ASSUME StandingAssumption ==
    /\ CacheTime \in Nat /\ SignInTime \in Nat /\ MaxMinute \in Nat
    /\ NoTime \notin Nat

VARIABLES
    barred,      \* the user may not sign in
    browser,     \* browser[b]: its sign-in, its cookie's copy, the end of its row
    ask,         \* ask[q]: where the request is, its kind and browser
    barring,     \* barring[a]: where the call is
    minute,
    barredAt     \* history: when the user was barred, while that lasts

standingVars == <<barred, browser, ask, barring, minute, barredAt>>

\* since: when the sign-in read the user; seen: whether it may sign in by that
\* read, which is what the copy says at first; copied: when the copy was made;
\* ended: when the session's row went.
NewBrowser == [pc |-> "out", since |-> 0, seen |-> FALSE, copied |-> 0, ended |-> NoTime]

\* met is history: since the request came, there was a moment at which the user
\* was not barred and the session had its row.
NoAsk(b) == [pc |-> "none", kind |-> "page", from |-> b, met |-> FALSE]

StandingInit ==
    /\ barred = FALSE
    /\ browser = [b \in Browsers |-> NewBrowser]
    /\ ask \in {[q \in Asks |-> NoAsk(b)] : b \in Browsers}
    /\ barring = [a \in Bars |-> "new"]
    /\ minute = 0
    /\ barredAt = NoTime

-----------------------------------------------------------------------------
(* Signing in.                                                             *)

HasRow(b) == browser[b].pc = "in" /\ browser[b].ended = NoTime

\* Better Auth reads the user and verifies what was entered.
SignInReads(b) ==
    /\ browser[b].pc = "out"
    /\ browser' = [browser EXCEPT ![b] =
                    [NewBrowser EXCEPT !.pc = "read", !.since = minute, !.seen = ~barred]]
    /\ UNCHANGED <<barred, ask, barring, minute, barredAt>>

\* session.create.before: no session for anyone who is not active or is banned.
Gated(b) ==
    /\ browser[b].pc = "read"
    /\ browser' = [browser EXCEPT ![b] = IF barred THEN NewBrowser ELSE [@ EXCEPT !.pc = "gated"]]
    /\ UNCHANGED <<barred, ask, barring, minute, barredAt>>

\* The row is inserted and the cookie set, with the user as first read.
SessionOpens(b) ==
    /\ browser[b].pc = "gated"
    /\ browser' = [browser EXCEPT ![b].pc = "in", ![b].since = 0, ![b].copied = minute]
    /\ UNCHANGED <<barred, ask, barring, minute, barredAt>>

Ended(b) == [browser[b] EXCEPT !.ended = IF HasRow(b) THEN minute ELSE @]

\* The user signs the browser out from another, or it expires: the browser keeps
\* its cookie.
SessionRevoked(b) ==
    /\ HasRow(b)
    /\ browser' = [browser EXCEPT ![b] = Ended(b)]
    /\ UNCHANGED <<barred, ask, barring, minute, barredAt>>

-----------------------------------------------------------------------------
(* Requests: a page, a form that writes, or a call with an API key.        *)

AskComes(q, b, k) ==
    /\ ask[q].pc = "none"
    /\ k = "key" \/ browser[b].pc = "in"
    /\ ask' = [ask EXCEPT ![q] = [pc |-> "asked", kind |-> k, from |-> b,
                                   met |-> ~barred /\ (k = "key" \/ HasRow(b))]]
    /\ UNCHANGED <<barred, browser, barring, minute, barredAt>>

\* The cookie answers a page's question, and nobody else's (readSession with
\* `authoritative` for the rest; a key brings no cookie).
ByCopy(q) == ask[q].kind = "page" /\ minute < browser[ask[q].from].copied + CacheTime

\* Mutant: whoever has a row may act.
OfRowMutant(b) == HasRow(b)

\* readSession with maySignIn: a session outlives the bar that should have ended
\* it, so the user of the row is asked for again.
OfRow(b) == HasRow(b) /\ ~barred

\* The wrapped hook of the api-key plugin, which reads the key's owner.
OfKey == ~barred

Granted(q) ==
    CASE ByCopy(q) -> browser[ask[q].from].seen
      [] ask[q].kind = "key" -> OfKey
      [] OTHER -> OfRow(ask[q].from)

\* A read past the copy makes a new one if there is a row.
Recopied(q) ==
    LET b == ask[q].from IN
    IF ~ByCopy(q) /\ ask[q].kind # "key" /\ HasRow(b)
    THEN [browser EXCEPT ![b].copied = minute, ![b].seen = ~barred]
    ELSE browser

Replied(q) ==
    /\ ask[q].pc = "asked"
    /\ ask' = [ask EXCEPT ![q].pc = IF Granted(q) THEN "passed" ELSE "none"]
    /\ browser' = Recopied(q)
    /\ UNCHANGED <<barred, barring, minute, barredAt>>

\* The handler behind the check has done its work.
AskDone(q) ==
    /\ ask[q].pc = "passed"
    /\ ask' = [ask EXCEPT ![q].pc = "none"]
    /\ UNCHANGED <<barred, browser, barring, minute, barredAt>>

-----------------------------------------------------------------------------
(* Administrators.                                                         *)

Bar == /\ barred' = TRUE
       /\ barredAt' = IF barred THEN barredAt ELSE minute

\* /admin/ban-user and /idp/reject-user: the user first, the sessions after.
BarUser(a) ==
    /\ barring[a] = "new"
    /\ Bar
    /\ barring' = [barring EXCEPT ![a] = "written"]
    /\ UNCHANGED <<browser, ask, minute>>

EndUserSessions(a) ==
    /\ barring[a] = "written"
    /\ browser' = [b \in Browsers |-> Ended(b)]
    /\ barring' = [barring EXCEPT ![a] = "done"]
    /\ UNCHANGED <<barred, ask, minute, barredAt>>

\* The call fails half way.
BarringFails(a) ==
    /\ barring[a] = "written"
    /\ barring' = [barring EXCEPT ![a] = "done"]
    /\ UNCHANGED <<barred, browser, ask, minute, barredAt>>

\* A status written by /admin/update-user ends no session.
WriteStatus(a) ==
    /\ barring[a] = "new"
    /\ Bar
    /\ barring' = [barring EXCEPT ![a] = "done"]
    /\ UNCHANGED <<browser, ask, minute>>

\* /idp/approve-user, /admin/unban-user, or a ban that lapses: its end date is
\* in the copies too.
Restored(lapses) ==
    /\ barred
    /\ barred' = FALSE /\ barredAt' = NoTime
    /\ browser' = [b \in Browsers |->
                    IF lapses /\ browser[b].pc # "out" THEN [browser[b] EXCEPT !.seen = TRUE]
                    ELSE browser[b]]
    /\ ask' = [q \in Asks |->
                [ask[q] EXCEPT !.met = @ \/ (ask[q].pc = "asked"
                                              /\ (ask[q].kind = "key" \/ HasRow(ask[q].from)))]]
    /\ UNCHANGED <<barring, minute>>

\* Time passes; no sign-in takes longer than its bound.
MinutePasses ==
    /\ minute < MaxMinute
    /\ \A b \in Browsers : browser[b].pc \in {"read", "gated"} => minute < browser[b].since + SignInTime
    /\ minute' = minute + 1
    /\ UNCHANGED <<barred, browser, ask, barring, barredAt>>

StandingNext ==
    \/ \E b \in Browsers : SignInReads(b) \/ Gated(b) \/ SessionOpens(b) \/ SessionRevoked(b)
    \/ \E q \in Asks : \/ \E b \in Browsers, k \in {"page", "form", "key"} : AskComes(q, b, k)
                       \/ Replied(q) \/ AskDone(q)
    \/ \E a \in Bars : BarUser(a) \/ EndUserSessions(a) \/ BarringFails(a) \/ WriteStatus(a)
    \/ \E lapses \in BOOLEAN : Restored(lapses)
    \/ MinutePasses

StandingSpec == StandingInit /\ [][StandingNext]_standingVars

-----------------------------------------------------------------------------
(* Properties.                                                             *)

StandingTypeOK ==
    /\ barred \in BOOLEAN
    /\ browser \in [Browsers -> [pc : {"out", "read", "gated", "in"}, since : 0..MaxMinute,
                                 seen : BOOLEAN, copied : 0..MaxMinute,
                                 ended : (0..MaxMinute) \cup {NoTime}]]
    /\ ask \in [Asks -> [pc : {"none", "asked", "passed"}, kind : {"page", "form", "key"},
                         from : Browsers, met : BOOLEAN]]
    /\ barring \in [Bars -> {"new", "written", "done"}]
    /\ minute \in 0..MaxMinute
    /\ barredAt \in (0..MaxMinute) \cup {NoTime}
    /\ barred <=> barredAt # NoTime
    /\ \A b \in Browsers : browser[b].ended # NoTime => browser[b].pc = "in"

PassesNow(q) == ask[q].pc = "asked" /\ ask'[q].pc = "passed"

\* "A revocation, a suspension or a withdrawn approval must bite on the next
\* write" (require-session.ts): a form or a key passes only if the user was not
\* barred, and the session there, at some moment since it came.  "And not five
\* minutes after it": a page passes on a bar or a revocation that is younger
\* than the cookie's copy may be, with the sign-in that made it.
BarsBiteInTime ==
    [][\A q \in Asks : PassesNow(q) =>
        IF ask[q].kind # "page" THEN ask[q].met
        ELSE LET b == ask[q].from IN
             /\ barred => minute < barredAt + CacheTime + SignInTime
             /\ browser[b].ended # NoTime => minute < browser[b].ended + CacheTime]_standingVars
=============================================================================
