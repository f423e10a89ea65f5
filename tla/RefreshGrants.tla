--------------------------- MODULE RefreshGrants ---------------------------
(***************************************************************************)
(* The refresh tokens of an account and everything that takes them away:   *)
(* oidc/revoke-user-tokens.ts and its callers, oidc/refresh-lifetime.ts,    *)
(* the checks auth/options/session-standing.ts puts in front of a grant,   *)
(* the revocations of oidc/reconcile.ts and the sweep of cleanup.ts.       *)
(*                                                                         *)
(* A grant is what a user once gave a client: the tokens rotated out of it *)
(* share its number, the authorization_code_id of the table. A rotation is *)
(* two writes of the provider, which spends the presented token and then   *)
(* inserts its successor; an explicit sign-out is a revocation and then    *)
(* the deletion of the sessions, which clears the session of every token   *)
(* row left. The handlers run between each other's steps.                  *)
(***************************************************************************)
EXTENDS Integers, Sequences, FiniteSets

CONSTANTS
    Users,
    Clients,
    Sessions,     \* the sessions that can ever exist
    UserOf,       \* UserOf[s]: who signed in
    Requests,     \* refresh grants that may be in flight together
    NoSession,    \* a token row whose session has been deleted
    Never,        \* a time that has not come
    Ttl,          \* oauth.refreshTokenTtl, restarted by every rotation
    MaxLifetime,  \* oauth.refreshTokenMaxLifetime
    Grace,        \* TOKEN_GRACE_DAYS
    RevokeOnLogout, \* session.revokeOAuthTokensOnLogout
    MaxStall,     \* bound on the time a refresh grant takes
    Budgets       \* the scenarios: bounds on time, tokens, grants, sessions, requests, events

\* cross-checks.ts refuses a sliding lifetime above the absolute one.
ASSUME GrantsAssumption ==
    /\ UserOf \in [Sessions -> Users]
    /\ NoSession \notin Sessions
    /\ Ttl \in Nat /\ MaxLifetime \in Nat /\ Ttl <= MaxLifetime
    /\ Grace \in Nat /\ MaxStall \in Nat
    /\ Never \notin Nat
    /\ RevokeOnLogout \in BOOLEAN
    /\ Budgets \subseteq [time : Nat, tokens : Nat, grants : Nat, sessions : Nat, parallel : Nat,
                          ends : Nat, restarts : Nat, failures : Nat]

VARIABLES
    now,
    standing,  \* standing[u]: "active", "barred" (banned, pending) or "rejected"
    disabled,  \* the clients that are disabled
    session,   \* session[s]: "unused", "live" or "gone"
    grants,    \* the grants, oldest first: [user, client, session, at]
    approved,  \* the grants a device code carries, not redeemed yet
    tokens,    \* oauth_refresh_token: a row for each id in its domain
    issued,    \* how many rows were ever inserted
    request,   \* request[q]: [pc, row, over, since]
    handler,   \* the sign-out, ban or rejection that runs
    budget,    \* the bounds of the behaviour, and how many events are left of each kind
    ended,     \* history: the grants a finished revocation was meant to end
    excuse,    \* history: excuse[f]: why the last one may have missed it
    spent      \* history: spent[id]: when a rotation spent the token

store == <<grants, approved, tokens, issued>>
history == <<ended, excuse, spent>>
vars == <<now, standing, disabled, session, store, request, handler, budget, history>>

Grants == 1..Len(grants)
Unrevoked(id) == id \in DOMAIN tokens /\ tokens[id].revoked = Never
Idle == [pc |-> "idle", row |-> 0, over |-> {}, since |-> 0]
Rotating(f) == \E q \in Requests : request[q].pc = "insert" /\ request[q].row.grant = f
Bounded(k) == budget[k] > 0
Counted(k) == budget' = [budget EXCEPT ![k] = @ - 1]

-----------------------------------------------------------------------------
(* The grants. *)

\* Better Auth refuses a session to a user who may not sign in.
SignIn(s) ==
    /\ session[s] = "unused" /\ standing[UserOf[s]] = "active"
    /\ Cardinality({x \in Sessions : session[x] # "unused"}) < budget.sessions
    /\ session' = [session EXCEPT ![s] = "live"]
    /\ UNCHANGED <<now, standing, disabled, store, request, handler, budget, history>>

\* The row the provider writes: its clock and its lifetime start now.
Row(f, s) == [grant |-> f, session |-> s, at |-> now, expires |-> now + Ttl, revoked |-> Never]

Insert(f, s) ==
    /\ issued < budget.tokens
    /\ issued' = issued + 1
    /\ tokens' = [id \in DOMAIN tokens \cup {issued + 1} |->
                    IF id = issued + 1 THEN Row(f, s) ELSE tokens[id]]

\* A new grant f of user u to client c, through session s.
Grant(u, c, s) ==
    /\ Len(grants) < budget.grants
    /\ c \notin disabled
    /\ grants' = Append(grants, [user |-> u, client |-> c, session |-> s, at |-> now])

\* The code flow: routes/oauth2/authorize.ts asks nextGate, the provider
\* issues and redeems the code while the session exists.
Authorize(s, c) ==
    /\ session[s] = "live" /\ standing[UserOf[s]] = "active"
    /\ Grant(UserOf[s], c, s)
    /\ Insert(Len(grants) + 1, s)
    /\ UNCHANGED <<now, standing, disabled, session, approved, request, handler, budget, history>>

\* The device flow: the user approves in a browser ...
Approve(s, c) ==
    /\ session[s] = "live" /\ standing[UserOf[s]] = "active"
    /\ Grant(UserOf[s], c, NoSession)
    /\ approved' = approved \cup {Len(grants) + 1}
    /\ UNCHANGED <<now, standing, disabled, session, tokens, issued, request, handler, budget, history>>

\* ... and the client's next poll, which assertDeviceOwnerMaySignIn lets by,
\* collects the tokens. A refused poll consumes nothing.
Redeem(f) ==
    /\ f \in approved
    /\ standing[grants[f].user] = "active" /\ grants[f].client \notin disabled
    /\ approved' = approved \ {f}
    /\ grants' = [grants EXCEPT ![f].at = now]
    /\ Insert(f, NoSession)
    /\ UNCHANGED <<now, standing, disabled, session, request, handler, budget, history>>

-----------------------------------------------------------------------------
(* A refresh grant. *)

Step(q, r) == request' = [request EXCEPT ![q] = r]

\* Presents a token; assertRefreshOwnerMaySignIn reads the owner of a row, and
\* leaves a token the table does not have (id 0) to the provider.
Present(q, id) ==
    /\ request[q].pc = "idle"
    /\ Cardinality({x \in Requests : request[x].pc # "idle"}) < budget.parallel
    /\ id # 0 => standing[grants[tokens[id].grant].user] = "active"
    /\ Step(q, [pc |-> "ceiling", row |-> id, over |-> {}, since |-> now])
    /\ UNCHANGED <<now, standing, disabled, session, store, handler, budget, history>>

\* The families revokeExpiredRefreshFamilies selects: rows with no
\* authorization code, a device grant's, belong to none.
OverAge == {f \in Grants : grants[f].session # NoSession /\ \E id \in DOMAIN tokens :
                /\ Unrevoked(id) /\ tokens[id].grant = f
                /\ tokens[id].at < now - MaxLifetime}

\* What is marked in a set of rows; a revoked row keeps its stamp.
Revoked(S) == [id \in DOMAIN tokens |->
    IF id \in S /\ Unrevoked(id) THEN [tokens[id] EXCEPT !.revoked = now] ELSE tokens[id]]

OfGrants(F) == {id \in DOMAIN tokens : tokens[id].grant \in F}

SelectOverAge(q) ==
    /\ request[q].pc = "ceiling"
    /\ Step(q, [request[q] EXCEPT !.pc = "over", !.over = OverAge])
    /\ UNCHANGED <<now, standing, disabled, session, store, handler, budget, history>>

RevokeOverAge(q) ==
    /\ request[q].pc = "over"
    /\ tokens' = Revoked(OfGrants(request[q].over))
    /\ Step(q, [request[q] EXCEPT !.pc = "lookup", !.over = {}])
    /\ UNCHANGED <<now, standing, disabled, session, grants, approved, issued, handler, budget, history>>

\* The ceiling never fails the request: the error is logged.
CeilingFails(q) ==
    /\ request[q].pc \in {"ceiling", "over"} /\ Bounded("failures") /\ Counted("failures")
    /\ Step(q, [request[q] EXCEPT !.pc = "lookup", !.over = {}])
    /\ UNCHANGED <<now, standing, disabled, session, store, handler, history>>

\* The provider finds the row; a token that was used before ends its family.
Lookup(q) ==
    /\ request[q].pc = "lookup"
    /\ LET id == request[q].row IN
       IF Unrevoked(id) /\ now <= tokens[id].expires /\ grants[tokens[id].grant].client \notin disabled
       THEN /\ Step(q, [request[q] EXCEPT !.pc = "spend"])
            /\ UNCHANGED tokens
       ELSE /\ Step(q, Idle)
            /\ tokens' = IF id \in DOMAIN tokens /\ ~Unrevoked(id)
                           THEN Revoked(OfGrants({tokens[id].grant})) ELSE tokens
    /\ UNCHANGED <<now, standing, disabled, session, grants, approved, issued, handler, budget, history>>

\* The same without the comparison.
SpendMutant(q) ==
    /\ request[q].pc = "spend" /\ request[q].row \in DOMAIN tokens
    /\ LET id == request[q].row IN
       /\ tokens' = Revoked({id})
       /\ spent' = [spent EXCEPT ![id] = now]
       /\ Step(q, [request[q] EXCEPT !.pc = "insert", !.row = tokens[id]])
    /\ UNCHANGED <<now, standing, disabled, session, grants, approved, issued, handler, budget, ended, excuse>>

\* The compare-and-set that spends the token, and what the request carries on.
Spend(q) ==
    /\ request[q].pc = "spend"
    /\ LET id == request[q].row IN
       IF Unrevoked(id)
       THEN /\ tokens' = Revoked({id})
            /\ spent' = [spent EXCEPT ![id] = now]
            /\ Step(q, [request[q] EXCEPT !.pc = "insert", !.row = tokens[id]])
       ELSE /\ Step(q, Idle)
            /\ \/ UNCHANGED tokens
               \/ /\ id \in DOMAIN tokens
                  /\ tokens' = Revoked(OfGrants({tokens[id].grant}))
            /\ UNCHANGED spent
    /\ UNCHANGED <<now, standing, disabled, session, grants, approved, issued, handler, budget, ended, excuse>>

\* The successor keeps the grant and the session and starts its own clock; a
\* session deleted since makes the insert break its foreign key.
Succeed(q) ==
    /\ request[q].pc = "insert"
    /\ LET row == request[q].row IN
       IF row.session = NoSession \/ session[row.session] = "live"
       THEN Insert(row.grant, row.session)
       ELSE UNCHANGED <<tokens, issued>>
    /\ Step(q, Idle)
    /\ UNCHANGED <<now, standing, disabled, session, grants, approved, handler, budget, history>>

\* The process goes away under the request.
Die(q) ==
    /\ request[q].pc # "idle"
    /\ Step(q, Idle)
    /\ UNCHANGED <<now, standing, disabled, session, store, handler, budget, history>>

-----------------------------------------------------------------------------
(* What ends sessions. Deleting one sets session_id to null in the table.  *)

\* Nothing is cleared.
DetachedMutant(S, t) == t

Detached(S, t) == [id \in DOMAIN t |->
    IF t[id].session \in S THEN [t[id] EXCEPT !.session = NoSession] ELSE t[id]]

Gone(S) == session' = [s \in Sessions |-> IF s \in S /\ session[s] = "live" THEN "gone" ELSE session[s]]

OfUser(u) == {s \in Sessions : UserOf[s] = u}

\* revokeForSession: the rows that still name the session.
OfSession(s) == {id \in DOMAIN tokens : tokens[id].session = s /\ grants[tokens[id].grant].user = UserOf[s]}

\* A plain logout: the session.delete.before hook, then the deletion.
Logout(s) ==
    /\ session[s] = "live" /\ Bounded("ends") /\ Counted("ends")
    /\ tokens' = Detached({s}, IF RevokeOnLogout THEN Revoked(OfSession(s)) ELSE tokens)
    /\ Gone({s})
    /\ UNCHANGED <<now, standing, disabled, grants, approved, issued, request, handler, history>>

\* The hourly sweep deletes expired sessions in plain SQL, where no hook runs.
SweepSession(s) ==
    /\ session[s] = "live" /\ Bounded("ends") /\ Counted("ends")
    /\ tokens' = Detached({s}, tokens)
    /\ Gone({s})
    /\ UNCHANGED <<now, standing, disabled, grants, approved, issued, request, handler, history>>

-----------------------------------------------------------------------------
(* The handlers that take tokens away, one at a time.                      *)

Resting == [stage |-> "rest", user |-> NoSession, left |-> {}, doomed |-> {}, listed |-> {}, known |-> 0]

Begin(stage, u, left, doomed) ==
    /\ handler = Resting /\ Bounded("ends") /\ Counted("ends")
    /\ handler' = [stage |-> stage, user |-> u, left |-> left, doomed |-> doomed,
                   listed |-> left, known |-> Len(grants)]

\* Why a revocation that runs now over the grants F may miss f.
Reasons(f) ==
    (IF Rotating(f) THEN {"rotating"} ELSE {})
    \cup (IF f \in approved THEN {"approved"} ELSE {})
    \cup (IF grants[f].session # NoSession /\ session[grants[f].session] # "live" THEN {"detached"} ELSE {})
Judge(F) == excuse' = [f \in 1..budget.grants |-> IF f \in F THEN Reasons(f) ELSE excuse[f]]

Through(S) == {f \in Grants : grants[f].session \in S}
Of(u) == {f \in Grants : grants[f].user = u}

\* /account/sessions, "sign this one out": s is the caller's own.
BeginSession(s) ==
    /\ session[s] = "live"
    /\ Begin("revoke", UserOf[s], {s}, {s})
    /\ UNCHANGED <<now, standing, disabled, session, store, request, history>>

\* "Sign out everywhere else", from session s: revokeForOtherSessions lists
\* the others and revokes one after another.
BeginOthers(s) ==
    /\ session[s] = "live"
    /\ LET others == OfUser(UserOf[s]) \ {s} IN
       Begin("revoke", UserOf[s], {x \in others : session[x] = "live"}, others)
    /\ UNCHANGED <<now, standing, disabled, session, store, request, history>>

RevokeSession(s) ==
    /\ handler.stage = "revoke" /\ s \in handler.left
    /\ tokens' = Revoked(OfSession(s))
    /\ handler' = [handler EXCEPT !.left = @ \ {s}]
    /\ Judge(Through({s}))
    /\ UNCHANGED <<now, standing, disabled, session, grants, approved, issued, request, budget, ended, spent>>

\* Better Auth deletes the sessions, those opened meanwhile included.
Deletion ==
    /\ LET dead == {s \in handler.doomed : session[s] = "live"}
           meant == Through(handler.listed \cup dead)
       IN /\ Gone(dead)
          /\ tokens' = Detached(dead, tokens)
          /\ ended' = ended \cup meant
          /\ excuse' = [f \in 1..budget.grants |->
                          IF f \in meant /\ f > handler.known THEN excuse[f] \cup {"during"} ELSE excuse[f]]
    /\ handler' = Resting
    /\ UNCHANGED <<now, standing, disabled, grants, approved, issued, request, budget, spent>>

\* The deletion does not wait for the revocations.
DeleteSessionsMutant == handler.stage = "revoke" /\ Deletion

DeleteSessions == handler.stage = "revoke" /\ handler.left = {} /\ Deletion

\* A ban, or another status through /admin/update-user: Better Auth writes the
\* user (a ban deletes the sessions too), the after hook revokes.
BeginBar(u) ==
    /\ standing[u] = "active" /\ Bounded("ends")
    /\ handler = Resting
    /\ Counted("ends")
    /\ standing' = [standing EXCEPT ![u] = "barred"]
    /\ handler' = [Resting EXCEPT !.stage = "all", !.user = u, !.known = Len(grants)]
    /\ \/ Gone(OfUser(u)) /\ tokens' = Detached(OfUser(u), tokens)
       \/ UNCHANGED <<session, tokens>>
    /\ UNCHANGED <<now, disabled, grants, approved, issued, request, history>>

\* /admin/revoke-user-sessions, and a password written for u, which may keep
\* the sessions: the after hook revokes.
BeginSignOut(u) ==
    /\ Begin("all", u, {}, {})
    /\ \/ Gone(OfUser(u)) /\ tokens' = Detached(OfUser(u), tokens)
       \/ UNCHANGED <<session, tokens>>
    /\ UNCHANGED <<now, standing, disabled, grants, approved, issued, request, history>>

\* Only the rows that still name a session.
OfOwnerMutant(u) == {id \in DOMAIN tokens :
    grants[tokens[id].grant].user = u /\ tokens[id].session # NoSession}

OfOwner(u) == {id \in DOMAIN tokens : grants[tokens[id].grant].user = u}

\* revokeAllForUser.
RevokeAll ==
    /\ handler.stage = "all"
    /\ tokens' = Revoked(OfOwner(handler.user))
    /\ LET meant == {f \in Of(handler.user) : f <= handler.known} IN
       Judge(meant) /\ ended' = ended \cup meant
    /\ handler' = Resting
    /\ UNCHANGED <<now, standing, disabled, session, grants, approved, issued, request, budget, spent>>

\* /idp/reject-user: the status, then the sessions; no token is touched.
BeginReject(u) ==
    /\ handler = Resting /\ standing[u] # "rejected" /\ Bounded("ends")
    /\ Counted("ends")
    /\ standing' = [standing EXCEPT ![u] = "rejected"]
    /\ handler' = [Resting EXCEPT !.stage = "reject", !.user = u]
    /\ UNCHANGED <<now, disabled, session, store, request, history>>

FinishReject ==
    /\ handler.stage = "reject"
    /\ Gone(OfUser(handler.user))
    /\ tokens' = Detached(OfUser(handler.user), tokens)
    /\ handler' = Resting
    /\ UNCHANGED <<now, standing, disabled, grants, approved, issued, request, budget, history>>

\* A query of the handler throws, or its process goes away: what it had left
\* to do is not done (the after hook logs it and answers success).
HandlerFails ==
    /\ handler # Resting
    /\ handler' = Resting
    /\ UNCHANGED <<now, standing, disabled, session, store, request, budget, history>>

\* An unban, or /idp/approve-user.
Lift(u) ==
    /\ standing[u] # "active"
    /\ standing' = [standing EXCEPT ![u] = "active"]
    /\ UNCHANGED <<now, disabled, session, store, request, handler, budget, history>>

\* /account/consents: revokeForClient.
Disconnect(u, c) ==
    /\ Bounded("ends") /\ Counted("ends")
    /\ LET meant == {f \in Of(u) : grants[f].client = c} IN
       /\ tokens' = Revoked(OfGrants(meant))
       /\ Judge(meant)
       /\ ended' = ended \cup meant
    /\ UNCHANGED <<now, standing, disabled, session, grants, approved, issued, request, handler, spent>>

\* A start whose file lacks c: one transaction disables the client and stamps
\* every row of it, the ones revoked before included.
Stamped(c) == [id \in DOMAIN tokens |->
    IF grants[tokens[id].grant].client = c THEN [tokens[id] EXCEPT !.revoked = now] ELSE tokens[id]]

Reconcile(c) ==
    /\ Bounded("restarts") /\ Counted("restarts")
    /\ disabled' = disabled \cup {c}
    /\ tokens' = Stamped(c)
    /\ LET meant == {f \in Grants : grants[f].client = c} IN
       Judge(meant) /\ ended' = ended \cup meant
    /\ UNCHANGED <<now, standing, session, grants, approved, issued, request, handler, spent>>

\* A start whose file has c again.
Restore(c) ==
    /\ c \in disabled
    /\ disabled' = disabled \ {c}
    /\ UNCHANGED <<now, standing, session, store, request, handler, budget, history>>

-----------------------------------------------------------------------------
\* A revoked row does not wait out its grace.
SweptMutant(id) == LET row == tokens[id] IN
    row.expires < now - Grace \/ row.revoked # Never

\* cleanup.ts: a row goes a grace after it expired or was revoked.
Swept(id) == LET row == tokens[id] IN
    row.expires < now - Grace \/ (row.revoked # Never /\ row.revoked < now - Grace)

Cleanup ==
    /\ \E id \in DOMAIN tokens : Swept(id)
    /\ tokens' = [id \in {i \in DOMAIN tokens : ~Swept(i)} |-> tokens[id]]
    /\ UNCHANGED <<now, standing, disabled, session, grants, approved, issued, request, handler, budget, history>>

Tick ==
    /\ now < budget.time
    /\ \A q \in Requests : request[q].pc # "idle" => now - request[q].since < MaxStall
    /\ now' = now + 1
    /\ UNCHANGED <<standing, disabled, session, store, request, handler, budget, history>>

Init ==
    /\ now = 0
    /\ standing = [u \in Users |-> "active"]
    /\ disabled = {}
    /\ session = [s \in Sessions |-> "unused"]
    /\ grants = <<>> /\ approved = {}
    /\ tokens = [id \in {} |-> 0] /\ issued = 0
    /\ request = [q \in Requests |-> Idle]
    /\ handler = Resting
    /\ budget \in Budgets
    /\ ended = {}
    /\ excuse = [f \in 1..budget.grants |-> {}]
    /\ spent = [id \in 1..budget.tokens |-> Never]

Granting ==
    \/ \E s \in Sessions : SignIn(s)
    \/ \E s \in Sessions, c \in Clients : Authorize(s, c) \/ Approve(s, c)
    \/ \E f \in Grants : Redeem(f)

Refreshing == \E q \in Requests :
    \/ \E id \in DOMAIN tokens \cup {0} : Present(q, id)
    \/ SelectOverAge(q) \/ RevokeOverAge(q) \/ CeilingFails(q)
    \/ Lookup(q) \/ Spend(q) \/ Succeed(q) \/ Die(q)

Ending ==
    \/ \E s \in Sessions : Logout(s) \/ SweepSession(s) \/ BeginSession(s) \/ BeginOthers(s) \/ RevokeSession(s)
    \/ DeleteSessions \/ RevokeAll \/ FinishReject \/ HandlerFails
    \/ \E u \in Users : BeginBar(u) \/ BeginSignOut(u) \/ BeginReject(u) \/ Lift(u)
    \/ \E u \in Users, c \in Clients : Disconnect(u, c)
    \/ \E c \in Clients : Reconcile(c) \/ Restore(c)

Next == Granting \/ Refreshing \/ Ending \/ Cleanup \/ Tick

Spec == Init /\ [][Next]_vars

-----------------------------------------------------------------------------
(* Properties. *)
Times == 0..budget.time \cup {Never}
RowSet == [grant : Grants, session : Sessions \cup {NoSession}, at : 0..budget.time,
           expires : Int, revoked : Times]

\* Every variable stays in its type: a row names a grant that exists, and an
\* unrevoked row names only a session that exists.
TypeOK ==
    /\ now \in 0..budget.time
    /\ standing \in [Users -> {"active", "barred", "rejected"}]
    /\ disabled \subseteq Clients
    /\ session \in [Sessions -> {"unused", "live", "gone"}]
    /\ \A f \in Grants : grants[f] \in [user : Users, client : Clients,
            session : Sessions \cup {NoSession}, at : 0..budget.time]
    /\ approved \subseteq Grants
    /\ DOMAIN tokens \subseteq 1..issued /\ issued \in 0..budget.tokens
    /\ \A id \in DOMAIN tokens : /\ tokens[id] \in RowSet
                                 /\ tokens[id].session = NoSession \/ session[tokens[id].session] = "live"
    /\ \A q \in Requests : request[q].pc \in {"idle", "ceiling", "over", "lookup", "spend", "insert"}
    /\ handler.stage \in {"rest", "revoke", "all", "reject"}
    /\ ended \subseteq Grants
    /\ \A f \in 1..budget.grants : excuse[f] \subseteq {"rotating", "approved", "detached", "during"}

Held(f) == {id \in OfGrants({f}) : Unrevoked(id)}

\* A grant is held once: at most one unrevoked token, or one rotation about to
\* insert one, or one device code about to be redeemed. The detection of reuse
\* rests on it, since two tokens of a grant would both be good.
OneTokenPerGrant == \A f \in Grants :
    Cardinality(Held(f))
    + Cardinality({q \in Requests : request[q].pc = "insert" /\ request[q].row.grant = f})
    + (IF f \in approved THEN 1 ELSE 0) <= 1

\* What a finished sign-out, ban, disconnection or reconciliation was meant to
\* end holds no unrevoked token ever after, however its steps fell between
\* those of a refresh; except a grant that was rotating at that moment, was
\* carried by a device code, had lost its session, or was given during it.
EndedStaysEnded == \A f \in ended : Held(f) = {} \/ excuse[f] # {}

\* A token that a rotation spent keeps its row for the grace, but for the time
\* its rotation took, so that its reuse is recognised, whatever the cleanup and
\* the revocations do meanwhile.
SpentTokensAreRemembered == \A id \in 1..budget.tokens :
    spent[id] # Never /\ now - spent[id] <= Grace - MaxStall => id \in DOMAIN tokens

\* "A family that started more than refreshTokenMaxLifetime ago is revoked
\* outright": a grant given longer ago yields no token (refresh-lifetime.ts 15-17).
NothingOutlivesTheMaximum == \A id \in DOMAIN tokens :
    tokens[id].at - grants[tokens[id].grant].at <= MaxLifetime

\* "The user's whole OAuth footprint goes" with a rejection too: a rejected
\* user holds no unrevoked token (revoke-user-tokens.ts 7-9).
RejectionTakesTheTokens == \A u \in Users :
    standing[u] = "rejected" /\ handler = Resting => \A f \in Of(u) : Held(f) = {} \/ excuse[f] # {}
=============================================================================
