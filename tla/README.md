# Verification of semantius-idp

TLA+ models of the parts of the identity provider whose correctness depends on
the order in which things happen: TLC checks them on small instances, and TLAPS
proves the most important results for every value of the constants. Paths below
are relative to `apps/web/src/server/` unless they start elsewhere.

- [The system](#the-system)
- [Modules and the code they model](#modules-and-the-code-they-model)
- [Runs](#runs)
- [Bounds and fairness](#bounds-and-fairness)
- [Proofs](#proofs)
- [Where code and documents disagree](#where-code-and-documents-disagree)
- [Not modelled](#not-modelled)
- [Plan](#plan)

Everything runs from this directory: `tlc -config X.cfg MCx.tla` for a run of
the table below, `tlapm X_proofs.tla` for the proofs.

## The system

The application is one Node process per replica in front of one PostgreSQL
database. Better Auth and its OAuth provider plugin implement the protocol; the
repository wraps their endpoints, adds tables and endpoints of its own, and
proxies APIs ("gateways") for callers it has authenticated. State lives in the
tables, in module-level variables of the process (the gateway map, the token
caches, one promise of the runtime), and nowhere else. Three things make it
hard:

- **statements are not transactions.** Most handlers read, decide, and write in
  separate statements; only the jobs named in `db/advisory-lock.ts` exclude each
  other, and a lock goes with its connection.
- **every await is a gap.** Within one process, a cache can be emptied between
  the await that fetches a value and the line that stores it.
- **the library writes too.** Better Auth rotates tokens, mints keys and deletes
  sessions by its own rules, and the hooks run before or after, never inside.

| Component | State | Operations | What makes it correct |
|---|---|---|---|
| Signing keys (`oidc/rotate-keys.ts`, `startup.ts`, `cleanup.ts`) | `jwks` rows: `createdAt`, `expiresAt` | sign, mint, rotate, purge | a live token's key is published; successors take over in order; deadlines do not move away |
| Gateway registry (`gateways/registry.ts`) | map, `loadedAt`, in-flight promise | lookup, load, reset | a change is visible at once; loads stay few; a stale map is replaced |
| Gateway proxy (`gateways/proxy.ts`) | token cache, refusal cache, miss counters | exchange, store, evict, reset | an ended credential stops working; a token names its gateway's audience; the cache is bounded |
| Admin guard (`admin/guard.ts`, `admin/invariants.ts`) | `user.role`, `status`, ban | guarded and unguarded writes | an administrator who can sign in remains |
| Token revocation (`oidc/revoke-user-tokens.ts` and callers) | refresh and access rows, sessions | sign-outs, bans, rejections, disconnects | what was ended stays ended |
| Refresh grants (`auth/options/session-standing.ts`, `oidc/refresh-lifetime.ts`) | refresh rows: `createdAt`, `revoked`, family | present, ceiling, rotate | one token per grant; reuse is recognised; an absolute lifetime |
| Client table (`oidc/reconcile.ts`, `admin/endpoints.ts`, `oidc/client-origins.ts`) | `oauth_client` rows, owner; the cache of allowed origins | upsert, disable, prune; create, edit, rotate, delete | the file's clients are as the file has them; the last call holds; the origins are the enabled clients' |
| Gateway table (`gateways/reconcile.ts`, `admin/endpoints.ts`) | `gateway` rows, `source` | claim, prune, create, edit, delete | a row has one owner; the file's rows follow the file |
| Retention job (`cleanup.ts`) | every expiring table | sweep under a skip-if-locked lock | nothing is removed that is still needed |
| First-user setup (`admin/first-user.ts`) | `user`, `account`, one-way memo | sign up the first administrator | exactly one account, and it can sign in |
| Advisory locks (`db/advisory-lock.ts`) | a lock per job and connection | acquire, wait, skip, lose | two holders never act together |
| Runtime and drain (`runtime.ts`, `http/lifecycle.ts`) | shared promise, in-flight count | start, retry, shut down | one runtime; pools are closed once |
| Rate limits (`http/rate-limit.ts`, `routes/oauth2/token.ts`) | `rate_limit` rows | peek, consume, reset | bounded overshoot |
| Forced password change (`http/admin-actions.ts`, `auth/options/session-standing.ts`, `auth/change-password.ts`) | `user.must_change_password`, the password, sessions | set, flag, sign in, pass a gate, change, reset | a temporary password buys nothing but its change; a replaced one leaves no session |
| Trusted devices (`auth/trusted-devices.ts`) | verification rows | issue, rotate, clear | an absolute ceiling; a clear takes all |
| One-shot stash, continuation (`http/one-shot.ts`, `oidc/continuation.ts`) | verification rows, cookies | put, take | taken once |
| Sessions and standing (`http/session.ts`, `http/require-session.ts`, `auth/options/database-hooks.ts`, `auth/plugins/idp-plugin.ts`) | `user.status`, the ban, session rows, the copy in each cookie | sign in, pages and forms, bar, restore, revoke | a bar bites on the next write, and on a page within the copy's time |
| API-key gate (`auth/options/api-key-gate.ts`) | none | check an owner | a parked owner's key opens nothing |

The parts interact in four ways. The admin guard's after hook calls the token
revocation and the token cache's reset. The gateway endpoints and the boot
reconciliation call the registry's reset. Everything that signs reads the key
table that rotations and the retention job write. The refresh grant runs
through the standing check, then the ceiling, then the provider's rotation,
while revocations, deletions of sessions, restarts and the retention job write
the same rows. `PROJECT.json` lists all components, with what is modelled of
each, and the hazards with the line where each bites.

## Modules and the code they model

Every component with state that several actors write has a module.
`SigningKeys`, `GatewayRegistry`, `AdminGuard`, `GatewayTokens`, `RefreshGrants`
and `ClientTable` have an `MC` module each, with TLC's instances. `GatewayTable`,
`RateLimits`, `TrustedDevices`, `FirstUser`, `ForcedChange`, `Standing` and `Lifecycle`
share `MCServer`. `OwnedTable` is abstract, and two modules implement it. Proofs are in the `_proofs` modules.
`PROJECT.json` maps every definition to its lines.

### `SigningKeys`

`rotateKeys` statement by statement (`TakeLock`, `ReadLive`, `CreateSuccessor`,
`Backdate`, `Retire`) under the rotateKeys lock, from any number of processes,
each of which may die between two statements (`Crash`; the lock goes with the
connection, what was written stays). Signing (`Sign`) takes no lock and uses
the newest live key, so it sees the table in every intermediate state; with no
live key the signature mints one (`MintAndSign`). `EnsureSigningKey` is the
start-up step, one action because start-ups exclude each other with the
signingKey lock. `Cleanup` is the retention job's delete from `jwks`.

Time is an integer. Backdating by a second is one unit, since only the order of
`createdAt` is read. `publishedAt`, `lastSigned` and `half` are history. The
assumptions are the relations `config/derive.ts` establishes (the grace period
covers the longest token) and that a rotation takes no longer than the
propagation window (`MaxStall <= Window`). The provider's choice of the newest
live key, minting, and the JWKS grace are external: they are modelled from the
options in `auth/instance.ts` and the comments of `rotate-keys.ts`.

### `GatewayRegistry`

The map is the version of the table it was read at. A load has three moments:
its query is sent (`Join`), the database answers (`ReadRows`), its continuation
runs (`Install`, or `Fail`). `LookupCold`, `LookupFresh` and `LookupExpired` are
the three branches of the lookup; only the first waits. A mutation is a commit
followed by a reset (`Commit`, `Reset`), with lookups and loads in between.
`ExternalCommit` is psql or a second replica. `Settle` is the `.finally`, which
clears the shared promise even when it is another load's. `overtaken` and `outdated`
are history: the loads that had their rows when a reset ran, and whether the map is
one of theirs; `owed` is what a lookup must see.

### `AdminGuard`

A guarded request is three moments: the before hook reads actor and target
(`Ask`), it loads the administrators and decides (`Decide`, `Refuse`), the
endpoint writes (`Write`). Nothing locks the user table in between. `undercut` and `raced` are history: the
requests past the rule since which an administrator was taken away, and whether
one of them took one away itself. Every write
no invariant covers is there too: creation, approval, unban, a ban that lapses,
`/idp/reject-user` and an update of `banExpires` alone.

### `GatewayTokens`

An exchange reads the row and misses the caches (`Exchange`), Better Auth
checks and signs (`Mint`), the continuation stores (`Store`). Writes that end
or restore a credential's owner, and edits of gateways, are followed by a step
of their own that empties the caches (`Follow`) — for the routes that do so:
`Empties` is the list the code has. `EndQuietly` is `/idp/reset-two-factor`, which
empties nothing, and `EndElsewhere` a change another process makes. The order of a
`Map`'s keys is the relation `older`, a strict total order on what the cache holds; a
key that is set again keeps its place in it, and a new one comes after all the others
(`Added`). The eviction's loop takes the oldest entry while there are too many; `Kept`
says what is left of it: the unexpired entries with few enough newer ones. The mint-miss limiter
is a refusal that may happen at any exchange. A lookup the cache answers
changes nothing and is no action.

### `RefreshGrants`

A grant is what a user gave a client once; the tokens rotated out of it share
its number, the `authorization_code_id` of the table (a device grant has none).
A refresh is the code's chain: `Present` (the standing check), `SelectOverAge`
and `RevokeOverAge` (the ceiling's query and update), `Lookup`, `Spend` and
`Succeed` (the provider's rotation: a compare-and-set on the row, then the
insert). The ceiling skips device grants, whose rows name no code. Around it, the handlers: a page that signs a session out revokes and
then has the session deleted, which sets `session_id` to null in every row
left; an administrator's ban or sign-out writes the user first and revokes in
the after hook; a rejection revokes nothing; a disconnection revokes by client;
a restart without the client disables it and stamps its rows. Any handler may
fail half way (`HandlerFails`), any request may die (`Die`).

Abstractions: redeeming a code is part of the authorization (a code whose
session has gone cannot insert a row: its foreign key fails); device codes do
not expire, which allows more than the code; one revocation handler runs at a
time; deleting users and clients is not modelled; access tokens are left out,
because JWTs cannot be revoked and opaque rows go with their refresh rows.
`excuse` records, for each grant a handler was meant to end, why it may have
been missed, and `EndedStaysEnded` speaks of all others.

### `ClientTable`

The rows of `oauth_client` under two kinds of writers. A start-up has its file (`BootStart`), takes the
lock and reads the table (`BootReads`), merges and revokes in one transaction
(`BootCommits`), or fails and leaves everything (`BootFails`); with no client in the
file it goes by without reconciling, as `startup.ts` does. A call asks whose the row is, then
creates, edits, rotates, disables or deletes it: create, update and delete wait
for the same lock, rotating and disabling wait for none, and all but the update
ask before the lock. An update writes back the whole row it read. After a
change, a refresh of the allowed origins reads the table and installs what it
read, in two steps that may overtake those of another. A process that is being
replaced goes on serving the calls it has. Resource links and metadata follow a
row in its transaction and are left out.

### `GatewayTable`

The four gateway endpoints and the start-up's reconciliation, each as the question it
asks and the write that follows, and the lock whose connection may be lost while
the work goes on. What follows a commit is in `GatewayRegistry` and `GatewayTokens`.

### `OwnedTable`

What both tables promise about owners, without calls, locks or transactions: a row is
the file's or an administrator's; administrators take free names (`Register`) and rows
go (`Remove`); a start-up claims any name of its file and drops only rows of the
file's (`Reconcile`). No row passes from one owner to another otherwise. `unlocked` is
the set of names of which that may fail, as somebody worked on them without the lock:
the file may lack them, and their rows may be deleted although they are the file's.

`GatewayTable` maps a row to its `source`, and `unlocked` to nothing until a lock is lost,
then to every name (`Owners`). `ClientTable` maps a row to its `owner` and `unlocked` to
the history `outside`, since deletions ask before they lock and removing an
administrator locks nothing (`ClientOwners`). `OwnersPassAsPromised`, in `MCServer`, is
both refinements.

### `FirstUser`

Forms posted to several instances: the pre-check with its per-process memo, the
wait for the lock and its time-out (`TimesOut`), the check again under the lock,
then user and password in two statements. The connection that holds the lock can be
lost, a process can die, a statement can fail, the library call between the
statements can hang, and a registration takes no lock at all.

### `ForcedChange`

One user, several requests of theirs, and an administrator whose form sets a
temporary password in one call and raises the flag in a second. A sign-in (with a
second factor or without) verifies, reads the flag, opens a session and is sent to
the wall or past it; a request with a session passes the wall when the row says so;
the user's change, or a reset by mail, is three writes: the password, the flag (in
a hook), the sessions. Each can stop in between. `outrun` and `settled` are history.
Requests the wall lets through in any case are left out, and so are the copy of a
session in a cookie and the order of the other gates.

### `Standing`

One user who is barred (banned, rejected, or set back to pending) and let in again,
and the browsers and API keys with which they ask for something. A sign-in reads the
user, passes the gate of `session.create.before`, and inserts the row: a bar and its
deletion of the sessions can fall in between, so a session can outlive what should
have ended it. A page believes the copy in the cookie until the copy is too old; a form
and everything else that is authoritative reads the row and asks for the user's
standing again; a key's owner is read at each call. `BarUser` and
`EndUserSessions` are two statements that may stop in between (`BarringFails`), a status
written by `/admin/update-user` ends no session, and a ban lapses in the copies as
well, since its date is in them. `met` and `barredAt` are history. The cookie's cache
is Better Auth's and external; roles and the last administrator are `AdminGuard`'s.

### `TrustedDevices`

A sign-in of a trusted browser finds its row, deletes it, and creates another;
the hooks carry the first issue across and cap the expiry. Clearing, the disabling
of the factor, the five writes of `/idp/reset-two-factor`, another sign-in and the
sweep come in between. `past` is the history of a trust across its rows.

### `RateLimits`

Both buckets of the token endpoint: a request looks, is forwarded, is answered and
counted in one of them, in fixed windows, with failures of the database that let
it through. Time is an integer, and a window starts with the first count in it.

### `Lifecycle`

The one promise all requests share, written by a request that builds, a build that
fails, the drain and the shutdown; the drain with its deadline and second signal.
A handler whose connection was cut goes on and may ask for a runtime again.

### `MCServer`

The parts above share no state, so one run checks them: `part` is chosen in the
initial state and never changes, and each behaviour is one of that part, with the others
as they begin. That adds the state spaces instead of multiplying them, and hides no
interaction, since there is none to hide. `TrustedDevices` is there twice: for a
long time without a reset ("devices"), and for a short one with it ("resets").

## Runs

Each passing run checks its module's type invariant where it is the largest
run of the module.

| Run | Property | What it says |
|---|---|---|
| `signing_keys` | `IssuedTokensVerify` | an unexpired token's key is in the JWKS, whatever rotations, crashes and purges did |
| | `TakeoverInPublicationOrder` | of two live keys the one published first takes over first, however many rotations queued up or died |
| | `ExpiryNeverPushedBack` | a deadline is compared on a value read earlier and still never moves away |
| `gateway_registry` | `VisibleUnlessTheMapWasOvertaken` | a lookup after a mutation's answer sees it, unless its map came of a load that had its rows when a reset ran |
| | `LoadsBoundedByResets` | loads in flight are at most one more than resets so far |
| | `EventuallyCurrent` | when writes stop, what is served is the table's, for good |
| `admin_guard` | `LastAdminLostOnlyToARace` | without the two unguarded routes, the last usable administrator is lost only to a removal past the rule when another one took an administrator away |
| `admin_guard_reject` | `UsableAdminRemains` | violated: see below |
| `gateway_tokens` | `RevocationReachesEveryGateway` | by whatever route access ended, the cache's lifetime bounds how long a token is served |
| | `NeverServedNearItsExpiry` | a served token has the margin left, less the time its mint took |
| | `OnlyARunningExchangeOutlivesTheReset` | after a reset, an ended credential is served only by an exchange that was running across it |
| | `AudienceHoldsUnlessReplaced` | a cached token names its gateway's audience, unless that gateway was deleted and created again |
| | `CacheBounded` | the limit holds with concurrent stores of one key and of several |
| `gateway_tokens_quiet` | `EndedSessionsOpenNothing` | violated: see below |
| `refresh_grants` | `EndedStaysEnded` | what a finished sign-out, ban, disconnection or restart was meant to end holds no unrevoked token again, with four named exceptions |
| | `OneTokenPerGrant` | with two requests for one grant: one unrevoked token, or one rotation, or one device code |
| | `SpentTokensAreRemembered` | a spent token's row is there for the grace, whatever the sweep, the ceiling and restarts do |
| `refresh_grants_ceiling` | `NothingOutlivesTheMaximum` | violated: see below |
| `refresh_grants_reject` | `RejectionTakesTheTokens` | violated: see below |
| `server` | `AllTypeOK` | the type invariant of the part |
| | `FileRowsFollowTheFile` | after a reconciliation the file's clients are as the file has them, but for calls that asked before it |
| | `RegisteredRowsSurviveAStart` | a start-up changes no client an administrator registered, unless the file names it |
| | `LastCallHolds` | a client is as the last answered calls left it, unless something committed while an edit ran |
| | `OriginsAreCurrent` | at rest, the allowed origins are the enabled clients', unless a refresh was overtaken |
| | `GatewaysFollowTheFile` | as long as no lock is lost, the file's gateways are as the file has them, but for a switch set across a claim |
| | `ManualRowsSurviveASweep` | no reconciliation touches an administrator's gateway its file does not name, lock or no lock |
| | `OwnersPassAsPromised` | the gateway table and the client table both implement `OwnedTable` |
| | `OvershootIsTheConcurrency` | a window's count exceeds its maximum by less than the requests in flight and the failed looks |
| | `TrustEndsAtTheCeiling` | however often it is renewed, a trust ends three windows after it was given |
| | `ClearedTrustOpensNothing` | a cleared trust opens nothing, unless a sign-in was replacing its row |
| | `NobodyIsLockedOut` | a factor that is asked for exists, but for a reset that is on its way or broke off |
| | `OneFirstUser` | one administrator comes of the setup page, unless a connection is lost under the lock |
| | `ClosedSetupHasAnAdmin` | once setup is closed somebody can sign in, but for a handler that ended between its two writes |
| | `WaitersAreAnswered` | who waits for the setup lock is answered, even if its holder hangs |
| | `TemporaryPasswordBuysNothing` | with a temporary password in force nothing passes the wall, outside two named gaps |
| | `ReplacedPasswordsOpenNothing` | a finished change leaves no session an earlier password opened in its time |
| | `BarsBiteInTime` | no form and no key passes on a standing that was over when it came, and a page only on a copy of its time |
| | `PoolsLastAsLongAsTheRequests` | unless the deadline cut requests off: a request's pools are open, two runtimes are never held together, an exit after one signal holds none |
| | `DrainEnds` | after a signal the process ends, whether or not the requests do |
| `client_edit` | `EditsLeaveDisabledAlone` | violated: see below |
| `client_emptied` | `RemovedClientsAreDisabled` | violated: see below |

The qualified properties name what the code really gives up. Four of those
exceptions contradict a comment, and the model reaches each of them:

- `outdated` in the registry: a load that read before a commit installs its rows
  after the reset, so the change is invisible for up to the TTL, where the header
  of `registry.ts` calls the mechanism exact. It is exact for whoever waits for a
  load, and for everybody again once that map is replaced.
- `late` in the token cache: an exchange checked before a revocation stores its
  token after the reset, where the header of `proxy.ts` says a revocation through
  this process punches straight through.
- `replaced`: `deleteGateway` and `createGateway` reset the registry and not the
  token cache, whose key names the gateway and not the audience.
- `excuse`: a revocation misses the successor a rotation is about to insert, a
  device code approved before it, tokens whose session was deleted earlier, and
  what was granted between the revocation and the deletion.

In `ForcedChange` there are two gaps. Between the administrator's two calls, or for
ever when the second fails, a sign-in sees no flag (`Unfinished`); and when a
temporary password is set between the two writes of the user's own change, the
hook takes down the flag that the second call has raised (`outrun`). In
`TrustedDevices` a sign-in that has deleted its row when the rows are cleared
creates the next one all the same (`escaped`). In `ClientTable`, `outside` are
the rows written without the lock after a question answered before it.

In `SigningKeys`, `half` marks the successor between its insert and its
backdate: for that moment it is the newest live key, and a signature uses it.
A signer that lapses inside the window, or with nothing live behind it, also
hands over to a key published for less than the window; the order of takeover
is what holds.

## Bounds and fairness

- `SigningKeys`: three keys (a signer, a waiting successor, one more), two
  rotators, one crash, time to 6 with a window of 2, an interval, a grace and a
  token life of 3: a key can be minted, retired, lapse, outlive its tokens and
  be purged in one behaviour, and a rotation can queue behind a crashed one.
- `GatewayRegistry`: three loads, because a reset orphans one and a stray
  `finally` can orphan another; two lookups and two writers, two commits, one
  external commit, one failure, a TTL of one tick.
- `AdminGuard`: two accounts and two requests are the smallest race; one
  rejection and one moved ban date.
- `GatewayTokens`: the budgets are scenarios. One credential of each kind, one gateway with
  an audience or without, two changes of access or edits, time to 3 with a token
  life of 4, a cache lifetime of 2 (the life less the margin) and a stall of 1:
  an end, its reset, a restoration and the expiry of what was cached all fit. In
  another, four keys for three places and two exchanges, so that one key can be
  stored twice.
- `RefreshGrants`: three tokens (a grant, its rotation, one more); the budgets
  split what need not be combined: two sessions with a code grant and a device
  grant; two requests for one grant beside bans, rejections, disconnections and a
  restart; time to 5, past the expiry (1), the absolute lifetime (2) and the grace
  (2) together; a ceiling that fails.
- `ClientTable`: two clients, one of which calls are about, one administrator, two
  requests; three calls, or two and a start-up, or one and two start-ups; secrets
  to 3. An edit, what overtakes it, and a refresh on either side fit.
- `GatewayTable`: one name, two targets, two requests, two start-ups with three
  reconciliations, one lost lock. Names do not interact, so one is enough.
- `RateLimits`: two requests, one client and one address, a window of 2, time to
  3, five answers and one failure: a burst at the limit, and the window after it.
- `TrustedDevices`: two cookies, two sign-ins, a window of 2 days, time to 5 with a
  ceiling of 6 (so a fourth expiry would pass it); one reset, in times to 1.
- `FirstUser`: two forms, two processes, one registration, two faults.
- `ForcedChange`: two requests, one administrator's form, two sessions, two
  passwords set: one is temporary, one replaces it, in either order.
- `Standing`: one browser, one request, two bars, a copy of 2 minutes, a sign-in of 1
  and time to 3, where the last copy that may be believed has just passed. Browsers
  read each other's state nowhere, nor do requests, so one of each is enough; the
  second bar is for a user let in between.
- `Lifecycle`: three requests and three builds: a build that fails, the one after
  it, and one asked for after the deadline.

Clocks, versions and counts are bounded in the guards, so every system stops in
the end; deadlock is not checked for that reason.

Three properties need fairness, all of it weak.

- `EventuallyCurrent`: the clock runs, the database answers a query, a continuation
  that is ready runs (the event loop), a mutation that committed reaches the
  reset that follows it in the same function, and requests keep coming (the
  refresh is driven by lookups, and without any nothing is stale to anyone).
- `WaitersAreAnswered`: PostgreSQL grants a free lock or ends the wait at its
  `lock_timeout`, and a form that holds the lock goes on from its check. Nothing
  is assumed of the library calls under the lock: they may hang.
- `DrainEnds`: a build ends one way or the other, the deadline's timer fires, and
  the drain takes its next step. Nothing is assumed of the requests.

Failures are bounded and never fair.

## Proofs

TLAPS checks all of the following without trusting anything but the named
assumptions on the constants, for any number of keys, users, requests, loads
and any bounds.

**`SigningKeys_proofs`** (`DurationsAssumption`, `NoneAssumption`). The
invariants are not inductive: they hold because the lock makes a rotation's
snapshot current. `IInv` adds that (`LockInv`, `SnapshotInv`: the holder's copy of the
retiring deadline is the row's, and its time is at most `MaxStall` old); that a
key's last token ends inside its grace, and its row outlives it (`SignedInv`);
that the backdate computed at the read is still behind every live key when it is
written, because nothing minted meanwhile is older (`FloorInv`); and that a
successor waiting for its backdate was published last (`SuccessorInv`). Each
conjunct is preserved by a lemma with a step per action. From `IInv` follow
`TypeCorrect`, `TokensVerify` (where `TokenLife <= Grace` and
`MaxStall <= Window` are used), `TakeoverOrder`, and the action property
`DeadlinesOnlyMoveCloser`.

**`GatewayRegistry_proofs`** (`RegistryAssumption`). `Visible` needs that no
mutation claims a version the table has not reached (`VersionInv`), and that the load
everybody shares began after the last reset, which forgets it (`LoadsInv`). So a load
that no reset has overtaken has read every answered mutation, the map is as new as
the last of them unless an overtaken load installed it (`MapInv`), and whoever joined a
load joined one that had not been overtaken and sees what there was to see when it
came, whatever becomes of that load later (`WaitersInv`). `LoadsBounded` counts the
running loads that are not the shared one: each reset and each stray `finally`
adds to them at most what a settled load takes away. The cardinality steps use
`FiniteSetTheorems`.

**`AdminGuard_proofs`** (`GuardAssumption`). `LastAdmin` needs `ClearedInv`: a
removal the rule cannot refuse any more (`Past`) leaves somebody other than its
target usable, until another removal takes an administrator away, which leaves a
mark on it (`undercut`); so the first removal that takes one without a mark leaves one.

**`GatewayTokens_proofs`** (`TokensAssumption`). `TokensInv` has the types
(`ClockInv`); that a token was signed while its credential passed the check and is
stored within the stall, so that whoever holds one although its credential does not
pass holds it from before that changed (`SignedInv`); and that what ended before
a reset is held by nobody but the exchanges it overlapped (`EndedInv`). The
second gives `RevocationReaches` and `NeverNearExpiry`, the third
`OnlyRunningExchanges`.

`TypesInv` has the whole of `TypeOK` and the cache's limit. Of `CacheStaysBounded` the
step that counts is `FullKeepsFewer`: a finite ordered set has a first element
(`First`, from the well-foundedness of strict inclusion among finite sets), and the
first of what a full cache keeps has all the others among its newer ones, of which it
was kept because they are few. `AudienceInv`, for `AudienceHolds`: a gateway is
*changing* while an edit of it is not followed up, or since it was deleted; one that
is not changing is served as its row is, and so is what was exchanged or cached for
it outside an overlapped exchange. The edit's reset and the change of the row are two
steps, and `AudienceFollow` is where they meet.

**`Tables_proofs`** (`GatewaysAssumption`, `ClientsAssumption`). For the gateways,
`TableInv`: whoever holds the lock
knows what the row was when it asked and nobody else under the lock has written
it since (`HolderWorks`, `LockHolds`), as long as no connection was lost. From it
follow `FileIsFollowed` and the refinement `Implements`: the initial states map to
the abstract one, and each action to `Register`, `Remove`, `Reconcile` or a
stutter. A lost lock is a `Remove` of no row. `ManualRowsSurvive` needs the types only.

For the clients, `ClientsInv`. `EditInv`: an edit holds the lock, and what it has in
hand is a row of an administrator whose owner nobody changes meanwhile. `MergeInv`: a
row that nobody has touched since the reconciliation read it is as it read it, and
one that was touched was the file's (and is counted in `outside`) or is still an
administrator's; with `MergedIs` that gives `FileClientsFollow` and
`RegisteredRowsSurvive`. `WishInv` ties an undisturbed edit to the row it read, for
`LastCallStands`. `RefreshInv`, for `OriginsFollow`: a refresh that has read, and that
nobody overtook, has exactly what is enabled, or another refresh is still to read, or
one that read after it is still to install and so will overtake it. `ClientsImplement`
is the refinement: an edit writes the owner it read, which is the row's (`EditInv`), so it
stutters; what a start-up read has not changed hands (`MergeInv`), so what it drops is
the file's, and what it fails to claim was written without the lock (`RowsGo` is the
step of every call that takes rows away, or only counts them). `ServedFileIsFollowed`
is what remains of `RemovedClientsAreDisabled`, which the code breaks: it holds while
the file that is served has clients, since such a start-up serves what it has reconciled
(`DeployInv`).

**`Server_proofs`** (`LimitsAssumption`, `LifeAssumption`) has the two parts without a
proof module of their own, and the whole. `RoomLeft`: the count of a running
window, and the requests that looked and are not counted yet, are together below
the maximum, the number of requests and the failed looks. The steps count finite sets.
`HeldInv` says what is held by where the process is: the build of the promise and no
other until the drain has taken it, then the one it closes, in the end none; and that
from the release on no request is in flight. `UsesInv`: who has a runtime has an open one.

Of the whole, `ServerSteps` and `EveryPartRuns`: a step of the server is a step of each
part or leaves that part alone, so `ServerSpec` implies every part's specification.
What is proved of a part thus holds of the specification the run checks: `AllTyped`
and `ServerIsSafe` say so of the type invariants and of each safety property, and
`BothTablesImplement` of the two refinements.

**`Accounts_proofs`** (`SetupAssumption`, `ForcedAssumption`, `StandingAssumption`,
`DevicesAssumption`), for the four small modules about an account: its first user, its
temporary password, what it reaches once barred, and the devices it trusts. `LockInv`: unless a
connection was lost, a form past the check holds the lock, and none of the page's
users has been added since it looked. `PasswordInv`: a form's user has a password,
or the form is at that statement or ended there. `WallInv`: while the password in
force is temporary and neither gap applies, the flag is up or its write is still to
come, and whoever has read it down read it before. `SettledInv` orders the
passwords: no session, and no request about to open one, is older than the last
finished change unless it was late. `StandingInv` has the moments in their order
(`MomentsInv`); that a copy which says the user may sign in was made no later than a
sign-in's time after the bar, and no copy is made of a row that has gone
(`CopiesInv`); and that a request which would be admitted now has met the condition
already (`AsksInv`). `BarsBite` then only looks at the step that answers a request.
`CeilingInv`: a row nobody forked carries the date of its first issue, and so does a
sign-in that replaces it, which while it has only found the row still finds it there;
`ClearedInv`: what was given before the last clearing is in the hand of a sign-in the
clearing overtook, or comes of one.

**`RefreshGrants_proofs`** (`GrantsAssumption`). None of the grants' invariants is
inductive, and `GrantsInv` is what makes them so together.

- `HeldOnce`: a grant has at most one good token, or one rotation between its two
  statements, or one approved device code, and no two of the three. The provider's
  compare-and-set takes the good token away in the step that begins the rotation,
  so `HeldByOne` follows by counting two sets of at most one element.
- `SessionsInv`: a row names its grant's session, which is live, or none; and a grant
  whose row lost its session has one that is gone for good. So a handler that
  selects by session misses no row of a session it is about to delete.
- `EndedInv`: what a handler has listed and revoked is already as good as ended
  before it finishes (`Judged`), and the sessions it deletes without having listed
  them are younger than its listing. So `EndedForGood` needs no induction of its own:
  the last step of a handler adds to `ended` only what is judged.
- `SpentInv`: a token is spent at most `MaxStall` after a request found it good, and
  its row was revoked no earlier; so the sweep, which goes by both columns, cannot
  take it before the grace is over (`ReuseIsRecognised`).

Most actions add no row and begin no rotation: rows only go, are revoked, or lose
their session. Those are `Quiet`, and a lemma for each part (`QuietHeld`,
`QuietSessions`, ...) carries it across them all; the insertions, the spending, the
judging steps, the sweep and the clock are argued one by one.

`CeilingSelectsNothingLive` is the reason for the ceiling's finding below, for every
pair of lifetimes the configuration accepts: a row's clock and its expiry are `Ttl`
apart (`ClocksInv`), and a grant holds one token (`HeldOnce`), so a family the query
selects has nothing left but a token that has expired.

Model-checked only: liveness, which needs fairness.

## Where code and documents disagree

- **`/idp/reject-user` and the last administrator** (`admin_guard_reject`).
  `auth/plugins/idp-plugin.ts:228` sets `status` to rejected behind the admin gate
  alone; FR-ADMIN-3 (`spec-v1.md:180`) says the last administrator cannot be set
  non-active by any route. A patch of `banExpires` alone does the same through
  `/admin/update-user` (`RedateBan`).
- **`/idp/reset-two-factor` and the token cache** (`gateway_tokens_quiet`).
  `admin/endpoints.ts:160` deletes every session of a user, and the route is on
  neither list that empties the cache, where `admin/guard.ts:127-129` says
  whatever revokes a credential has to.
- **The absolute lifetime** (`refresh_grants_ceiling`).
  `oidc/refresh-lifetime.ts:68-76` selects families by the age of their unrevoked
  rows. A rotation revokes the row and starts a new one, so a client that
  refreshes in time is never over age, where lines 15-17 measure the family from
  its origin.
- **Rejection and refresh tokens** (`refresh_grants_reject`). `rejectUser` deletes
  the sessions and revokes nothing, where `oidc/revoke-user-tokens.ts:7-9` lists a
  rejection among what takes everything. The standing check refuses the tokens
  while the user is rejected; an approval makes them good again.
- **Edits and disabled clients** (`client_edit`). `updateClient` writes back the row
  it read under the lock (`admin/endpoints.ts:659-751`), and disabling takes no
  lock: a client disabled in between is enabled again, where lines 607-609 say an
  edit must not turn it back on.
- **The emptied client file** (`client_emptied`). `startup.ts:158` skips the
  reconciliation when the file has no client, so those of the file before stay
  enabled, where FR-OIDC-2 (`spec-v1.md:195`) disables what the file lacks.

## Not modelled

Wording, rendering, mail, request logging, audit rows, parsing of addresses,
and the stateless rewriting of requests and responses. Configuration is loaded
once before anything is served; the relations it enforces are the modules'
assumptions. The one-shot stash and the pending authorizations are put and taken
by one statement each of the library. Migrations run under the start-up's lock in
a transaction each. The database console's state is PostgreSQL's. Better Auth is
external: its rotation, its choice of a key, its deletion of sessions and its rows
of trusted devices are modelled as far as `src/` relies on them.

By lines, most of the repository is of this kind: pages and components, the
catalog of wordings, schemas, generated routes, and functions of one request.
What the modules cover is the code that writes state shared between requests,
processes or restarts.

## Plan

1. A composition of `GatewayTable` with `GatewayRegistry`, in which what a lookup
   serves is a version of the table of owners.
2. The retention job's lock, which skips instead of waiting, beside two instances.
