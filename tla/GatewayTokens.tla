--------------------------- MODULE GatewayTokens ---------------------------
(***************************************************************************)
(* gateways/proxy.ts: the exchange of a credential for a bearer token, the  *)
(* two caches in front of it, and resetGatewayTokenCache, by which whatever *)
(* ends a credential or edits a gateway in this process empties them.       *)
(*                                                                         *)
(* An exchange reads the row, misses the caches, asks Better Auth (which    *)
(* checks the credential's owner and signs) and stores the answer in a      *)
(* continuation of its own; nothing stops a reset from falling in between.  *)
(* A lookup that the caches answer changes nothing, so it is no action.     *)
(***************************************************************************)
EXTENDS Integers, FiniteSets

CONSTANTS
    Keys,         \* API keys: they work again once their owner does
    Sessions,     \* session cookies: an ended session never comes back
    Gateways,     \* gateway names
    Audiences,    \* the audiences a gateway may ask for
    Default,      \* no audience asked for: the token names jwt.audience
    Requests,     \* proxied calls that may be in flight together
    Writers,      \* administrative calls that may be in flight together
    Nothing,      \* no row, no entry, no exchange, nothing to follow up
    CacheMax,     \* TOKEN_CACHE_MAX_SECONDS
    Life,         \* jwt.sessionToken.ttl
    Margin,       \* the minute a cached token is withdrawn before its end
    NegativeTTL,  \* NEGATIVE_CACHE_MS
    MaxEntries,   \* TOKEN_CACHE_MAX_ENTRIES
    MaxStall,     \* bound on the time between Better Auth's check and the store
    MaxTime,      \* bound on the clock
    Budgets       \* the scenarios: who presents a credential, how many events of each kind

Credentials == Keys \cup Sessions

\* What a call follows up, what the two caches hold under a key, what is exchanged.
Writings == ({"access"} \X Credentials) \cup ({"edit", "list"} \X Gateways)
Entries == [aud : Audiences \cup {Default}, signedAt : Nat, until : Nat, late : BOOLEAN]
Verdicts == [until : Nat, error : BOOLEAN]
Jobs == [cred : Credentials, gw : Gateways, aud : Audiences \cup {Default}]

ASSUME TokensAssumption ==
    /\ CacheMax \in Nat /\ Life \in Nat /\ Margin \in Nat /\ NegativeTTL \in Nat
    /\ MaxEntries \in Nat \ {0} /\ MaxStall \in Nat /\ MaxTime \in Nat
    /\ Keys \cap Sessions = {}
    /\ Default \notin Gateways \cup Audiences
    /\ Nothing \notin Gateways \cup Audiences \cup {Default}
    /\ Nothing \notin Writings \cup Entries \cup Verdicts \cup Jobs

VARIABLES
    now,
    valid,     \* the credentials whose owner passes the check
    audience,  \* audience[g]: of the committed row, Nothing when there is none
    known,     \* known[g]: of the row the registry serves until it is reset
    writing,   \* writing[w]: the write w has not followed up yet, or Nothing
    entry,     \* tokenCache: entry[h], or Nothing
    older,     \* the order of tokenCache's keys: <<x, y>> when x was inserted first
    negative,  \* negativeCache: negative[h], or Nothing
    pc,        \* pc[r]: "idle", "minting" or "minted"
    job,       \* job[r]: what r exchanges, or Nothing
    result,    \* result[r]: "none", "token", "refused" or "error"
    signedAt,  \* signedAt[r]: when Better Auth checked and answered
    budget,    \* the scenario, and how many events are left of each kind
    changedAt, \* history: when c last started or stopped passing the check
    late,      \* history: the running exchanges that a reset has overlapped
    ended,     \* history: the credentials that did not pass at the last reset
    quiet,     \* history: those /idp/reset-two-factor has ended since
    replaced   \* history: the gateways deleted since, or not yet back

rowVars == <<valid, audience, known, writing>>
cacheVars == <<entry, older, negative>>
requestVars == <<pc, job, result, signedAt>>
historyVars == <<changedAt, late, ended, quiet, replaced>>
vars == <<now, rowVars, cacheVars, requestVars, budget, historyVars>>

-----------------------------------------------------------------------------
\* Mutant: every gateway shares the credential's one entry.
HashMutant(c, g, aud) == <<c, Default>>

\* hashCredential: a gateway that asks for an audience has entries of its own.
Hash(c, g, aud) == <<c, IF aud = Default THEN Default ELSE g>>

Hashes == Credentials \X (Gateways \cup {Default})

\* Mutant: the minute's margin is forgotten.
CacheSecondsMutant == CacheMax

\* Not positive means nothing is cached at all.
CacheSeconds == IF Life - Margin < CacheMax THEN Life - Margin ELSE CacheMax

Cached(h) == entry[h] # Nothing

\* Mutant: a cached token is served for as long as it is there.
UsableMutant(h) == Cached(h)

Usable(h) == Cached(h) /\ entry[h].until > now
Refused(h) == negative[h] # Nothing /\ negative[h].until > now

Held == {h \in Hashes : Cached(h)}

\* order is a strict total order on the set S.
Orders(order, S) ==
    /\ order \subseteq S \X S
    /\ \A x \in S : <<x, x>> \notin order
    /\ \A x, y \in S : x # y => <<x, y>> \in order \/ <<y, x>> \in order
    /\ \A x, y, z \in S : <<x, y>> \in order /\ <<y, z>> \in order => <<x, z>> \in order

TypeOK ==
    /\ now \in 0..MaxTime
    /\ valid \in SUBSET Credentials
    /\ audience \in [Gateways -> Audiences \cup {Default, Nothing}]
    /\ known \in [Gateways -> Audiences \cup {Default, Nothing}]
    /\ writing \in [Writers -> Writings \cup {Nothing}]
    /\ entry \in [Hashes -> Entries \cup {Nothing}]
    /\ Orders(older, Held)
    /\ negative \in [Hashes -> Verdicts \cup {Nothing}]
    /\ pc \in [Requests -> {"idle", "minting", "minted"}]
    /\ job \in [Requests -> Jobs \cup {Nothing}]
    /\ result \in [Requests -> {"none", "token", "refused", "error"}]
    /\ \A r \in Requests : (job[r] = Nothing <=> pc[r] = "idle") /\ (result[r] # "none" <=> pc[r] = "minted")
    /\ signedAt \in [Requests -> 0..MaxTime] /\ changedAt \in [Credentials -> 0..MaxTime]
    /\ late \in SUBSET Requests /\ ended \in SUBSET Credentials
    /\ quiet \in SUBSET Sessions /\ replaced \in SUBSET Gateways

Init ==
    /\ now = 0
    /\ valid = Credentials
    /\ audience \in [Gateways -> Audiences \cup {Default}]
    /\ known = audience
    /\ writing = [w \in Writers |-> Nothing]
    /\ entry = [h \in Hashes |-> Nothing] /\ older = {}
    /\ negative = [h \in Hashes |-> Nothing]
    /\ pc = [r \in Requests |-> "idle"] /\ job = [r \in Requests |-> Nothing]
    /\ result = [r \in Requests |-> "none"] /\ signedAt = [r \in Requests |-> 0]
    /\ budget \in Budgets
    /\ changedAt = [c \in Credentials |-> 0]
    /\ late = {} /\ ended = {} /\ quiet = {} /\ replaced = {}

Happens(event) ==
    /\ budget[event] > 0
    /\ budget' = [budget EXCEPT ![event] = @ - 1]

-----------------------------------------------------------------------------
(* One exchange.                                                           *)

\* Mutant: a dropped entry keeps its place in the order.
WithoutMutant(h) == older

Without(h) == {p \in older : p[1] # h /\ p[2] # h}

\* An expired entry and an expired verdict are dropped by whoever looks.
Forget(h) ==
    /\ entry' = [entry EXCEPT ![h] = Nothing]
    /\ older' = Without(h)
    /\ negative' = IF Refused(h) THEN negative ELSE [negative EXCEPT ![h] = Nothing]

\* A lookup the token cache cannot answer.  The limiter may refuse it, a
\* remembered verdict does, otherwise it goes to Better Auth.
Exchange(r, c, g) ==
    /\ pc[r] = "idle" /\ c \in budget.callers
    /\ Cardinality({x \in Requests : pc[x] # "idle"}) < budget.parallel
    /\ \E aud \in {audience[g], known[g]} \ {Nothing} :
        LET h == Hash(c, g, aud) IN
        /\ ~Usable(h)
        /\ Forget(h)
        /\ \/ UNCHANGED <<pc, job>>
           \/ /\ ~Refused(h)
              /\ pc' = [pc EXCEPT ![r] = "minting"]
              /\ job' = [job EXCEPT ![r] = [cred |-> c, gw |-> g, aud |-> aud]]
    /\ UNCHANGED <<now, rowVars, result, signedAt, budget, historyVars>>

\* Better Auth checks the credential's owner and signs, refuses, or fails.
Mint(r) ==
    /\ pc[r] = "minting"
    /\ pc' = [pc EXCEPT ![r] = "minted"]
    /\ signedAt' = [signedAt EXCEPT ![r] = now]
    /\ \/ /\ result' = [result EXCEPT ![r] = IF job[r].cred \in valid THEN "token" ELSE "refused"]
          /\ UNCHANGED budget
       \/ /\ Happens("errors")
          /\ result' = [result EXCEPT ![r] = "error"]
    /\ UNCHANGED <<now, rowVars, cacheVars, job, historyVars>>

Done(r) ==
    /\ pc' = [pc EXCEPT ![r] = "idle"]
    /\ job' = [job EXCEPT ![r] = Nothing]
    /\ result' = [result EXCEPT ![r] = "none"]
    /\ signedAt' = [signedAt EXCEPT ![r] = 0]
    /\ late' = late \ {r}

\* Better Auth's own limit (429) is passed on and nothing is remembered.
PassLimit(r) ==
    /\ pc[r] = "minting"
    /\ Done(r)
    /\ UNCHANGED <<now, rowVars, cacheVars, budget, changedAt, ended, quiet, replaced>>

\* Mutant: the limit is noticed one entry late.
FullMutant == Cardinality(Held) > MaxEntries

Full == Cardinality(Held) >= MaxEntries

Live == {h \in Held : Usable(h)}

NewerLive(h) == {x \in Live : <<h, x>> \in older}

\* What a full cache keeps: the unexpired, and of those the newest.
Kept == IF Full THEN {h \in Live : Cardinality(NewerLive(h)) < MaxEntries - 1} ELSE Held

\* A Map keeps a key it already holds in its place.
Added(h) ==
    {p \in older : p[1] \in Kept /\ p[2] \in Kept}
        \cup (IF h \in Kept THEN {} ELSE Kept \X {h})

StoreToken(r, h) ==
    IF CacheSeconds <= 0 THEN UNCHANGED <<entry, older>>
    ELSE /\ older' = Added(h)
         /\ entry' = [x \in Hashes |->
                IF x = h
                THEN [aud |-> job[r].aud, signedAt |-> signedAt[r],
                      until |-> now + CacheSeconds, late |-> r \in late]
                ELSE IF x \in Kept THEN entry[x] ELSE Nothing]

Verdict(r) == [until |-> now + NegativeTTL, error |-> result[r] = "error"]

\* The continuation of the mint stores what came back.
Store(r) ==
    LET h == Hash(job[r].cred, job[r].gw, job[r].aud) IN
    /\ pc[r] = "minted"
    /\ IF result[r] = "token"
       THEN StoreToken(r, h) /\ UNCHANGED negative
       ELSE negative' = [negative EXCEPT ![h] = Verdict(r)] /\ UNCHANGED <<entry, older>>
    /\ Done(r)
    /\ UNCHANGED <<now, rowVars, budget, changedAt, ended, quiet, replaced>>

-----------------------------------------------------------------------------
(* Writes, and what follows them.                                          *)

Writes(w, what) ==
    /\ writing[w] = Nothing
    /\ writing' = [writing EXCEPT ![w] = what]

Pass(c, passes) ==
    /\ c \in valid <=> ~passes
    /\ valid' = IF passes THEN valid \cup {c} ELSE valid \ {c}
    /\ changedAt' = [changedAt EXCEPT ![c] = now]

\* A ban, a removal, a revoked key, a sign-out: written, the hook yet to run.
End(w, c) ==
    /\ c \in budget.callers /\ Happens("access") /\ Writes(w, <<"access", c>>) /\ Pass(c, FALSE)
    /\ UNCHANGED <<now, audience, known, cacheVars, requestVars, late, ended, quiet, replaced>>

\* An unban, whose hook empties the caches as well.
Restore(w, k) ==
    /\ k \in budget.callers /\ Happens("access") /\ Writes(w, <<"access", k>>) /\ Pass(k, TRUE)
    /\ ended' = ended \ {k}
    /\ UNCHANGED <<now, audience, known, cacheVars, requestVars, late, quiet, replaced>>

\* /idp/reset-two-factor deletes every session and is on no list of the hook.
EndQuietly(s) ==
    /\ s \in budget.callers /\ Happens("access") /\ Pass(s, FALSE)
    /\ quiet' = quiet \cup {s}
    /\ UNCHANGED <<now, audience, known, writing, cacheVars, requestVars, late, ended, replaced>>

\* psql, or a second replica.
EndElsewhere(c) ==
    /\ c \in budget.callers /\ Happens("access") /\ Pass(c, FALSE)
    /\ UNCHANGED <<now, audience, known, writing, cacheVars, requestVars, late, ended, quiet, replaced>>

EditGateway(w, g, aud) ==
    /\ audience[g] # Nothing
    /\ Happens("gateways") /\ Writes(w, <<"edit", g>>)
    /\ audience' = [audience EXCEPT ![g] = aud]
    /\ UNCHANGED <<now, valid, known, cacheVars, requestVars, historyVars>>

DeleteGateway(w, g) ==
    /\ audience[g] # Nothing
    /\ Happens("gateways") /\ Writes(w, <<"list", g>>)
    /\ audience' = [audience EXCEPT ![g] = Nothing]
    /\ replaced' = replaced \cup {g}
    /\ UNCHANGED <<now, valid, known, cacheVars, requestVars, changedAt, late, ended, quiet>>

CreateGateway(w, g, aud) ==
    /\ audience[g] = Nothing
    /\ Writes(w, <<"list", g>>)
    /\ audience' = [audience EXCEPT ![g] = aud]
    /\ UNCHANGED <<now, valid, known, cacheVars, requestVars, budget, historyVars>>

\* Mutant: only the refusals are forgotten.
ForgetTokensMutant == UNCHANGED <<entry, older>>

ForgetTokens == entry' = [h \in Hashes |-> Nothing] /\ older' = {}

\* resetGatewayTokenCache, and what it settles.
EmptyCaches ==
    /\ ForgetTokens
    /\ negative' = [h \in Hashes |-> Nothing]
    /\ late' = {r \in Requests : pc[r] # "idle"}
    /\ ended' = Credentials \ valid /\ quiet' = {}
    /\ replaced' = {g \in replaced : audience[g] = Nothing \/ known'[g] # audience[g]}

\* The hook behind an access change and the edit endpoint empty the caches;
\* creating or deleting a gateway does not.
Empties(kind) == kind \in {"access", "edit"}

\* The call resets the registry when it wrote a gateway, and answers.
Follow(w) ==
    /\ writing[w] # Nothing
    /\ writing' = [writing EXCEPT ![w] = Nothing]
    /\ known' = IF writing[w][1] = "access" THEN known ELSE audience
    /\ IF Empties(writing[w][1]) THEN EmptyCaches
       ELSE UNCHANGED <<cacheVars, late, ended, quiet, replaced>>
    /\ UNCHANGED <<now, valid, audience, requestVars, budget, changedAt>>

\* An answer from Better Auth is stored within MaxStall of its check.
Tick ==
    /\ now < MaxTime
    /\ \A r \in Requests : pc[r] = "minted" => now < signedAt[r] + MaxStall
    /\ now' = now + 1
    /\ UNCHANGED <<rowVars, cacheVars, requestVars, budget, historyVars>>

Next ==
    \/ \E r \in Requests :
        \/ \E c \in Credentials, g \in Gateways : Exchange(r, c, g)
        \/ Mint(r) \/ PassLimit(r) \/ Store(r)
    \/ \E w \in Writers :
        \/ \E c \in Credentials : End(w, c)
        \/ \E k \in Keys : Restore(w, k)
        \/ \E g \in Gateways : DeleteGateway(w, g)
        \/ \E g \in Gateways, aud \in Audiences \cup {Default} :
             EditGateway(w, g, aud) \/ CreateGateway(w, g, aud)
        \/ Follow(w)
    \/ \E s \in Sessions : EndQuietly(s)
    \/ \E c \in Credentials : EndElsewhere(c)
    \/ Tick

Spec == Init /\ [][Next]_vars

-----------------------------------------------------------------------------
(* Properties.                                                             *)

\* "taking up to ten minutes": a credential that stopped passing the check, by
\* whatever route, opens no gateway once the cache's lifetime has gone by
\* (proxy.ts 42-45).
RevocationReachesEveryGateway ==
    \A h \in Hashes : Usable(h) /\ h[1] \notin valid =>
        now < changedAt[h[1]] + MaxStall + CacheSeconds

\* "a cached token is never served near its own expiry": whatever the
\* configured lifetime, what the cache serves has the margin left, less the
\* time its mint took (proxy.ts 37-38).
NeverServedNearItsExpiry ==
    \A h \in Hashes : Usable(h) => entry[h].signedAt + Life > now + Margin - MaxStall

\* What the reset does guarantee: only an exchange that was already running when
\* the caches were emptied can serve an ended credential (proxy.ts 38-42).
OnlyARunningExchangeOutlivesTheReset ==
    \A h \in Hashes : Usable(h) /\ h[1] \in ended => entry[h].late

\* "anything that revokes a credential has to empty that cache in the same
\* process": a session this process has ended opens no gateway (guard.ts 122-127).
EndedSessionsOpenNothing ==
    \A h \in Hashes : Usable(h) => h[1] \notin quiet

Settled(g) == known[g] = audience[g] /\ \A w \in Writers : writing[w] # <<"edit", g>>

NamesItsGateway(h) ==
    \/ h[2] = Default /\ entry[h].aud = Default
    \/ h[2] # Default /\ audience[h[2]] \in {entry[h].aud, Default, Nothing}

\* What the name in the key and the edit's reset guarantee together: it does,
\* unless an exchange ran across the reset or the gateway was deleted and
\* created again (proxy.ts hashCredential, endpoints.ts updateGateway).
AudienceHoldsUnlessReplaced ==
    \A h \in Hashes : Usable(h) /\ ~entry[h].late /\ h[2] \notin replaced
                        /\ (h[2] # Default => Settled(h[2])) => NamesItsGateway(h)

\* The cache never holds more than its limit, whatever was minted twice meanwhile
\* (proxy.ts storeToken).
CacheBounded == Cardinality(Held) <= MaxEntries
=============================================================================
