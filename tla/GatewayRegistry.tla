-------------------------- MODULE GatewayRegistry --------------------------
(***************************************************************************)
(* gateways/registry.ts: the in-memory map from gateway name to row, loaded *)
(* from the table as a whole, served stale while it is refreshed, and       *)
(* dropped by every mutation this process makes.                            *)
(*                                                                         *)
(* The content of the table is its version: the number of commits so far.  *)
(* A map is the version it was read at.  A load is a promise with three    *)
(* moments the event loop can separate: it is started, the database         *)
(* answers, its continuation runs.                                          *)
(***************************************************************************)
EXTENDS Naturals, FiniteSets

CONSTANTS
    Lookups,      \* the requests that resolve a gateway name
    Loads,        \* the loads that may be in flight together
    Writers,      \* the mutations: admin endpoints and the boot reconcile
    TTL,          \* REGISTRY_TTL_MS, in ticks
    MaxWrites,    \* bound on commits made by this process
    MaxExternal,  \* bound on commits made behind its back (psql, a second replica)
    MaxFailures,  \* bound on loads the database fails
    None          \* no map, no load

ASSUME RegistryAssumption ==
    /\ TTL \in Nat \ {0} /\ MaxWrites \in Nat /\ MaxExternal \in Nat /\ MaxFailures \in Nat
    /\ None \notin Loads /\ None \notin Nat

VARIABLES
    table,     \* the version of the gateway table
    writes,    \* commits made by this process so far
    external,  \* commits made by others so far
    wpc,       \* wpc[w]: "idle" or "committed" (its reset has not run)
    mine,      \* mine[w]: the version w's mutation committed
    state,     \* the cached map: its version, or None
    age,       \* ticks since loadedAt, up to TTL
    inFlight,  \* the promise every caller shares, or None
    load,      \* load[l]: "free", "asked" (query sent) or "read" (rows in hand)
    rows,      \* rows[l]: the version l's query returned
    failures,  \* failed loads so far
    waitsFor,  \* waitsFor[q]: the load a lookup on a cold map awaits, or None
    acked,     \* history: the newest version a finished mutation wrote
    owed,      \* owed[q], history: what lookup q must see: acked when it started,
               \* or nothing (0) when the map it is given is outdated
    served,    \* served[q], history: the version the last answer came from, if it
               \* was q's, or None
    resets,    \* history: resets so far
    overtaken, \* history: the loads that had their rows when a reset ran
    outdated   \* history: the cached map is such a load's

writerVars == <<table, writes, external, wpc, mine>>
cacheVars == <<state, age, inFlight>>
loadVars == <<load, rows, failures>>
lookupVars == <<waitsFor, owed, served>>
raceVars == <<overtaken, outdated>>
vars == <<writerVars, cacheVars, loadVars, lookupVars, acked, resets, raceVars>>

Running == {l \in Loads : load[l] # "free"}

TypeOK ==
    /\ table \in Nat /\ writes \in 0..MaxWrites /\ external \in 0..MaxExternal
    /\ wpc \in [Writers -> {"idle", "committed"}]
    /\ mine \in [Writers -> Nat]
    /\ state \in Nat \cup {None}
    /\ age \in 0..TTL
    /\ inFlight \in Loads \cup {None}
    /\ load \in [Loads -> {"free", "asked", "read"}]
    /\ rows \in [Loads -> Nat]
    /\ failures \in 0..MaxFailures
    /\ waitsFor \in [Lookups -> Loads \cup {None}]
    /\ owed \in [Lookups -> Nat]
    /\ served \in [Lookups -> Nat \cup {None}]
    /\ acked \in Nat /\ resets \in Nat
    /\ overtaken \subseteq Loads /\ outdated \in BOOLEAN

Init ==
    /\ table = 0 /\ writes = 0 /\ external = 0
    /\ wpc = [w \in Writers |-> "idle"] /\ mine = [w \in Writers |-> 0]
    /\ state = None /\ age = 0 /\ inFlight = None
    /\ load = [l \in Loads |-> "free"] /\ rows = [l \in Loads |-> 0] /\ failures = 0
    /\ waitsFor = [q \in Lookups |-> None]
    /\ owed = [q \in Lookups |-> 0]
    /\ served = [q \in Lookups |-> None]
    /\ acked = 0 /\ resets = 0
    /\ overtaken = {} /\ outdated = FALSE

-----------------------------------------------------------------------------
(* Mutations.                                                              *)

\* A mutation's transaction commits; its endpoint has yet to call the reset.
Commit(w) ==
    /\ wpc[w] = "idle"
    /\ writes < MaxWrites
    /\ writes' = writes + 1
    /\ table' = table + 1
    /\ wpc' = [wpc EXCEPT ![w] = "committed"]
    /\ mine' = [mine EXCEPT ![w] = table + 1]
    /\ UNCHANGED <<external, cacheVars, loadVars, lookupVars, acked, resets, raceVars>>

\* Mutant: the endpoint answers without calling the reset.
DroppedMutant == state' = state /\ inFlight' = inFlight

\* resetGatewayRegistry: both module variables are dropped, a running load is not.
Dropped == state' = None /\ inFlight' = None

\* The reset, after which the endpoint answers.
Reset(w) ==
    /\ wpc[w] = "committed"
    /\ Dropped
    /\ age' = 0
    /\ wpc' = [wpc EXCEPT ![w] = "idle"]
    /\ acked' = IF mine[w] > acked THEN mine[w] ELSE acked
    /\ resets' = resets + 1
    /\ overtaken' = {l \in Loads : load[l] = "read"} /\ outdated' = FALSE
    /\ mine' = [mine EXCEPT ![w] = 0]
    /\ UNCHANGED <<table, writes, external, loadVars, lookupVars>>

\* A commit this process knows nothing about.
ExternalCommit ==
    /\ external < MaxExternal
    /\ external' = external + 1
    /\ table' = table + 1
    /\ UNCHANGED <<writes, wpc, mine, cacheVars, loadVars, lookupVars, acked, resets, raceVars>>

-----------------------------------------------------------------------------
(* Lookups.                                                                *)

\* Mutant: every caller starts a load of its own.
JoinMutant(l) ==
    /\ load[l] = "free"
    /\ load' = [load EXCEPT ![l] = "asked"]
    /\ inFlight' = l

\* load(): join the shared promise, or start one.  l is the load that results.
Join(l) ==
    IF inFlight # None
    THEN l = inFlight /\ UNCHANGED <<inFlight, load>>
    ELSE /\ load[l] = "free"
         /\ load' = [load EXCEPT ![l] = "asked"]
         /\ inFlight' = l

Idle(q) == waitsFor[q] = None

Start(q) ==
    /\ Idle(q)
    /\ owed' = [owed EXCEPT ![q] = IF state # None /\ outdated THEN 0 ELSE acked]

\* A cold map is the only case that waits.
LookupCold(q) ==
    /\ state = None
    /\ Start(q)
    /\ \E l \in Loads : Join(l) /\ waitsFor' = [waitsFor EXCEPT ![q] = l]
    /\ served' = [served EXCEPT ![q] = None]
    /\ UNCHANGED <<writerVars, state, age, rows, failures, acked, resets, raceVars>>

\* Mutant: a map once loaded is served for ever.
ExpiredMutant == FALSE

Expired == age = TTL

LookupFresh(q) ==
    /\ state # None /\ ~Expired
    /\ Start(q)
    /\ served' = [x \in Lookups |-> IF x = q THEN state ELSE None]
    /\ UNCHANGED <<writerVars, cacheVars, loadVars, waitsFor, acked, resets, raceVars>>

\* Stale-while-revalidate: answered from the expired map, refreshed behind it.
LookupExpired(q) ==
    /\ state # None /\ Expired
    /\ Start(q)
    /\ \E l \in Loads : Join(l)
    /\ served' = [x \in Lookups |-> IF x = q THEN state ELSE None]
    /\ UNCHANGED <<writerVars, state, age, rows, failures, waitsFor, acked, resets, raceVars>>

-----------------------------------------------------------------------------
(* Loads.                                                                  *)

\* The database answers readAll with the rows committed at that moment.
ReadRows(l) ==
    /\ load[l] = "asked"
    /\ load' = [load EXCEPT ![l] = "read"]
    /\ rows' = [rows EXCEPT ![l] = table]
    /\ UNCHANGED <<writerVars, cacheVars, failures, lookupVars, acked, resets, raceVars>>

Waiters(l) == {q \in Lookups : waitsFor[q] = l}

\* .finally: whatever promise is shared now, it is forgotten.
Settle(l) ==
    /\ load' = [load EXCEPT ![l] = "free"]
    /\ rows' = [rows EXCEPT ![l] = 0]
    /\ inFlight' = None
    /\ overtaken' = overtaken \ {l}
    /\ waitsFor' = [q \in Lookups |-> IF q \in Waiters(l) THEN None ELSE waitsFor[q]]

\* Mutant: the map is installed without its loadedAt.
InstallMutant(l) ==
    /\ load[l] = "read"
    /\ state' = rows[l]
    /\ age' = TTL + 1
    /\ outdated' = (l \in overtaken)
    /\ Settle(l)
    /\ served' = [q \in Lookups |-> IF q \in Waiters(l) THEN rows[l] ELSE None]
    /\ UNCHANGED <<writerVars, failures, owed, acked, resets>>

\* .then: the map is replaced and its waiters are answered from it.
Install(l) ==
    /\ load[l] = "read"
    /\ state' = rows[l]
    /\ age' = 0
    /\ outdated' = (l \in overtaken)
    /\ Settle(l)
    /\ served' = [q \in Lookups |-> IF q \in Waiters(l) THEN rows[l] ELSE None]
    /\ UNCHANGED <<writerVars, failures, owed, acked, resets>>

\* .catch: the map that is being served stays; cold waiters get the error.
Fail(l) ==
    /\ load[l] = "asked"
    /\ failures < MaxFailures
    /\ failures' = failures + 1
    /\ Settle(l)
    /\ UNCHANGED <<writerVars, state, age, owed, served, acked, resets, outdated>>

Tick ==
    /\ state # None /\ age < TTL
    /\ age' = age + 1
    /\ UNCHANGED <<writerVars, state, inFlight, loadVars, lookupVars, acked, resets, raceVars>>

Next ==
    \/ \E w \in Writers : Commit(w) \/ Reset(w)
    \/ ExternalCommit
    \/ \E q \in Lookups : LookupCold(q) \/ LookupFresh(q) \/ LookupExpired(q)
    \/ \E l \in Loads : ReadRows(l) \/ Install(l) \/ Fail(l)
    \/ Tick

Spec == Init /\ [][Next]_vars

\* The clock runs, the database answers, continuations run, a mutation that
\* committed reaches its reset, and requests keep coming.
Fairness ==
    /\ WF_vars(Tick)
    /\ \A l \in Loads : WF_vars(ReadRows(l)) /\ WF_vars(Install(l))
    /\ \A w \in Writers : WF_vars(Reset(w))
    /\ \A q \in Lookups : WF_vars(LookupCold(q)) /\ WF_vars(LookupExpired(q))

FairSpec == Spec /\ Fairness

-----------------------------------------------------------------------------
(* Properties.                                                             *)

\* "a change made through this process is visible on the very next request":
\* whoever looks a name up after a mutation has answered is given a map at least
\* as new as that mutation (registry.ts 13-17, 154-156), and whoever waits for a
\* load always is. The one exception is a map installed by a load that had its
\* rows already when a reset ran, until it is replaced.
VisibleUnlessTheMapWasOvertaken ==
    \A q \in Lookups : served[q] # None => served[q] >= owed[q]

\* A reset orphans at most one load, and clearing the shared promise from an
\* orphan's finally orphans at most one more in its place: a burst costs one
\* query plus one per reset, never one per request (registry.ts 95-119).
LoadsBoundedByResets ==
    Cardinality(Running) <= 1 + resets

\* The valve: once writes have stopped, every map served in the end is the
\* table's, however stale the map that a late load or a commit behind the
\* process's back left behind (registry.ts 18-24).
EventuallyCurrent ==
    <>[](state # None => state = table)
=============================================================================
