---------------------------- MODULE SigningKeys ----------------------------
(***************************************************************************)
(* The JWKS signing keys: how a key is minted, how rotateKeys publishes a  *)
(* successor and retires the signer, and how the retention job removes a   *)
(* key that can no longer verify anything.                                 *)
(*                                                                         *)
(* The table is shared by every request that signs a token, by rotations   *)
(* started from the admin UI and from the CLI (two processes), by start-up *)
(* and by the cleanup job.  Only rotations exclude each other, through the *)
(* rotateKeys advisory lock; signing takes no lock, so it sees the table   *)
(* between any two statements of a rotation.                               *)
(*                                                                         *)
(* Time is an integer clock shared by all processes.  Backdating by one    *)
(* second is one unit below: only the order of createdAt is ever read.     *)
(***************************************************************************)
EXTENDS Integers, FiniteSets

CONSTANTS
    Keys,        \* the key ids that may be minted
    Rotators,    \* the processes that may run rotateKeys
    NoKey,       \* no key: nothing was live
    NoRotator,   \* the rotateKeys lock is free
    Window,      \* DEFAULT_PROPAGATION_SECONDS
    Interval,    \* jwt.rotationInterval: a new key expires this long after it
    Grace,       \* jwksGracePeriodSeconds
    TokenLife,   \* the longest token lifetime
    MaxStall,    \* how long a rotation may take from its first read to its last write
    MaxCrashes,  \* how many rotations may die half way
    MaxTime      \* bound on the clock

ASSUME DurationsAssumption ==
    /\ Window \in Nat \ {0} /\ Interval \in Nat \ {0} /\ TokenLife \in Nat \ {0}
    /\ Grace \in Nat /\ MaxStall \in Nat
    /\ MaxCrashes \in Nat /\ MaxTime \in Nat
    \* config/derive.ts: the grace period defaults to the longest token
    \* lifetime plus an hour, and the window is an hour.
    /\ TokenLife <= Grace
    /\ MaxStall <= Window

NoTime == -1      \* the event has not happened
NoExpiry == -1    \* a null expires_at

ASSUME NoneAssumption == NoKey \notin Keys /\ NoRotator \notin Rotators

VARIABLES
    now,          \* the clock
    row,          \* the keys that have a row in `jwks`
    createdAt,    \* createdAt[k], which backdating may put before the start
    expiresAt,    \* expiresAt[k], or NoExpiry
    lock,         \* the holder of the rotateKeys advisory lock, or NoRotator
    pc,           \* pc[r]: the next statement of r's rotation
    rotAt,        \* rotAt[r]: `now` as r's rotation read it
    floor,        \* floor[r]: live[0].createdAt, or rotAt[r] when none was live
    retiring,     \* retiring[r]: live[live.length - 1], or NoKey
    retiringExp,  \* retiringExp[r]: retiring.expiresAt as it was read
    created,      \* created[r]: the successor, once it is inserted
    crashes,      \* how many rotations died half way
    publishedAt,  \* history: when k's row was inserted
    lastSigned,   \* history: when k last signed, or NoTime
    half          \* history: the keys a rotation inserted and has not backdated

tableVars == <<row, createdAt, expiresAt>>
rotVars == <<lock, pc, rotAt, floor, retiring, retiringExp, created>>
historyVars == <<publishedAt, lastSigned, half>>
vars == <<now, tableVars, rotVars, crashes, historyVars>>

-----------------------------------------------------------------------------
(* The keys a signature may be made with, and the one that is used.        *)

Live(k) == k \in row /\ (expiresAt[k] = NoExpiry \/ expiresAt[k] > now)
LiveKeys == {k \in row : Live(k)}

\* The provider's choice: the newest live key.
Signers == {k \in LiveKeys : \A j \in LiveKeys : createdAt[j] <= createdAt[k]}

\* Mutant: the backdate is taken from the newest live key instead of the oldest.
OldestMutant == {k \in LiveKeys : \A j \in LiveKeys : createdAt[j] <= createdAt[k]}

Oldest == {k \in LiveKeys : \A j \in LiveKeys : createdAt[k] <= createdAt[j]}

\* The JWKS endpoint lists a key until its grace period ends.
Published(k) == k \in row /\ (expiresAt[k] = NoExpiry \/ now <= expiresAt[k] + Grace)

Unused(k) == publishedAt[k] = NoTime

-----------------------------------------------------------------------------
TypeOK ==
    /\ now \in Nat
    /\ row \in SUBSET Keys
    /\ createdAt \in [Keys -> Int]
    /\ expiresAt \in [Keys -> Nat \cup {NoExpiry}]
    /\ lock \in Rotators \cup {NoRotator}
    /\ pc \in [Rotators -> {"idle", "read", "create", "backdate", "retire"}]
    /\ rotAt \in [Rotators -> Nat]
    /\ floor \in [Rotators -> Int]
    /\ retiring \in [Rotators -> Keys \cup {NoKey}]
    /\ retiringExp \in [Rotators -> Nat \cup {NoExpiry}]
    /\ created \in [Rotators -> Keys \cup {NoKey}]
    /\ crashes \in 0..MaxCrashes
    /\ publishedAt \in [Keys -> Nat \cup {NoTime}]
    /\ lastSigned \in [Keys -> Nat \cup {NoTime}]
    /\ half \in SUBSET Keys

\* A fresh database, or one whose first key was minted without an expiry.
Init ==
    /\ now = 0
    /\ \E first \in SUBSET Keys :
        /\ Cardinality(first) <= 1
        /\ row = first
        /\ publishedAt = [k \in Keys |-> IF k \in first THEN 0 ELSE NoTime]
    /\ createdAt = [k \in Keys |-> 0]
    /\ expiresAt = [k \in Keys |-> NoExpiry]
    /\ lock = NoRotator
    /\ pc = [r \in Rotators |-> "idle"]
    /\ rotAt = [r \in Rotators |-> 0]
    /\ floor = [r \in Rotators |-> 0]
    /\ retiring = [r \in Rotators |-> NoKey]
    /\ retiringExp = [r \in Rotators |-> NoExpiry]
    /\ created = [r \in Rotators |-> NoKey]
    /\ crashes = 0
    /\ lastSigned = [k \in Keys |-> NoTime]
    /\ half = {}

-----------------------------------------------------------------------------
\* createJwk: the row is inserted with createdAt = now and is in the JWKS at once.
Insert(k) ==
    /\ Unused(k)
    /\ row' = row \cup {k}
    /\ createdAt' = [createdAt EXCEPT ![k] = now]
    /\ expiresAt' = [expiresAt EXCEPT ![k] = now + Interval]
    /\ publishedAt' = [publishedAt EXCEPT ![k] = now]

SignedNow(k) == lastSigned' = [lastSigned EXCEPT ![k] = now]

\* A token is signed with the newest live key.
Sign(k) ==
    /\ k \in Signers
    /\ SignedNow(k)
    /\ UNCHANGED <<now, tableVars, rotVars, crashes, publishedAt, half>>

\* Signing with no live key mints one and signs with it in the same call.
\* Nothing is served before start-up has ensured a first key.
MintAndSign(k) ==
    /\ LiveKeys = {}
    /\ \E j \in Keys : ~Unused(j)
    /\ Insert(k)
    /\ SignedNow(k)
    /\ UNCHANGED <<now, rotVars, crashes, half>>

\* Start-up asks for the JWKS when the table holds no row at all, live or not.
EnsureSigningKey(k) ==
    /\ row = {}
    /\ Insert(k)
    /\ UNCHANGED <<now, rotVars, crashes, lastSigned, half>>

-----------------------------------------------------------------------------
(* rotateKeys, one statement at a time, under the rotateKeys lock.         *)

\* r's locals are gone and its lock with them.
Finish(r) ==
    /\ pc' = [pc EXCEPT ![r] = "idle"]
    /\ lock' = NoRotator
    /\ rotAt' = [rotAt EXCEPT ![r] = 0]
    /\ floor' = [floor EXCEPT ![r] = 0]
    /\ retiring' = [retiring EXCEPT ![r] = NoKey]
    /\ retiringExp' = [retiringExp EXCEPT ![r] = NoExpiry]
    /\ created' = [created EXCEPT ![r] = NoKey]

TakeLock(r) ==
    /\ pc[r] = "idle"
    /\ lock = NoRotator
    /\ lock' = r
    /\ pc' = [pc EXCEPT ![r] = "read"]
    /\ UNCHANGED <<now, tableVars, rotAt, floor, retiring, retiringExp, created,
                   crashes, historyVars>>

\* select the live keys ordered by createdAt: the oldest gives the backdate,
\* the newest is the one to retire.
ReadLive(r) ==
    /\ pc[r] = "read"
    /\ pc' = [pc EXCEPT ![r] = "create"]
    /\ rotAt' = [rotAt EXCEPT ![r] = now]
    /\ \/ /\ LiveKeys = {}
          /\ floor' = [floor EXCEPT ![r] = now]
          /\ retiring' = [retiring EXCEPT ![r] = NoKey]
          /\ UNCHANGED retiringExp
       \/ \E old \in Oldest, k \in Signers :
            /\ floor' = [floor EXCEPT ![r] = createdAt[old]]
            /\ retiring' = [retiring EXCEPT ![r] = k]
            /\ retiringExp' = [retiringExp EXCEPT ![r] = expiresAt[k]]
    /\ UNCHANGED <<now, tableVars, lock, created, crashes, historyVars>>

CreateSuccessor(r, k) ==
    /\ pc[r] = "create"
    /\ Insert(k)
    /\ created' = [created EXCEPT ![r] = k]
    /\ half' = half \cup {k}
    /\ pc' = [pc EXCEPT ![r] = "backdate"]
    /\ UNCHANGED <<now, lock, rotAt, floor, retiring, retiringExp, crashes,
                   lastSigned>>

Backdated(r) == floor[r] - 1

\* Mutant: the window is subtracted.
EffectiveAtMutant(r) == rotAt[r] - Window

EffectiveAt(r) == rotAt[r] + Window

Backdate(r) ==
    /\ pc[r] = "backdate"
    /\ createdAt' = [createdAt EXCEPT ![created[r]] = Backdated(r)]
    /\ half' = half \ {created[r]}
    /\ pc' = [pc EXCEPT ![r] = "retire"]
    /\ UNCHANGED <<now, row, expiresAt, lock, rotAt, floor, retiring, retiringExp,
                   created, crashes, publishedAt, lastSigned>>

\* Mutant: every rotation rewrites the deadline.
MustBringForwardMutant(r) == retiring[r] \in row

\* Brought forward, never pushed back.
MustBringForward(r) ==
    /\ retiring[r] \in row
    /\ retiringExp[r] = NoExpiry \/ retiringExp[r] > EffectiveAt(r)

\* The last update, and the release of the lock when performRotation returns.
Retire(r) ==
    /\ pc[r] = "retire"
    /\ expiresAt' = IF MustBringForward(r)
                    THEN [expiresAt EXCEPT ![retiring[r]] = EffectiveAt(r)]
                    ELSE expiresAt
    /\ Finish(r)
    /\ UNCHANGED <<now, row, createdAt, crashes, historyVars>>

\* The process or its statement fails: the connection goes away and the lock
\* with it, whatever the rotation had written so far stays.
Crash(r) ==
    /\ pc[r] # "idle"
    /\ crashes < MaxCrashes
    /\ crashes' = crashes + 1
    /\ Finish(r)
    /\ UNCHANGED <<now, tableVars, historyVars>>

-----------------------------------------------------------------------------
\* Mutant: purged on expiry alone.
PastGraceMutant(k) == expiresAt[k] # NoExpiry /\ expiresAt[k] < now

\* The retention job's delete from `jwks`: lt() on a null column is never true.
PastGrace(k) == expiresAt[k] # NoExpiry /\ expiresAt[k] < now - Grace

Cleanup ==
    /\ \E k \in row : PastGrace(k)
    /\ row' = {k \in row : ~PastGrace(k)}
    /\ UNCHANGED <<now, createdAt, expiresAt, rotVars, crashes, historyVars>>

\* A rotation in progress finishes within MaxStall of the time it read.
Tick ==
    /\ now < MaxTime
    /\ \A r \in Rotators : pc[r] \in {"create", "backdate", "retire"} => now < rotAt[r] + MaxStall
    /\ now' = now + 1
    /\ UNCHANGED <<tableVars, rotVars, crashes, historyVars>>

Next ==
    \/ \E k \in Keys : Sign(k) \/ MintAndSign(k) \/ EnsureSigningKey(k)
    \/ \E r \in Rotators :
        \/ TakeLock(r) \/ ReadLive(r) \/ Backdate(r) \/ Retire(r) \/ Crash(r)
        \/ \E k \in Keys : CreateSuccessor(r, k)
    \/ Cleanup
    \/ Tick

Spec == Init /\ [][Next]_vars

-----------------------------------------------------------------------------
(* Properties.                                                             *)

\* A token that has not expired names a key the JWKS still lists: neither a
\* rotation that brings an expiry forward nor the cleanup job takes the key of
\* a live token away (rotate-keys.ts 24-26, cleanup.ts 34-39).
IssuedTokensVerify ==
    \A k \in Keys :
        lastSigned[k] # NoTime /\ now < lastSigned[k] + TokenLife => Published(k)

\* The deadline of a key only ever moves closer: no rotation, however
\* interleaved with another, extends the life of a key that was already due to
\* lapse (rotate-keys.ts 125-133).
ExpiryNeverPushedBack ==
    [][\A k \in row \cap row' :
        expiresAt[k] # NoExpiry => expiresAt'[k] # NoExpiry /\ expiresAt'[k] <= expiresAt[k]]_vars

\* Live keys sign in the order in which they were published: of two live keys
\* the one that verifiers have known longer is the newer by createdAt, so every
\* hand-over goes to the key with the longest publication behind it, however
\* many rotations queued up (rotate-keys.ts 113-122).
TakeoverInPublicationOrder ==
    \A j, k \in LiveKeys \ half :
        publishedAt[j] < publishedAt[k] => createdAt[k] < createdAt[j]
=============================================================================
