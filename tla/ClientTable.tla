---------------------------- MODULE ClientTable ----------------------------
(***************************************************************************)
(* oauth_client: the rows of oauth_clients.jsonc, which a start-up brings   *)
(* into line (oidc/reconcile.ts), beside the rows administrators register   *)
(* (admin/endpoints.ts), and the cache of client origins every change       *)
(* refreshes (oidc/client-origins.ts).                                      *)
(*                                                                         *)
(* The owner is the column user_id: null is the file.  Create, update,      *)
(* delete and the reconciliation exclude each other with a lock; disabling  *)
(* and rotating a secret take none, and all but the update ask who owns the *)
(* row before they write it.  A start-up may overlap the requests of the    *)
(* process it replaces.                                                     *)
(***************************************************************************)
EXTENDS Integers, FiniteSets

CONSTANTS
    Clients,     \* client ids
    Admins,      \* administrators
    Writers,     \* administrative requests that may be in flight together
    Boot,        \* the start-up
    File,        \* the owner of a row of the file
    None,        \* no row, nobody holds the lock
    Files,       \* what oauth_clients.jsonc may hold: [disabled, secret] by id
    FileSecret,  \* the hash of the secret in the file; 0 is a public client
    Subjects,    \* bound: the clients administrative calls are about
    Budgets,     \* bounds: how many calls and start-ups, [calls, boots]
    MaxSecrets   \* bound on the secrets

RowSet == [owner : Admins \cup {File}, disabled : BOOLEAN, secret : 0..MaxSecrets]

ASSUME ClientsAssumption ==
    /\ Boot \notin Writers /\ None \notin Writers \cup {Boot}
    /\ Subjects \subseteq Clients
    /\ File \notin Admins /\ None \notin RowSet \cup Admins \cup {File}
    /\ MaxSecrets \in Nat /\ FileSecret \in 1..MaxSecrets
    /\ \A f \in Files : /\ DOMAIN f \subseteq Clients
                        /\ \A c \in DOMAIN f : f[c] \in [disabled : BOOLEAN, secret : {0, FileSecret}]

VARIABLES
    client,      \* client[c]: the row [owner, disabled, secret], or None
    held,        \* the clients with tokens that are good
    admins,      \* the administrators who still exist
    lock,        \* who holds reconcileClients
    call,        \* call[w]: the request w serves
    boot,        \* the start-up: its step, its file, the rows it read
    applied,     \* the file of the last reconciliation that committed
    deployed,    \* the file of the start that serves; None when one has failed since
    origins,     \* the clients whose origins that process allows
    minted,      \* how many secrets have been generated
    calls, boots, \* how many calls and start-ups are left
    old,         \* the requests the replaced process still serves
    earlier,     \* history: earlier[x]: the refreshes that had read before x did
    overtaken,   \* history: the refreshes whose read is out of date
    stale,       \* history: the cache is older than the table
    outside,     \* history: the clients whose file row was written without the lock
    wish,        \* history: wish[c]: what the last answered calls set
    contested    \* history: the clients written while an edit of them ran

tableVars == <<client, held, admins, lock>>
bootVars == <<boot, applied, deployed, boots>>
originVars == <<origins, earlier, overtaken, stale>>
wishVars == <<wish, contested>>
clientVars == <<tableVars, call, bootVars, originVars, minted, calls, old, outside, wishVars>>

Exists(c) == client[c] # None
Mutable(c) == Exists(c) /\ client[c].owner # File
Enabled == {c \in Clients : Exists(c) /\ ~client[c].disabled}
Idle == [pc |-> "idle", kind |-> "", id |-> None, arg |-> FALSE, row |-> None]
Off == [pc |-> "off", file |-> <<>>, prune |-> FALSE, rows |-> <<>>, clean |-> {}]
FileRow(f, c) == [owner |-> File, disabled |-> f[c].disabled, secret |-> f[c].secret]
Refreshing == {w \in Writers : call[w].pc = "install"} \cup (IF boot.pc = "serve" THEN {Boot} ELSE {})

Init ==
    /\ client = [c \in Clients |-> None] /\ held = {}
    /\ admins = Admins /\ lock = None
    /\ call = [w \in Writers |-> Idle]
    /\ boot = Off
    /\ applied = <<>> /\ deployed = None
    /\ origins = {} /\ minted = FileSecret
    /\ \E b \in Budgets : calls = b.calls /\ boots = b.boots
    /\ old = {}
    /\ earlier = [x \in Writers \cup {Boot} |-> {}]
    /\ overtaken = {} /\ stale = FALSE
    /\ outside = {} /\ contested = {}
    /\ wish = [c \in Clients |-> None]

-----------------------------------------------------------------------------
(* What a write brings about besides the row.                              *)

\* The enabled clients have changed and nobody is going to refresh the cache.
Unrefreshed ==
    /\ stale' = TRUE
    /\ overtaken' = overtaken \cup Refreshing
    /\ UNCHANGED <<origins, earlier>>

\* The commit of w's call: the refresh follows, in the process that serves.
Commit(w) ==
    IF w \in old
    THEN /\ call' = [call EXCEPT ![w] = Idle] /\ old' = old \ {w}
         /\ Unrefreshed
    ELSE /\ call' = [call EXCEPT ![w] = [Idle EXCEPT !.pc = "refresh"]]
         /\ overtaken' = IF boot.pc = "serve" THEN overtaken \cup {Boot} ELSE overtaken
         /\ UNCHANGED <<old, origins, earlier, stale>>

Answer(w) == call' = [call EXCEPT ![w] = Idle] /\ old' = old \ {w}

\* A write of c that does not hold the lock.
Touch(c) ==
    /\ outside' = IF Exists(c) /\ client[c].owner = File THEN outside \cup {c} ELSE outside
    /\ boot' = [boot EXCEPT !.clean = @ \ {c}]
    /\ contested' = IF \E w \in Writers : call[w].pc = "edit" /\ call[w].id = c
                    THEN contested \cup {c} ELSE contested

\* The edit that runs, or the start-up that claims, has the row in hand.
Start(w, kind, c, arg) ==
    /\ call[w].pc = "idle" /\ calls > 0
    /\ calls' = calls - 1
    /\ call' = [call EXCEPT ![w] =
                [pc |-> "asked", kind |-> kind, id |-> c, arg |-> arg, row |-> None]]

-----------------------------------------------------------------------------
(* Administrative calls.                                                   *)

\* Mutant: nobody waits for the lock.
LockFreeMutant == TRUE

LockFree == lock = None

\* createClient: one transaction under the lock; an id that is taken is refused.
Create(w, c, u, public) ==
    /\ call[w].pc = "idle" /\ calls > 0
    /\ LockFree /\ ~Exists(c) /\ u \in admins
    /\ minted < MaxSecrets
    /\ minted' = IF public THEN minted ELSE minted + 1
    /\ LET row == [owner |-> u, disabled |-> FALSE, secret |-> IF public THEN 0 ELSE minted + 1] IN
       /\ client' = [client EXCEPT ![c] = row]
       /\ wish' = [wish EXCEPT ![c] = row]
    /\ contested' = contested \ {c}
    /\ calls' = calls - 1
    /\ Commit(w)
    /\ UNCHANGED <<held, admins, lock, bootVars, outside>>

\* assertMutableClient answers before anything is locked.
Ask(w, kind, c, arg) ==
    /\ Mutable(c)
    /\ kind = "rotate" => client[c].secret # 0
    /\ Start(w, kind, c, arg)
    /\ UNCHANGED <<tableVars, bootVars, originVars, minted, old, outside, wishVars>>

\* updateClient reads the row again under the lock, and refuses one that the
\* file has claimed or that is gone.
EditReads(w) ==
    /\ call[w].pc = "asked" /\ call[w].kind = "edit" /\ LockFree
    /\ IF Mutable(call[w].id)
       THEN /\ lock' = w
            /\ call' = [call EXCEPT ![w].pc = "edit", ![w].row = client[call[w].id]]
            /\ UNCHANGED old
       ELSE Answer(w) /\ UNCHANGED lock
    /\ UNCHANGED <<client, held, admins, bootVars, originVars, minted, calls, outside, wishVars>>

\* Mutant: the schema's default.
CarriedMutant(row, secret) == [owner |-> row.owner, disabled |-> FALSE, secret |-> secret]

\* The columns an edit writes back from the row it read.
Carried(row, secret) == [owner |-> row.owner, disabled |-> row.disabled, secret |-> secret]

\* A client that becomes public loses its secret, one that becomes confidential
\* is given one, one that stays confidential keeps the one it had; tokens go
\* only with a change between the two.
EditWrites(w) ==
    /\ call[w].pc = "edit"
    /\ LET c == call[w].id
           read == call[w].row
           fresh == ~call[w].arg /\ read.secret = 0
           secret == IF call[w].arg THEN 0 ELSE IF fresh THEN minted + 1 ELSE read.secret
       IN /\ fresh => minted < MaxSecrets
          /\ minted' = IF fresh THEN minted + 1 ELSE minted
          /\ client' = IF Exists(c) THEN [client EXCEPT ![c] = Carried(read, secret)] ELSE client
          /\ held' = IF (read.secret = 0) # (secret = 0) THEN held \ {c} ELSE held
          /\ wish' = IF Exists(c) /\ secret # read.secret
                       THEN [wish EXCEPT ![c].secret = secret] ELSE wish
    /\ lock' = None
    /\ Commit(w)
    /\ UNCHANGED <<admins, bootVars, calls, outside, contested>>

\* setClientDisabled: one transaction without the lock, which does not ask again.
SetDisabled(w) ==
    /\ call[w].pc = "asked" /\ call[w].kind = "disable"
    /\ LET c == call[w].id IN
       /\ IF Exists(c)
          THEN /\ client' = [client EXCEPT ![c].disabled = call[w].arg]
               /\ wish' = [wish EXCEPT ![c] = IF @ = None THEN None ELSE [@ EXCEPT !.disabled = call[w].arg]]
          ELSE UNCHANGED <<client, wish>>
       /\ held' = IF call[w].arg THEN held \ {c} ELSE held
       /\ Touch(c)
    /\ Commit(w)
    /\ UNCHANGED <<admins, lock, applied, deployed, boots, minted, calls>>

\* rotateClientSecret: one column, no lock, no refresh, nothing revoked.
Rotate(w) ==
    /\ call[w].pc = "asked" /\ call[w].kind = "rotate"
    /\ minted < MaxSecrets /\ minted' = minted + 1
    /\ LET c == call[w].id IN
       /\ IF Exists(c)
          THEN /\ client' = [client EXCEPT ![c].secret = minted + 1]
               /\ wish' = [wish EXCEPT ![c] = IF @ = None THEN None ELSE [@ EXCEPT !.secret = minted + 1]]
          ELSE UNCHANGED <<client, wish>>
       /\ Touch(c)
    /\ Answer(w)
    /\ UNCHANGED <<held, admins, lock, applied, deployed, boots, originVars, calls>>

\* deleteClient waits for the lock and does not ask again either.
Delete(w) ==
    /\ call[w].pc = "asked" /\ call[w].kind = "delete" /\ LockFree
    /\ LET c == call[w].id IN
       /\ client' = [client EXCEPT ![c] = None]
       /\ held' = held \ {c}
       /\ wish' = [wish EXCEPT ![c] = None]
       /\ Touch(c)
    /\ Commit(w)
    /\ UNCHANGED <<admins, lock, applied, deployed, boots, minted, calls>>

\* Removing an administrator takes the clients they registered with it: the
\* foreign key cascades, to their tokens too, and nothing refreshes the cache.
RemoveAdmin(u) ==
    /\ u \in admins
    /\ admins' = admins \ {u}
    /\ LET theirs == {c \in Clients : Exists(c) /\ client[c].owner = u} IN
       /\ client' = [c \in Clients |-> IF c \in theirs THEN None ELSE client[c]]
       /\ held' = held \ theirs
       /\ wish' = [c \in Clients |-> IF c \in theirs THEN None ELSE wish[c]]
       /\ outside' = outside \cup theirs
       /\ boot' = [boot EXCEPT !.clean = @ \ theirs]
       /\ contested' = contested \cup (theirs \cap {call[w].id : w \in {x \in Writers : call[x].pc = "edit"}})
    /\ Unrefreshed
    /\ UNCHANGED <<lock, call, applied, deployed, boots, minted, calls, old>>

\* The provider issues a token to a client that is enabled.
Issue(c) ==
    /\ c \in Enabled \ held
    /\ held' = held \cup {c}
    /\ UNCHANGED <<client, admins, lock, call, bootVars, originVars, minted, calls, old, outside, wishVars>>

-----------------------------------------------------------------------------
(* refreshDatabaseClientOrigins, after the commit and before the answer.    *)

RefreshReads(w) ==
    /\ call[w].pc = "refresh"
    /\ call' = [call EXCEPT ![w] = [Idle EXCEPT !.pc = "install", !.row = Enabled]]
    /\ earlier' = [earlier EXCEPT ![w] = Refreshing]
    /\ UNCHANGED <<tableVars, bootVars, origins, overtaken, stale, minted, calls, old, outside, wishVars>>

\* A refresh that fails is logged; the cache stays as it is.
RefreshFails(w) ==
    /\ call[w].pc = "refresh"
    /\ call' = [call EXCEPT ![w] = Idle]
    /\ Unrefreshed
    /\ UNCHANGED <<tableVars, bootVars, minted, calls, old, outside, wishVars>>

\* Mutant: only what is new is added.
InstalledMutant(w) == origins \cup call[w].row

Installed(w) == call[w].row

RefreshInstalls(w) ==
    /\ call[w].pc = "install"
    /\ origins' = Installed(w)
    /\ stale' = (w \in overtaken)
    /\ overtaken' = ((overtaken \cup earlier[w]) \cap Refreshing) \ {w}
    /\ call' = [call EXCEPT ![w] = Idle]
    /\ UNCHANGED <<tableVars, bootVars, earlier, minted, calls, old, outside, wishVars>>

-----------------------------------------------------------------------------
(* A start-up.                                                             *)

\* A start with f as oauth_clients.jsonc; a file without clients skips the step.
BootStart(f, prune) ==
    /\ boot.pc = "off" /\ boots > 0
    /\ boots' = boots - 1
    /\ boot' = [Off EXCEPT !.pc = IF f = <<>> THEN "origins" ELSE "lock",
                       !.file = f, !.prune = prune]
    /\ deployed' = None
    /\ UNCHANGED <<tableVars, call, applied, originVars, minted, calls, old, outside, wishVars>>

BootReads ==
    /\ boot.pc = "lock" /\ LockFree
    /\ lock' = Boot
    /\ boot' = [boot EXCEPT !.pc = "merge", !.rows = client, !.clean = Clients]
    /\ UNCHANGED <<client, held, admins, call, applied, deployed, boots, originVars, minted, calls, old, outside, wishVars>>

\* Mutant: every row the file does not name.
OrphansMutant == {c \in Clients : boot.rows[c] # None /\ c \notin DOMAIN boot.file}

Orphans == {c \in Clients : /\ boot.rows[c] # None /\ boot.rows[c].owner = File
                            /\ c \notin DOMAIN boot.file}

\* What the transaction makes of a row; an update of a row that has gone
\* meanwhile writes nothing.
Merged(c) ==
    IF c \in DOMAIN boot.file
    THEN IF boot.rows[c] = None THEN FileRow(boot.file, c)
         ELSE IF boot.rows[c] # FileRow(boot.file, c) /\ Exists(c) THEN FileRow(boot.file, c)
         ELSE client[c]
    ELSE IF c \in Orphans /\ Exists(c)
         THEN IF boot.prune THEN None ELSE [client[c] EXCEPT !.disabled = @ \/ ~boot.rows[c].disabled]
         ELSE client[c]

BootCommits ==
    /\ boot.pc = "merge"
    /\ client' = [c \in Clients |-> Merged(c)]
    /\ held' = held \ Orphans
    /\ lock' = None
    /\ applied' = boot.file
    /\ outside' = outside \ boot.clean
    /\ wish' = [c \in Clients |-> IF c \in DOMAIN boot.file \cup Orphans THEN None ELSE wish[c]]
    /\ boot' = [boot EXCEPT !.pc = "origins"]
    /\ Unrefreshed
    /\ UNCHANGED <<admins, call, deployed, boots, minted, calls, old, contested>>

BootRefreshes ==
    /\ boot.pc = "origins"
    /\ boot' = [boot EXCEPT !.pc = "serve", !.rows = Enabled]
    /\ UNCHANGED <<tableVars, call, applied, deployed, boots, originVars, minted, calls, old, outside, wishVars>>

\* The new process answers from here on, with a cache of its own; what the old
\* one still has to do refreshes a cache nobody reads.
Serve ==
    /\ boot.pc = "serve"
    /\ origins' = boot.rows
    /\ stale' = (Boot \in overtaken)
    /\ overtaken' = {}
    /\ earlier' = [x \in Writers \cup {Boot} |-> {}]
    /\ call' = [w \in Writers |-> IF call[w].pc \in {"refresh", "install"} THEN Idle ELSE call[w]]
    /\ old' = {w \in Writers : call[w].pc \in {"asked", "edit"}}
    /\ boot' = Off /\ deployed' = boot.file
    /\ UNCHANGED <<tableVars, applied, boots, minted, calls, outside, wishVars>>

\* A step throws, or the process dies: the transaction is rolled back and the
\* lock goes with its connection.
BootFails ==
    /\ boot.pc # "off"
    /\ lock' = IF lock = Boot THEN None ELSE lock
    /\ boot' = Off
    /\ overtaken' = overtaken \ {Boot}
    /\ UNCHANGED <<client, held, admins, call, applied, deployed, boots, origins, earlier, stale,
                   minted, calls, old, outside, wishVars>>

Next ==
    \/ \E w \in Writers :
        \/ \E c \in Subjects, u \in Admins, public \in BOOLEAN : Create(w, c, u, public)
        \/ \E c \in Subjects, arg \in BOOLEAN :
             \/ Ask(w, "edit", c, arg)
             \/ Ask(w, "disable", c, arg)
        \/ \E c \in Subjects : Ask(w, "rotate", c, FALSE) \/ Ask(w, "delete", c, FALSE)
        \/ EditReads(w) \/ EditWrites(w) \/ SetDisabled(w) \/ Rotate(w) \/ Delete(w)
        \/ RefreshReads(w) \/ RefreshFails(w) \/ RefreshInstalls(w)
    \/ \E u \in Admins : RemoveAdmin(u)
    \/ \E c \in Clients : Issue(c)
    \/ \E f \in Files, prune \in BOOLEAN : BootStart(f, prune)
    \/ BootReads \/ BootCommits \/ BootRefreshes \/ Serve \/ BootFails

Spec == Init /\ [][Next]_clientVars

-----------------------------------------------------------------------------
(* Properties.                                                             *)

\* Every variable stays in its type; a row of an administrator is one who is
\* still there, and only existing clients hold tokens.
TypeOK ==
    /\ \A c \in Clients : Exists(c) => client[c] \in RowSet
    /\ \A c \in Clients : Mutable(c) => client[c].owner \in admins
    /\ held \subseteq {c \in Clients : Exists(c)}
    /\ lock \in Writers \cup {Boot, None}
    /\ \A w \in Writers : call[w].pc \in {"idle", "asked", "edit", "refresh", "install"}
    /\ \A w \in Writers : lock = w <=> call[w].pc = "edit"
    /\ boot.pc \in {"off", "lock", "merge", "origins", "serve"}
    /\ lock = Boot <=> boot.pc = "merge"
    /\ origins \subseteq Clients /\ minted \in 0..MaxSecrets
    /\ overtaken \subseteq Writers \cup {Boot} /\ old \subseteq Writers
    /\ outside \subseteq Clients /\ contested \subseteq Clients

\* "The orphan sweep is scoped to exactly those rows": a start-up leaves a row
\* an administrator registered as it is, unless the file names the client, and
\* no registration is lost to a sweep that read the table before it
\* (oidc/reconcile.ts, endpoints.ts createClient).
RegisteredRowsSurviveAStart ==
    [][\A c \in Clients :
        BootCommits /\ Mutable(c) /\ c \notin DOMAIN boot.file =>
            client'[c] = client[c] /\ (c \in held => c \in held')]_clientVars

\* After a reconciliation the clients of the file are as the file has them and
\* its other rows are disabled, but for those a call wrote that had asked who
\* owns the row before the lock, or whose administrator was removed.
FileRowsFollowTheFile ==
    \A c \in Clients \ outside :
        IF c \in DOMAIN applied THEN client[c] = FileRow(applied, c)
        ELSE Exists(c) /\ client[c].owner = File => client[c].disabled

\* What the last answered call set is what the row has: an edit gives back the
\* secret and the state it found, and undoes neither a rotation nor a disabling
\* unless they committed while it ran (updateClient's carried columns).
LastCallHolds ==
    \A c \in Clients \ contested : Mutable(c) =>
        client[c].disabled = wish[c].disabled /\ client[c].secret = wish[c].secret

Quiet == boot.pc = "off" /\ \A w \in Writers : call[w].pc \notin {"refresh", "install"}

\* When no request and no start-up has a refresh to do, exactly the enabled
\* clients are allowed origins, unless the last refresh installed had read
\* before another one, or a change came without a refresh
\* (oidc/client-origins.ts).
OriginsAreCurrent == Quiet /\ ~stale => origins = Enabled

ClientOwner(c) == IF Exists(c) THEN client[c].owner ELSE None

ClientOwners == INSTANCE OwnedTable WITH
    Names <- Clients, Nobody <- None, Config <- File,
    owner <- [c \in Clients |-> ClientOwner(c)], file <- DOMAIN applied, unlocked <- outside

\* Clients change owners only as the abstract table's rows do: no edit gives a
\* row back that changed hands under it, and no sweep takes one that has become
\* somebody else's (updateClient, deleteClient, oidc/reconcile.ts).
ClientOwnersChangeAsPromised == ClientOwners!Spec

\* "an edit to a disabled client's name must not turn it back on"
\* (endpoints.ts updateClient): the state is what was last asked for.
EditsLeaveDisabledAlone ==
    \A c \in Clients : Mutable(c) => client[c].disabled = wish[c].disabled

\* "clients absent from the file => disabled" once a server has started with it
\* (spec-v1.md FR-OIDC-2).
RemovedClientsAreDisabled ==
    deployed # None =>
        \A c \in Clients \ outside :
            Exists(c) /\ client[c].owner = File /\ c \notin DOMAIN deployed => client[c].disabled
=============================================================================
