---------------------------- MODULE GatewayTable ----------------------------
(***************************************************************************)
(* The table `gateway`: rows of config.jsonc, which each start-up brings    *)
(* into line (gateways/reconcile.ts), beside rows administrators add        *)
(* (admin/endpoints.ts).  The column `source` says whose a row is.          *)
(*                                                                         *)
(* Create, update, delete and the reconciliation run under an advisory      *)
(* lock, on a connection of its own: when that connection is lost the       *)
(* transaction goes on without the lock.  Disabling takes no lock.  Inside  *)
(* a transaction what is read is not locked, so a commit may come between   *)
(* the question whose row it is and the write.                              *)
(***************************************************************************)
EXTENDS FiniteSets, Naturals

CONSTANTS
    Gateways,    \* names of gateways
    Targets,     \* what a row or an entry says: url, requireAuth, audience
    Callers,     \* administrative requests
    Starts,      \* start-ups, of any instance
    Manual, Config,  \* the column source
    Nobody,      \* no row, nobody holds the lock
    GatewayFiles,    \* bound: what the block `gateways` may hold: a target by name
    MaxRequests, \* bound on the administrative requests
    MaxSweeps,   \* bound on the reconciliations
    MaxLosses    \* bound on lost lock connections

VARIABLES
    row,         \* row[n]: [source, target, enabled], or Nobody
    holder,      \* who holds reconcileGateways
    request,     \* request[w]: what w has asserted and is about to write
    sweep,       \* sweep[b]: the reconciliation of b
    latest,      \* the file of the reconciliation that committed last
    requests, sweeps, losses,  \* how many there have been
    switched     \* history: rows of the file a request disabled or enabled

gatewayVars == <<row, holder, request, sweep, latest, requests, sweeps, losses, switched>>

Rows == [source : {Manual, Config}, target : Targets, enabled : BOOLEAN]

ASSUME GatewaysAssumption ==
    /\ Callers \cap Starts = {} /\ Nobody \notin Callers \cup Starts
    /\ Nobody \notin Rows \cup {Manual, Config} /\ Manual # Config
    /\ {MaxRequests, MaxSweeps, MaxLosses} \subseteq Nat
    /\ \A f \in GatewayFiles : DOMAIN f \subseteq Gateways /\ \A n \in DOMAIN f : f[n] \in Targets

Present(n) == row[n] # Nobody
OfFile(n) == Present(n) /\ row[n].source = Config
NoRequest == [pc |-> "idle", kind |-> "", name |-> Nobody, arg |-> Nobody]
NoSweep == [pc |-> "off", file |-> <<>>, prune |-> FALSE, rows |-> <<>>]
FileEntry(f, n) == [source |-> Config, target |-> f[n], enabled |-> TRUE]

GatewaysInit ==
    /\ row = [n \in Gateways |-> Nobody]
    /\ holder = Nobody
    /\ request = [w \in Callers |-> NoRequest]
    /\ sweep = [b \in Starts |-> NoSweep]
    /\ latest = <<>>
    /\ requests = 0 /\ sweeps = 0 /\ losses = 0
    /\ switched = {}

Release(x) == holder' = IF holder = x THEN Nobody ELSE holder

-----------------------------------------------------------------------------
(* Administrative requests.                                                *)

\* createGateway: a name that is taken is refused, by the select or the index.
CreateGateway(w, n, t) ==
    /\ request[w].pc = "idle" /\ requests < MaxRequests
    /\ requests' = requests + 1
    /\ holder = Nobody /\ ~Present(n)
    /\ row' = [row EXCEPT ![n] = [source |-> Manual, target |-> t, enabled |-> TRUE]]
    /\ UNCHANGED <<holder, request, sweep, latest, sweeps, losses, switched>>

\* Mutant: the row of the file can be changed.
MutableGatewayMutant(n) == Present(n)

\* assertMutableGateway
MutableGateway(n) == Present(n) /\ row[n].source # Config

\* The first statement of the other three; update and delete hold the lock.
AskOwner(w, kind, n, arg) ==
    /\ request[w].pc = "idle" /\ requests < MaxRequests
    /\ requests' = requests + 1
    /\ MutableGateway(n)
    /\ IF kind = "switch" THEN UNCHANGED holder ELSE holder = Nobody /\ holder' = w
    /\ request' = [request EXCEPT ![w] = [pc |-> "write", kind |-> kind, name |-> n, arg |-> arg]]
    /\ UNCHANGED <<row, sweep, latest, sweeps, losses, switched>>

Done(w) == request' = [request EXCEPT ![w] = NoRequest]

\* updateGateway: a full replace of what the dialog shows, not of `enabled`.
Update(w) ==
    /\ request[w].pc = "write" /\ request[w].kind = "update"
    /\ LET n == request[w].name IN
       row' = IF Present(n) THEN [row EXCEPT ![n].target = request[w].arg] ELSE row
    /\ Release(w) /\ Done(w)
    /\ UNCHANGED <<sweep, latest, requests, sweeps, losses, switched>>

DeleteGateway(w) ==
    /\ request[w].pc = "write" /\ request[w].kind = "delete"
    /\ row' = [row EXCEPT ![request[w].name] = Nobody]
    /\ Release(w) /\ Done(w)
    /\ UNCHANGED <<sweep, latest, requests, sweeps, losses, switched>>

\* setGatewayDisabled
Switch(w) ==
    /\ request[w].pc = "write" /\ request[w].kind = "switch"
    /\ LET n == request[w].name IN
       /\ row' = IF Present(n) THEN [row EXCEPT ![n].enabled = request[w].arg] ELSE row
       /\ switched' = switched \cup {m \in {n} : OfFile(m)}
    /\ Done(w)
    /\ UNCHANGED <<holder, sweep, latest, requests, sweeps, losses>>

-----------------------------------------------------------------------------
(* reconcileGateways, from runStartup.                                     *)

\* hasConfigGateways: skipped only when there is nothing to do and to undo.
SweepStarts(b, f, prune) ==
    /\ sweep[b].pc = "off" /\ sweeps < MaxSweeps
    /\ sweeps' = sweeps + 1
    /\ IF f = <<>> /\ ~\E n \in Gateways : OfFile(n)
       THEN UNCHANGED sweep
       ELSE sweep' = [sweep EXCEPT ![b] = [NoSweep EXCEPT !.pc = "wait", !.file = f, !.prune = prune]]
    /\ UNCHANGED <<row, holder, request, latest, requests, losses, switched>>

SweepReads(b) ==
    /\ sweep[b].pc = "wait" /\ holder = Nobody
    /\ holder' = b
    /\ sweep' = [sweep EXCEPT ![b].pc = "write", ![b].rows = row]
    /\ UNCHANGED <<row, request, latest, requests, sweeps, losses, switched>>

\* Mutant: the delete and the update of the orphans trust what was read.
StillOfFileMutant(n) == Present(n)

\* The condition on source in the statement itself.
StillOfFile(n) == OfFile(n)

Orphan(b, n) ==
    /\ sweep[b].rows[n] # Nobody /\ sweep[b].rows[n].source = Config
    /\ n \notin DOMAIN sweep[b].file

\* What the transaction makes of the row n: an entry without a row is inserted,
\* a row that differs or is an administrator's is overwritten, if it is still
\* there; an orphan is deleted, or disabled if it was not.
Swept(b, n) ==
    LET read == sweep[b].rows[n]
        entry == FileEntry(sweep[b].file, n)
    IN IF n \in DOMAIN sweep[b].file
       THEN IF read = Nobody \/ (read # entry /\ Present(n)) THEN entry ELSE row[n]
       ELSE IF Orphan(b, n) /\ StillOfFile(n)
            THEN IF sweep[b].prune THEN Nobody
                 ELSE IF read.enabled THEN [row[n] EXCEPT !.enabled = FALSE] ELSE row[n]
            ELSE row[n]

\* A row that has appeared under a name about to be inserted.
Conflict(b) == \E n \in DOMAIN sweep[b].file : sweep[b].rows[n] = Nobody /\ Present(n)

SweepCommits(b) ==
    /\ sweep[b].pc = "write" /\ ~Conflict(b)
    /\ row' = [n \in Gateways |-> Swept(b, n)]
    /\ latest' = sweep[b].file
    /\ switched' = {n \in switched : row'[n] = row[n] /\ row[n] # Nobody}
    /\ sweep' = [sweep EXCEPT ![b] = NoSweep]
    /\ Release(b)
    /\ UNCHANGED <<request, requests, sweeps, losses>>

\* The lock was not to be had in time, the insert hit the unique index, or the
\* process died: nothing of the transaction stays.
SweepFails(b) ==
    /\ sweep[b].pc # "off"
    /\ sweep' = [sweep EXCEPT ![b] = NoSweep]
    /\ Release(b)
    /\ UNCHANGED <<row, request, latest, requests, sweeps, losses, switched>>

\* The connection that holds the lock is gone; the transaction is on another.
LockLost ==
    /\ holder # Nobody /\ losses < MaxLosses
    /\ losses' = losses + 1
    /\ holder' = Nobody
    /\ UNCHANGED <<row, request, sweep, latest, requests, sweeps, switched>>

GatewaysNext ==
    \/ \E w \in Callers :
        \/ \E n \in Gateways :
            \/ \E t \in Targets : CreateGateway(w, n, t) \/ AskOwner(w, "update", n, t)
            \/ AskOwner(w, "delete", n, Nobody)
            \/ \E on \in BOOLEAN : AskOwner(w, "switch", n, on)
        \/ Update(w) \/ DeleteGateway(w) \/ Switch(w)
    \/ \E b \in Starts :
        \/ \E f \in GatewayFiles, prune \in BOOLEAN : SweepStarts(b, f, prune)
        \/ SweepReads(b) \/ SweepCommits(b) \/ SweepFails(b)
    \/ LockLost

GatewaysSpec == GatewaysInit /\ [][GatewaysNext]_gatewayVars

-----------------------------------------------------------------------------
(* Properties.                                                             *)

\* Every variable stays in its type, and whoever holds the lock is at work.
GatewaysTypeOK ==
    /\ row \in [Gateways -> Rows \cup {Nobody}]
    /\ holder \in Callers \cup Starts \cup {Nobody}
    /\ \A w \in Callers :
        /\ request[w].pc \in {"idle", "write"}
        /\ holder = w => request[w].pc = "write" /\ request[w].kind # "switch"
        /\ request[w].pc = "write" => request[w].name \in Gateways
    /\ \A b \in Starts :
        /\ sweep[b].pc \in {"off", "wait", "write"}
        /\ holder = b => sweep[b].pc = "write"
        /\ sweep[b].pc = "write" => sweep[b].rows \in [Gateways -> Rows \cup {Nobody}]
    /\ requests \in 0..MaxRequests /\ sweeps \in 0..MaxSweeps /\ losses \in 0..MaxLosses
    /\ switched \subseteq Gateways

\* A reconciliation leaves a row an administrator added exactly as it is unless
\* its file names it, even when it has lost the lock and the row took the place
\* of the orphan it had read (the condition on source in gateways/reconcile.ts).
ManualRowsSurviveASweep ==
    [][\A n \in Gateways, b \in Starts :
        SweepCommits(b) /\ MutableGateway(n) /\ n \notin DOMAIN sweep[b].file
            => row'[n] = row[n]]_gatewayVars

\* As long as no lock was lost, the gateways of the file are there as the file
\* has them and its other rows do not answer, but for a row whose switch was
\* set by a request that had asked whose it is before the file claimed it
\* (setGatewayDisabled, "a single-column write to one row").
GatewaysFollowTheFile ==
    losses = 0 =>
        \A n \in Gateways :
            IF n \in DOMAIN latest
            THEN /\ OfFile(n) /\ row[n].target = latest[n]
                 /\ row[n].enabled \/ n \in switched
            ELSE OfFile(n) => ~row[n].enabled \/ n \in switched

OwnerOf(n) == IF Present(n) THEN row[n].source ELSE Nobody

Owners == INSTANCE OwnedTable WITH
    Names <- Gateways, Admins <- {Manual}, owner <- [n \in Gateways |-> OwnerOf(n)],
    file <- DOMAIN latest, unlocked <- IF losses = 0 THEN {} ELSE Gateways

\* Whatever is read and written when, and with or without the lock, the table
\* changes owners only as the abstract table does (gateways/reconcile.ts and the
\* gateway endpoints).
OwnersChangeAsPromised == Owners!Spec
=============================================================================
