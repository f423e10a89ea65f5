----------------------------- MODULE AdminGuard -----------------------------
(***************************************************************************)
(* The administrator accounts and the guard that keeps one of them usable:  *)
(* admin/guard.ts wraps Better Auth's admin endpoints, admin/invariants.ts  *)
(* decides, and the endpoint writes in a statement of its own afterwards.   *)
(*                                                                         *)
(* A guarded request is three moments another request can fall between:     *)
(* the guard reads the actor's session and the target, it loads the admins  *)
(* and decides, the endpoint writes.  Nothing locks the user table.         *)
(***************************************************************************)
EXTENDS Naturals, FiniteSets

CONSTANTS
    Users,       \* the accounts that may exist
    Requests,    \* the guarded requests that may be in flight together
    NoUser,      \* no actor, no target
    MaxRejects,  \* bound on calls to /idp/reject-user
    MaxRedates   \* bound on update-user calls that move a ban's end date

ASSUME GuardAssumption ==
    /\ NoUser \notin Users
    /\ MaxRejects \in Nat /\ MaxRedates \in Nat

\* actionForPath: a role change keeps an admin role or it does not; any status
\* but `active` is a rejection.  Impersonation writes nothing here.
Removals == {"demote", "ban", "delete", "reject"}
Kinds == Removals \cup {"grant"}

VARIABLES
    accounts,   \* the users with a row
    admins,     \* those whose `role` holds an admin role
    parked,     \* those whose `status` is not active
    ban,        \* ban[u]: "none", "inForce" or "lapsed" (banExpires has passed)
    pc,         \* pc[r]: "idle", "asked" or "decided"
    kind,       \* kind[r]: what the request attempts
    actor,      \* actor[r]: who asks
    target,     \* target[r]: to whom
    sawUsable,  \* the requests whose guard read the target as a usable admin
    rejects,    \* history: calls to /idp/reject-user
    redates,    \* history: ban dates moved through /admin/update-user
    undercut,   \* history: the removals past the last-admin rule since which another
                \* removal has taken an administrator away
    raced       \* history: such a removal has taken one away itself

rowVars == <<accounts, admins, parked, ban>>
requestVars == <<pc, kind, actor, target, sawUsable>>
raceVars == <<undercut, raced>>
vars == <<rowVars, requestVars, rejects, redates, raceVars>>

TypeOK ==
    /\ accounts \in SUBSET Users
    /\ admins \in SUBSET accounts
    /\ parked \in SUBSET accounts
    /\ ban \in [Users -> {"none", "inForce", "lapsed"}]
    /\ pc \in [Requests -> {"idle", "asked", "decided"}]
    /\ kind \in [Requests -> Kinds]
    /\ actor \in [Requests -> Users \cup {NoUser}]
    /\ target \in [Requests -> Users \cup {NoUser}]
    /\ sawUsable \in SUBSET Requests
    /\ rejects \in 0..MaxRejects /\ redates \in 0..MaxRedates
    /\ undercut \in SUBSET Requests
    /\ raced \in BOOLEAN

\* isUsableAdmin: an admin role, an active status, no ban in force.
UsableAdmin(u) == u \in admins /\ u \notin parked /\ ban[u] # "inForce"
UsableAdmins == {u \in Users : UsableAdmin(u)}

\* The deployment has been set up: one administrator exists and can sign in.
Init ==
    /\ \E first \in Users : accounts = {first} /\ admins = {first}
    /\ parked = {}
    /\ ban = [u \in Users |-> "none"]
    /\ pc = [r \in Requests |-> "idle"]
    /\ kind = [r \in Requests |-> "grant"]
    /\ actor = [r \in Requests |-> NoUser]
    /\ target = [r \in Requests |-> NoUser]
    /\ sawUsable = {}
    /\ rejects = 0 /\ redates = 0
    /\ undercut = {} /\ raced = FALSE

-----------------------------------------------------------------------------
(* Guarded requests.                                                       *)

InFlight(r) == pc[r] # "idle"

Removing(r) == InFlight(r) /\ kind[r] \in Removals

\* The before hook reads the actor's session and then the target's row.
Ask(r, k, a, t) ==
    /\ pc[r] = "idle"
    /\ a \in admins /\ t \in accounts
    /\ pc' = [pc EXCEPT ![r] = "asked"]
    /\ kind' = [kind EXCEPT ![r] = k]
    /\ actor' = [actor EXCEPT ![r] = a]
    /\ target' = [target EXCEPT ![r] = t]
    /\ sawUsable' = IF UsableAdmin(t) THEN sawUsable \cup {r} ELSE sawUsable
    /\ UNCHANGED <<rowVars, rejects, redates, raceVars>>

\* Mutant: the target is counted among those who could take over.
SomebodyElseRemainsMutant(r) == UsableAdmins # {}

SomebodyElseRemains(r) == UsableAdmins \ {target[r]} # {}

\* assertAdminInvariants over the admins loaded now: the last-admin rule, then
\* the self rules (a role change of one's own is refused whatever it grants).
Allowed(r) ==
    /\ kind[r] \in Removals /\ r \in sawUsable => SomebodyElseRemains(r)
    /\ actor[r] # target[r]

\* The endpoint's own gate asks once more whether the actor is an admin.
Decide(r) ==
    /\ pc[r] = "asked"
    /\ Allowed(r) /\ actor[r] \in admins
    /\ pc' = [pc EXCEPT ![r] = "decided"]
    /\ UNCHANGED <<rowVars, kind, actor, target, sawUsable, rejects, redates, raceVars>>

Clear(r) ==
    /\ pc' = [pc EXCEPT ![r] = "idle"]
    /\ kind' = [kind EXCEPT ![r] = "grant"]
    /\ actor' = [actor EXCEPT ![r] = NoUser]
    /\ target' = [target EXCEPT ![r] = NoUser]
    /\ sawUsable' = sawUsable \ {r}

Refuse(r) ==
    /\ pc[r] = "asked"
    /\ ~(Allowed(r) /\ actor[r] \in admins)
    /\ Clear(r)
    /\ undercut' = undercut \ {r}
    /\ UNCHANGED <<rowVars, rejects, redates, raced>>

Delete(t) ==
    /\ accounts' = accounts \ {t} /\ admins' = admins \ {t} /\ parked' = parked \ {t}
    /\ ban' = [ban EXCEPT ![t] = "none"]

\* Mutant: deleting an account leaves its rows among the administrators.
ApplyMutant(k, t) ==
    /\ accounts' = accounts \ {t}
    /\ UNCHANGED <<admins, parked, ban>>

\* What the endpoint writes.  A row that is gone by now is not written.
Apply(k, t) ==
    \/ t \notin accounts /\ UNCHANGED rowVars
    \/ /\ t \in accounts
       /\ \/ k = "delete" /\ Delete(t)
          \/ k = "demote" /\ admins' = admins \ {t} /\ UNCHANGED <<accounts, parked, ban>>
          \/ k = "grant" /\ admins' = admins \cup {t} /\ UNCHANGED <<accounts, parked, ban>>
          \/ k = "reject" /\ parked' = parked \cup {t} /\ UNCHANGED <<accounts, admins, ban>>
          \/ /\ k = "ban" /\ ban' = [ban EXCEPT ![t] = "inForce"]
             /\ UNCHANGED <<accounts, admins, parked>>

\* A removal the last-admin rule cannot refuse any more: it has let it by, or does
\* not apply, because the target was no usable administrator when it was read.
Past(r) == Removing(r) /\ (pc[r] = "decided" \/ r \notin sawUsable)

\* The write takes a usable administrator away.
Takes(r) == kind[r] \in Removals /\ UsableAdmin(target[r])

Write(r) ==
    /\ pc[r] = "decided"
    /\ Apply(kind[r], target[r])
    /\ Clear(r)
    /\ undercut' = (IF Takes(r) THEN undercut \cup {q \in Requests : Past(q) /\ target[q] # target[r]}
                               ELSE undercut) \ {r}
    /\ raced' = (raced \/ (Takes(r) /\ r \in undercut))
    /\ UNCHANGED <<rejects, redates>>

-----------------------------------------------------------------------------
(* Writes no invariant guards.                                             *)

ByAnAdmin == admins # {}

\* /admin/create-user (with any role) or a self-registration (with none).
Create(u, isAdmin, waits) ==
    /\ u \notin accounts
    /\ isAdmin => ByAnAdmin /\ ~waits
    /\ accounts' = accounts \cup {u}
    /\ admins' = IF isAdmin THEN admins \cup {u} ELSE admins
    /\ parked' = IF waits THEN parked \cup {u} ELSE parked
    /\ UNCHANGED <<ban, requestVars, rejects, redates, raceVars>>

\* /idp/approve-user, or update-user with status active.
Approve(u) ==
    /\ ByAnAdmin /\ u \in parked
    /\ parked' = parked \ {u}
    /\ UNCHANGED <<accounts, admins, ban, requestVars, rejects, redates, raceVars>>

\* /admin/unban-user, or update-user with banned false.
Unban(u) ==
    /\ ByAnAdmin /\ ban[u] # "none"
    /\ ban' = [ban EXCEPT ![u] = "none"]
    /\ UNCHANGED <<accounts, admins, parked, requestVars, rejects, redates, raceVars>>

\* A temporary ban's end date passes.
Lapse(u) ==
    /\ ban[u] = "inForce"
    /\ ban' = [ban EXCEPT ![u] = "lapsed"]
    /\ UNCHANGED <<accounts, admins, parked, requestVars, rejects, redates, raceVars>>

\* /idp/reject-user: the admin gate and nothing else.
RejectUser(u) ==
    /\ ByAnAdmin /\ u \in accounts
    /\ rejects < MaxRejects
    /\ rejects' = rejects + 1
    /\ parked' = parked \cup {u}
    /\ UNCHANGED <<accounts, admins, ban, requestVars, redates, raceVars>>

\* update-user with banExpires alone: actionForPath maps it to no action.
RedateBan(u) ==
    /\ ByAnAdmin /\ ban[u] # "none"
    /\ redates < MaxRedates
    /\ redates' = redates + 1
    /\ ban' = [ban EXCEPT ![u] = IF ban[u] = "lapsed" THEN "inForce" ELSE "lapsed"]
    /\ UNCHANGED <<accounts, admins, parked, requestVars, rejects, raceVars>>

Next ==
    \/ \E r \in Requests :
        \/ \E k \in Kinds, a, t \in Users : Ask(r, k, a, t)
        \/ Decide(r) \/ Refuse(r) \/ Write(r)
    \/ \E u \in Users :
        \/ \E isAdmin, waits \in BOOLEAN : Create(u, isAdmin, waits)
        \/ Approve(u) \/ Unban(u) \/ Lapse(u) \/ RejectUser(u) \/ RedateBan(u)

Spec == Init /\ [][Next]_vars

-----------------------------------------------------------------------------
(* Properties.                                                             *)

\* "the last admin cannot be demoted, banned, deleted or set non-active, by any
\* route": somebody can always sign in and administer (FR-ADMIN-3,
\* invariants.ts 14-20).
UsableAdminRemains == UsableAdmins # {}

\* What the guard does guarantee: without /idp/reject-user and without a moved
\* ban date, the last usable administrator is lost only to a removal that was
\* past the rule when another one took away an administrator the rule may have
\* counted on (the "narrow race" of invariants.ts 25-29).
LastAdminLostOnlyToARace ==
    rejects = 0 /\ redates = 0 /\ ~raced => UsableAdminRemains
=============================================================================
