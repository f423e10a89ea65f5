------------------------- MODULE AdminGuard_proofs -------------------------
(***************************************************************************)
(* Proofs about AdminGuard for any number of users and requests.           *)
(***************************************************************************)
EXTENDS AdminGuard, TLAPS

\* Why one removal at a time is safe: past the rule, there is somebody other than
\* its target, and whoever takes that person away leaves a mark on it.
ClearedInv ==
    rejects = 0 /\ redates = 0 /\ ~raced =>
        /\ UsableAdminRemains
        /\ \A r \in Requests : Past(r) /\ r \notin undercut => SomebodyElseRemains(r)

GuardInv == TypeOK /\ ClearedInv

-----------------------------------------------------------------------------
\* The initial state is well typed.
LEMMA TypeInit == Init => TypeOK
  <1> SUFFICES ASSUME Init PROVE TypeOK
    OBVIOUS
  <1>1. raced \in BOOLEAN /\ undercut \in SUBSET Requests
    BY DEF Init
  <1> QED
    BY <1>1, GuardAssumption DEF Init, TypeOK, Kinds

LEMMA ClearType ==
  ASSUME TypeOK, NEW r \in Requests, Clear(r)
  PROVE  /\ pc' \in [Requests -> {"idle", "asked", "decided"}]
         /\ kind' \in [Requests -> Kinds]
         /\ actor' \in [Requests -> Users \cup {NoUser}]
         /\ target' \in [Requests -> Users \cup {NoUser}]
         /\ sawUsable' \in SUBSET Requests
  BY DEF TypeOK, Clear, Kinds

LEMMA ApplyType ==
  ASSUME TypeOK, NEW k \in Kinds, NEW t \in Users \cup {NoUser}, Apply(k, t)
  PROVE  /\ accounts' \in SUBSET Users
         /\ admins' \in SUBSET accounts' /\ parked' \in SUBSET accounts'
         /\ ban' \in [Users -> {"none", "inForce", "lapsed"}]
  BY DEF TypeOK, Apply, Delete, rowVars

\* Every step keeps the variables well typed.
LEMMA TypeStep == TypeOK /\ [Next]_vars => TypeOK'
  <1> SUFFICES ASSUME TypeOK, [Next]_vars PROVE TypeOK'
    OBVIOUS
  <1> raced' \in BOOLEAN
    BY Zenon DEF TypeOK, Next, Ask, Decide, Refuse, Write, Create, Approve, Unban, Lapse,
                 RejectUser, RedateBan, vars, rowVars, requestVars, raceVars
  <1> USE GuardAssumption DEF rowVars, requestVars, raceVars
  <1>1. ASSUME NEW r \in Requests, NEW k \in Kinds, NEW a \in Users, NEW t \in Users, Ask(r, k, a, t)
        PROVE  TypeOK'
    BY <1>1 DEF TypeOK, Ask
  <1>2. ASSUME NEW r \in Requests, Decide(r) PROVE TypeOK'
    BY <1>2 DEF TypeOK, Decide
  <1>3. ASSUME NEW r \in Requests, Refuse(r) PROVE TypeOK'
    BY <1>3, ClearType DEF TypeOK, Refuse
  <1>4. ASSUME NEW r \in Requests, Write(r) PROVE TypeOK'
    <2>1. kind[r] \in Kinds /\ target[r] \in Users \cup {NoUser}
      BY DEF TypeOK
    <2> QED
      BY <1>4, <2>1, ClearType, ApplyType DEF TypeOK, Write
  <1>5. ASSUME NEW u \in Users, NEW isAdmin \in BOOLEAN, NEW waits \in BOOLEAN, Create(u, isAdmin, waits)
        PROVE  TypeOK'
    BY <1>5 DEF TypeOK, Create
  <1>6. ASSUME NEW u \in Users, Approve(u) \/ Unban(u) \/ Lapse(u) PROVE TypeOK'
    BY <1>6 DEF TypeOK, Approve, Unban, Lapse
  <1>7. ASSUME NEW u \in Users, RejectUser(u) \/ RedateBan(u) PROVE TypeOK'
    BY <1>7 DEF TypeOK, RejectUser, RedateBan
  <1>8. CASE UNCHANGED vars
    BY <1>8 DEF TypeOK, vars
  <1> QED
    BY <1>1, <1>2, <1>3, <1>4, <1>5, <1>6, <1>7, <1>8 DEF Next

-----------------------------------------------------------------------------
\* Writes that take no administrator away leave those there are.
LEMMA NobodyTaken ==
  ASSUME TypeOK, UsableAdmins \subseteq UsableAdmins', ClearedInv,
         UNCHANGED <<requestVars, rejects, redates, raceVars>>
  PROVE  ClearedInv'
  BY DEF ClearedInv, UsableAdminRemains, Past, SomebodyElseRemains, Removing, InFlight, requestVars, raceVars

\* A write takes at most its target away, and only when it is a removal of a
\* usable administrator.
LEMMA WriteTakesItsTarget ==
  ASSUME TypeOK, NEW k \in Kinds, NEW t \in Users \cup {NoUser}, Apply(k, t)
  PROVE  /\ UsableAdmins \ {t} \subseteq UsableAdmins'
         /\ k \notin Removals => UsableAdmins \subseteq UsableAdmins'
         /\ ~UsableAdmin(t) => UsableAdmins \subseteq UsableAdmins'
  BY DEF TypeOK, Apply, Delete, UsableAdmins, UsableAdmin, Removals, Kinds, rowVars

\* A request that ends leaves the others as they were.
LEMMA OthersUntouched ==
  ASSUME TypeOK, NEW r \in Requests, Clear(r)
  PROVE  \A q \in Requests : Past(q)' => q # r /\ Past(q) /\ target'[q] = target[q]
  BY DEF TypeOK, Clear, Past, Removing, InFlight, Kinds, Removals

\* The guard's argument is preserved by every step.
LEMMA ClearedStep == TypeOK /\ ClearedInv /\ [Next]_vars => ClearedInv'
  <1> SUFFICES ASSUME TypeOK, ClearedInv, [Next]_vars PROVE ClearedInv'
    OBVIOUS
  <1> SUFFICES ASSUME rejects' = 0, redates' = 0, ~raced'
               PROVE  /\ UsableAdminRemains'
                      /\ \A r \in Requests : Past(r)' /\ r \notin undercut' => SomebodyElseRemains(r)'
    BY DEF ClearedInv
  <1>1. ASSUME NEW r \in Requests, NEW k \in Kinds, NEW a \in Users, NEW t \in Users, Ask(r, k, a, t)
        PROVE  ClearedInv'
    <2>1. /\ UsableAdmins' = UsableAdmins /\ undercut' = undercut
          /\ rejects = 0 /\ redates = 0 /\ ~raced
      BY <1>1 DEF Ask, UsableAdmins, UsableAdmin, rowVars, raceVars
    <2>2. \A q \in Requests \ {r} : (Past(q)' => Past(q)) /\ target'[q] = target[q]
      BY <1>1 DEF Ask, TypeOK, Removing, InFlight, Past
    <2>3. target'[r] = t /\ (Past(r)' => ~UsableAdmin(t))
      BY <1>1 DEF Ask, TypeOK, Removing, InFlight, Past
    <2>4. ASSUME NEW q \in Requests, Past(q)', q \notin undercut' PROVE SomebodyElseRemains(q)'
      <3>1. CASE q = r
        BY <2>1, <2>3, <2>4, <3>1 DEF ClearedInv, SomebodyElseRemains, UsableAdminRemains, UsableAdmins
      <3>2. CASE q # r
        BY <2>1, <2>2, <2>4, <3>2 DEF ClearedInv, SomebodyElseRemains
      <3> QED
        BY <3>1, <3>2
    <2> QED
      BY <2>1, <2>4 DEF ClearedInv, UsableAdminRemains
  <1>2. ASSUME NEW r \in Requests, Decide(r) PROVE ClearedInv'
    <2>1. /\ UsableAdmins' = UsableAdmins /\ target' = target /\ undercut' = undercut
          /\ rejects = 0 /\ redates = 0 /\ ~raced
      BY <1>2 DEF Decide, UsableAdmins, UsableAdmin, rowVars, raceVars
    <2>2. \A q \in Requests : Past(q)' => Past(q) \/ (q = r /\ kind[r] \in Removals /\ r \in sawUsable)
      BY <1>2 DEF Decide, TypeOK, Removing, InFlight, Past
    <2>3. kind[r] \in Removals /\ r \in sawUsable => SomebodyElseRemains(r)
      BY <1>2 DEF Decide, Allowed
    <2> QED
      BY <2>1, <2>2, <2>3 DEF ClearedInv, SomebodyElseRemains, UsableAdminRemains
  <1>3. ASSUME NEW r \in Requests, Refuse(r) PROVE ClearedInv'
    <2>1. /\ UsableAdmins' = UsableAdmins /\ undercut' = undercut \ {r}
          /\ rejects = 0 /\ redates = 0 /\ ~raced
      BY <1>3 DEF Refuse, UsableAdmins, UsableAdmin, rowVars
    <2> QED
      BY <1>3, <2>1, OthersUntouched DEF Refuse, ClearedInv, SomebodyElseRemains, UsableAdminRemains
  <1>4. ASSUME NEW r \in Requests, Write(r) PROVE ClearedInv'
    <2>1. /\ rejects = 0 /\ redates = 0 /\ ~raced
          /\ kind[r] \in Kinds /\ target[r] \in Users \cup {NoUser}
          /\ Takes(r) => r \notin undercut
      BY <1>4 DEF Write, TypeOK
    <2>2. /\ UsableAdmins \ {target[r]} \subseteq UsableAdmins'
          /\ ~Takes(r) => UsableAdmins \subseteq UsableAdmins'
      BY <1>4, <2>1, WriteTakesItsTarget DEF Write, Takes
    <2>3. Takes(r) => SomebodyElseRemains(r)
      BY <1>4, <2>1 DEF Write, Removing, InFlight, Past, Takes, ClearedInv
    <2>4. ASSUME NEW q \in Requests, Past(q)', q \notin undercut' PROVE SomebodyElseRemains(q)'
      <3>1. q # r /\ Past(q) /\ target'[q] = target[q]
        BY <1>4, <2>4, OthersUntouched DEF Write
      <3>2. q \notin undercut /\ (Takes(r) => target[q] = target[r])
        BY <1>4, <2>4, <3>1 DEF Write
      <3> QED
        BY <2>1, <2>2, <3>1, <3>2 DEF ClearedInv, SomebodyElseRemains
    <2>5. UsableAdminRemains'
      BY <2>1, <2>2, <2>3 DEF ClearedInv, UsableAdminRemains, SomebodyElseRemains
    <2> QED
      BY <2>4, <2>5 DEF ClearedInv
  <1>5. ASSUME NEW u \in Users, NEW isAdmin \in BOOLEAN, NEW waits \in BOOLEAN, Create(u, isAdmin, waits)
        PROVE  ClearedInv'
    <2>1. UsableAdmins \subseteq UsableAdmins'
      BY <1>5 DEF Create, TypeOK, UsableAdmins, UsableAdmin
    <2> QED
      BY <1>5, <2>1, NobodyTaken DEF Create
  <1>6. ASSUME NEW u \in Users, Approve(u) \/ Unban(u) \/ Lapse(u) PROVE ClearedInv'
    <2>1. UsableAdmins \subseteq UsableAdmins'
      BY <1>6 DEF Approve, Unban, Lapse, TypeOK, UsableAdmins, UsableAdmin
    <2> QED
      BY <1>6, <2>1, NobodyTaken DEF Approve, Unban, Lapse
  <1>7. ASSUME NEW u \in Users, RejectUser(u) \/ RedateBan(u) PROVE ClearedInv'
    BY <1>7, GuardAssumption DEF RejectUser, RedateBan, TypeOK, ClearedInv
  <1>8. ASSUME UNCHANGED vars PROVE ClearedInv'
    <2>1. UsableAdmins \subseteq UsableAdmins'
      BY <1>8 DEF vars, rowVars, UsableAdmins, UsableAdmin
    <2> QED
      BY <1>8, <2>1, NobodyTaken DEF vars
  <1>9. ClearedInv'
    BY <1>1, <1>2, <1>3, <1>4, <1>5, <1>6, <1>7, <1>8 DEF Next
  <1> QED
    BY <1>9 DEF ClearedInv

\* Set-up leaves one usable administrator and no request in flight.
LEMMA ClearedInit == Init => ClearedInv
  BY DEF Init, ClearedInv, UsableAdminRemains, UsableAdmins, UsableAdmin, Past, Removing, InFlight

-----------------------------------------------------------------------------
\* The variables of the guard always have their types.
THEOREM TypeCorrect == Spec => []TypeOK
  BY TypeInit, TypeStep, PTL DEF Spec

\* However many requests run, the guard loses the last usable administrator only
\* to a removal past its rule when another one took one away (invariants.ts 25-29).
THEOREM LastAdmin == Spec => []LastAdminLostOnlyToARace
  <1>1. Init => GuardInv
    BY TypeInit, ClearedInit DEF GuardInv
  <1>2. GuardInv /\ [Next]_vars => GuardInv'
    BY TypeStep, ClearedStep DEF GuardInv
  <1>3. GuardInv => LastAdminLostOnlyToARace
    BY DEF GuardInv, ClearedInv, LastAdminLostOnlyToARace
  <1> QED
    BY <1>1, <1>2, <1>3, PTL DEF Spec
=============================================================================
